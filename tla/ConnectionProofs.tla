-------------------------- MODULE ConnectionProofs --------------------------
(***************************************************************************)
(* Proofs about modules Frame, FrameReader and Connection, for every set   *)
(* of bytes and of frames and every bound: check and parse agree, what is  *)
(* written is read, what is decided stays so, and a Connection implements  *)
(* FrameChannel.                                                           *)
(***************************************************************************)
EXTENDS Connection, FrameReader, SequenceTheorems, FiniteSetTheorems,
        WellFoundedInduction, TLAPS

-----------------------------------------------------------------------------
(***************************************************************************)
(* Numbers.                                                                *)
(***************************************************************************)

LEMMA NatMin ==
    ASSUME NEW S \in SUBSET Nat, S # {}
    PROVE  Min(S) \in S /\ \A x \in S : Min(S) <= x
<1> DEFINE Less == {pair \in Nat \X Nat : pair[1] < pair[2]}
<1>1. IsWellFoundedOn(Less, Nat)
  BY NatLessThanWellFounded DEF OpToRel
<1>2. \E m \in S : \A k \in S : ~ (<<k, m>> \in Less)
  <2> HIDE DEF Less
  <2>1. IsWellFoundedOn(Less, S)
    BY <1>1, IsWellFoundedOnSubset
  <2> QED  BY <2>1, WFMin
<1>3. PICK m \in S : \A k \in S : ~ (<<k, m>> \in Less)
  BY <1>2
<1>4. ASSUME NEW k \in S
      PROVE  m <= k
  <2>1. k < m => <<k, m>> \in Less
    OBVIOUS
  <2> HIDE DEF Less
  <2> QED  BY <1>3, <2>1
<1> QED  BY <1>4 DEF Min

LEMMA NatMax ==
    ASSUME NEW m \in Nat, NEW S \in SUBSET (0..m), S # {}
    PROVE  Max(S) \in S /\ \A x \in S : x <= Max(S)
<1> DEFINE T == {m - x : x \in S}
<1>1. T \in SUBSET Nat /\ T # {}
  <2>1. \A x \in S : m - x \in Nat
    OBVIOUS
  <2> QED  BY <2>1
<1>2. PICK k \in T : \A x \in T : k <= x
  BY <1>1, NatMin
<1>3. m - k \in S /\ \A x \in S : x <= m - k
  BY <1>2
<1>4. \E x \in S : \A y \in S : x >= y
  BY <1>3
<1> QED  BY <1>4 DEF Max

LEMMA NatInduct ==
    ASSUME NEW N \in SUBSET Nat, 0 \in N, \A n \in N : n + 1 \in N
    PROVE  N = Nat
<1> SUFFICES ASSUME Nat \ N # {}
             PROVE  FALSE
  OBVIOUS
<1>1. PICK m \in Nat \ N : \A k \in Nat \ N : m <= k
  BY NatMin
<1>2. m - 1 \in Nat
  BY <1>1
<1> QED  BY <1>1, <1>2

\* Downwards from the end of a buffer to its beginning.
LEMMA DownInduct ==
    ASSUME NEW m \in Nat, NEW N \in SUBSET (1..m),
           \A p \in 1..m : (p + 1)..m \subseteq N => p \in N
    PROVE  N = 1..m
<1> DEFINE T == {m - p : p \in (1..m) \ N}
<1> SUFFICES ASSUME (1..m) \ N # {}
             PROVE  FALSE
  OBVIOUS
<1>1. T \in SUBSET Nat /\ T # {}
  OBVIOUS
<1>2. PICK k \in T : \A x \in T : k <= x
  BY <1>1, NatMin
<1>3. PICK p \in (1..m) \ N : k = m - p
  BY <1>2
<1>4. ASSUME NEW q \in (1..m) \ N
      PROVE  q <= p
  <2>1. m - q \in T
    OBVIOUS
  <2>2. m - p <= m - q
    BY <1>2, <1>3, <2>1
  <2> QED  BY <2>2
<1>5. (p + 1)..m \subseteq N
  BY <1>4
<1> QED  BY <1>3, <1>5

-----------------------------------------------------------------------------
(***************************************************************************)
(* Recursive functions.  An equation f = G[f] in which the value at i      *)
(* depends on values of lower rank only has a solution.                    *)
(***************************************************************************)

Typed(D, V) == {f \in [D -> UNION {V[i] : i \in D}] : \A i \in D : f[i] \in V[i]}

LEMMA TypedIs ==
    ASSUME NEW D, NEW V, NEW f, DOMAIN f = D, f = [i \in D |-> f[i]], \A i \in D : f[i] \in V[i]
    PROVE  f \in Typed(D, V)
<1>1. f \in [D -> UNION {V[i] : i \in D}]
  <2>1. \A i \in D : f[i] \in UNION {V[j] : j \in D}
    OBVIOUS
  <2> QED  BY <2>1
<1> QED  BY <1>1 DEF Typed

\* A step that maps typed functions to typed functions and depends on values of
\* lower rank only.
Causal(D, V, m, rank, G) ==
    /\ \A i \in D : V[i] # {}
    /\ m \in Nat /\ rank \in [D -> 0..m]
    /\ \A f \in Typed(D, V) : G[f] \in Typed(D, V)
    /\ \A f, g \in Typed(D, V), i \in D :
         (\A j \in D : rank[j] < rank[i] => f[j] = g[j]) => G[f][i] = G[g][i]

LEMMA Recursion ==
    ASSUME NEW D, NEW V, NEW m, NEW rank, NEW G, Causal(D, V, m, rank, G)
    PROVE  \E f \in Typed(D, V) : G[f] = f
<1> USE DEF Causal
<1> DEFINE N == {k \in Nat : \E f \in Typed(D, V) : \A i \in D : rank[i] < k => G[f][i] = f[i]}
<1>0. \A f \in Typed(D, V) : DOMAIN f = D /\ f = [i \in D |-> f[i]] /\ \A i \in D : f[i] \in V[i]
  BY DEF Typed
<1>1. 0 \in N
  <2> DEFINE f == [i \in D |-> CHOOSE v \in V[i] : TRUE]
  <2>1. \A i \in D : f[i] \in V[i]
    OBVIOUS
  <2>2. f \in Typed(D, V)
    <3>1. DOMAIN f = D /\ f = [i \in D |-> f[i]]
      OBVIOUS
    <3> HIDE DEF f
    <3> QED  BY <2>1, <3>1, TypedIs
  <2>3. \A i \in D : ~ (rank[i] < 0)
    OBVIOUS
  <2> HIDE DEF f
  <2> QED  BY <2>2, <2>3
<1>2. ASSUME NEW k \in N
      PROVE  k + 1 \in N
  <2>1. PICK f \in Typed(D, V) : \A i \in D : rank[i] < k => G[f][i] = f[i]
    OBVIOUS
  <2> DEFINE g == [i \in D |-> IF rank[i] = k THEN G[f][i] ELSE f[i]]
  <2>2. g \in Typed(D, V)
    <3>1. DOMAIN g = D /\ g = [i \in D |-> g[i]]
      OBVIOUS
    <3>2. \A i \in D : g[i] \in V[i]
      <4>1. G[f] \in Typed(D, V)
        OBVIOUS
      <4> QED  BY <1>0, <4>1
    <3> HIDE DEF g
    <3> QED  BY <3>1, <3>2, TypedIs
  <2>3. \A i \in D : rank[i] < k => g[i] = f[i]
    OBVIOUS
  <2>4. \A i \in D : rank[i] = k => g[i] = G[f][i]
    OBVIOUS
  <2> HIDE DEF g
  <2>5. ASSUME NEW i \in D, rank[i] < k + 1
        PROVE  G[g][i] = g[i]
    <3>1. k \in Nat /\ rank[i] \in Nat /\ \A j \in D : rank[j] \in Nat
      OBVIOUS
    <3>2. \A j \in D : rank[j] < rank[i] => g[j] = f[j]
      BY <2>3, <2>5, <3>1
    <3>3. G[g][i] = G[f][i]
      <4> HIDE DEF N
      <4> QED  BY <2>2, <3>2
    <3>4. CASE rank[i] < k
      <4>1. g[i] = f[i] /\ G[f][i] = f[i]
        BY <2>1, <2>3, <3>4
      <4> QED  BY <3>3, <4>1
    <3>5. CASE rank[i] = k
      BY <2>4, <3>3, <3>5
    <3> HIDE DEF N
    <3> QED  BY <2>5, <3>1, <3>4, <3>5
  <2> QED  BY <2>2, <2>5
<1>3. N = Nat
  <2> HIDE DEF N
  <2>1. N \in SUBSET Nat
    BY DEF N
  <2> QED  BY <1>1, <1>2, <2>1, NatInduct
<1>4. PICK f \in Typed(D, V) : \A i \in D : rank[i] < m + 1 => G[f][i] = f[i]
  <2>1. m + 1 \in N
    <3> HIDE DEF N
    <3> QED  BY <1>3
  <2> QED  BY <2>1
<1>5. \A i \in D : G[f][i] = f[i]
  BY <1>4
<1>6. G[f] \in Typed(D, V)
  OBVIOUS
<1>7. G[f] = f
  BY <1>0, <1>5, <1>6
<1> QED  BY <1>7

-----------------------------------------------------------------------------
(***************************************************************************)
(* Lines and numbers in a buffer.                                          *)
(***************************************************************************)

\* What a check may find at p: it needs more, it rejects, or it ends further on.
Found(b, p) == {Incomplete, Invalid} \cup {Ok(q) : q \in p..Len(b) + 1}

LEMMA FoundIs ==
    ASSUME NEW b \in Seq(Bytes), NEW p \in Nat, NEW r \in Found(b, p)
    PROVE  /\ r.status \in {"ok", "incomplete", "invalid"}
           /\ r.status = "ok" => r.next \in p..Len(b) + 1 /\ r = Ok(r.next)
           /\ r.status = "incomplete" => r = Incomplete
           /\ r.status = "invalid" => r = Invalid
  BY DEF Found, Ok, Incomplete, Invalid

LEMMA FoundLater ==
    ASSUME NEW b \in Seq(Bytes), NEW p \in Nat, NEW q \in Nat, p <= q
    PROVE  Found(b, q) \subseteq Found(b, p)
  BY DEF Found

LEMMA LineEndIs ==
    ASSUME NEW b \in Seq(Bytes), NEW p \in Nat \ {0}, LineEnds(b, p) # {}
    PROVE  /\ LineEnd(b, p) \in LineEnds(b, p)
           /\ \A e \in LineEnds(b, p) : LineEnd(b, p) <= e
<1>1. LineEnds(b, p) \in SUBSET Nat
  BY DEF LineEnds
<1> QED  BY <1>1, NatMin DEF LineEnd

LEMMA CheckLineIs ==
    ASSUME NEW b \in Seq(Bytes), NEW p \in Nat \ {0}
    PROVE  CheckLine(b, p) \in Found(b, p + 2)
<1>1. CASE LineEnds(b, p) = {}
  BY <1>1 DEF CheckLine, Found
<1>2. CASE LineEnds(b, p) # {}
  <2>1. LineEnd(b, p) \in p..Len(b) - 1
    BY <1>2, LineEndIs DEF LineEnds
  <2>2. LineEnd(b, p) + 2 \in p + 2..Len(b) + 1
    BY <2>1
  <2> QED  BY <1>2, <2>2 DEF CheckLine, Found
<1> QED  BY <1>1, <1>2

LEMMA LineIs ==
    ASSUME NEW b \in Seq(Bytes), NEW p \in Nat \ {0}, LineEnds(b, p) # {}
    PROVE  /\ Line(b, p) \in Seq(Bytes)
           /\ Len(Line(b, p)) = LineEnd(b, p) - p
           /\ \A i \in 1..LineEnd(b, p) - p : Line(b, p)[i] = b[p + i - 1]
<1>1. LineEnd(b, p) \in p..Len(b) - 1
  BY LineEndIs DEF LineEnds
<1>2. p \in Int /\ LineEnd(b, p) - 1 \in Int /\ \A i \in p..LineEnd(b, p) - 1 : b[i] \in Bytes
  BY <1>1
<1> QED  BY <1>1, <1>2, SubSeqProperties DEF Line

LEMMA LeadingDigitsIs ==
    ASSUME NEW line \in Seq(Bytes)
    PROVE  /\ LeadingDigits(line) \in 0..Len(line)
           /\ \A i \in 1..LeadingDigits(line) : line[i] \in Range(Digits)
           /\ \A k \in 0..Len(line) :
                (\A i \in 1..k : line[i] \in Range(Digits)) => k <= LeadingDigits(line)
<1> DEFINE K == {k \in 0..Len(line) : \A i \in 1..k : line[i] \in Range(Digits)}
<1>1. K \in SUBSET (0..Len(line)) /\ 0 \in K
  OBVIOUS
<1>2. LeadingDigits(line) = Max(K)
  BY DEF LeadingDigits
<1>3. Max(K) \in K /\ \A k \in K : k <= Max(K)
  <2>1. Len(line) \in Nat /\ K # {}
    BY <1>1
  <2> HIDE DEF K
  <2> QED  BY <1>1, <2>1, NatMax
<1> QED  BY <1>2, <1>3

LEMMA DigitIs ==
    ASSUME NEW c \in Range(Digits)
    PROVE  \E d \in 0..9 : Digits[d + 1] = c
<1>1. \E i \in DOMAIN Digits : Digits[i] = c
  BY DEF Range
<1>2. PICK i \in 1..10 : Digits[i] = c
  BY <1>1 DEF Digits
<1> QED  BY <1>2

Digit(c) == CHOOSE d \in 0..9 : Digits[d + 1] = c

\* The value of the first digits of a line, by their number.
Values(line, value) ==
    value = [k \in 0..LeadingDigits(line) |->
               IF k = 0 THEN 0 ELSE 10 * value[k - 1] + Digit(line[k])]

LEMMA DecimalValueIs ==
    ASSUME NEW line \in Seq(Bytes)
    PROVE  \E value \in [0..LeadingDigits(line) -> Nat] :
             /\ DecimalValue(line) = value[LeadingDigits(line)]
             /\ value[0] = 0
             /\ \A k \in 1..LeadingDigits(line) : value[k] = 10 * value[k - 1] + Digit(line[k])
<1> DEFINE m == LeadingDigits(line)
           D == 0..m
           V == [i \in D |-> Nat]
           rank == [i \in D |-> i]
           Step(f) == [k \in D |-> IF k = 0 THEN 0 ELSE 10 * f[k - 1] + Digit(line[k])]
           G == [f \in Typed(D, V) |-> Step(f)]
<1>1. m \in Nat /\ m <= Len(line) /\ \A i \in 1..m : line[i] \in Range(Digits)
  BY LeadingDigitsIs
<1>2. \A k \in 1..m : Digit(line[k]) \in 0..9
  BY <1>1, DigitIs DEF Digit
<1> HIDE DEF m
<1>3. \A f \in Typed(D, V) : \A i \in D : f[i] \in Nat
  BY DEF Typed
<1>4. \A f \in Typed(D, V) : Step(f) \in Typed(D, V)
  <2> SUFFICES ASSUME NEW f \in Typed(D, V)
               PROVE  Step(f) \in Typed(D, V)
    OBVIOUS
  <2>1. DOMAIN Step(f) = D /\ Step(f) = [i \in D |-> Step(f)[i]]
    OBVIOUS
  <2>2. \A i \in D : Step(f)[i] \in V[i]
    <3>1. ASSUME NEW k \in D, k # 0
          PROVE  Step(f)[k] \in Nat
      <4>1. k - 1 \in D /\ k \in 1..m
        BY <1>1, <3>1
      <4>2. f[k - 1] \in Nat /\ Digit(line[k]) \in Nat
        <5> HIDE DEF D, V, Step
        <5> QED  BY <1>2, <1>3, <4>1
      <4>3. Step(f)[k] = 10 * f[k - 1] + Digit(line[k])
        BY <3>1
      <4> HIDE DEF Step, V
      <4> QED  BY <4>2, <4>3
    <3>2. \A k \in D : k = 0 => Step(f)[k] \in Nat
      OBVIOUS
    <3> HIDE DEF Step
    <3> QED  BY <3>1, <3>2
  <2> HIDE DEF Step, V
  <2> QED  BY <2>1, <2>2, TypedIs
<1>5. \E f \in Typed(D, V) : G[f] = f
  <2>1. \A i \in D : V[i] # {}
    OBVIOUS
  <2>2. rank \in [D -> 0..m]
    OBVIOUS
  <2>3. \A f \in Typed(D, V) : G[f] \in Typed(D, V)
    BY <1>4
  <2>4. \A f, g \in Typed(D, V), i \in D :
          (\A j \in D : rank[j] < rank[i] => f[j] = g[j]) => G[f][i] = G[g][i]
    <3> SUFFICES ASSUME NEW f \in Typed(D, V), NEW g \in Typed(D, V), NEW i \in D,
                        \A j \in D : rank[j] < rank[i] => f[j] = g[j]
                 PROVE  G[f][i] = G[g][i]
      OBVIOUS
    <3>1. i # 0 => i - 1 \in D /\ i - 1 < i
      BY <1>1
    <3>2. i # 0 => f[i - 1] = g[i - 1]
      BY <3>1
    <3> QED  BY <3>2
  <2>5. m \in Nat
    BY <1>1
  <2> HIDE DEF D, V, rank, G, Step
  <2>6. Causal(D, V, m, rank, G)
    BY <2>1, <2>2, <2>3, <2>4, <2>5 DEF Causal
  <2> QED  BY <2>6, Recursion
<1>6. PICK f \in Typed(D, V) : f = Step(f)
  BY <1>5
<1> DEFINE value == CHOOSE g : Values(line, g)
<1>7. Values(line, value)
  <2>1. Values(line, f)
    BY <1>6 DEF Values, m
  <2> QED  BY <2>1
<1>8. DecimalValue(line) = value[m]
  BY DEF DecimalValue, Values, Digit, m
<1> HIDE DEF value
<1>9. \A k \in D : value[k] = IF k = 0 THEN 0 ELSE 10 * value[k - 1] + Digit(line[k])
  BY <1>7 DEF Values, m
<1>10. value = [k \in D |-> value[k]]
  BY <1>7 DEF Values, m
<1>11. \A k \in D : value[k] \in Nat
  <2> DEFINE N == {k \in Nat : k \in D => value[k] \in Nat}
  <2>1. 0 \in N
    BY <1>9
  <2>2. ASSUME NEW k \in N
        PROVE  k + 1 \in N
    <3>1. CASE k + 1 \in D
      <4>1. k \in D /\ k + 1 \in 1..m
        BY <1>1, <3>1
      <4>2. value[k] \in Nat /\ Digit(line[k + 1]) \in Nat
        BY <1>2, <4>1
      <4>3. value[k + 1] = 10 * value[k] + Digit(line[k + 1])
        <5>1. k + 1 # 0 /\ (k + 1) - 1 = k
          OBVIOUS
        <5> QED  BY <1>9, <3>1, <5>1
      <4>4. value[k + 1] \in Nat
        <5> HIDE DEF N, D
        <5> QED  BY <4>2, <4>3
      <4> QED  BY <4>4
    <3> QED  BY <3>1
  <2> HIDE DEF N
  <2>3. N \in SUBSET Nat
    BY DEF N
  <2>4. N = Nat
    BY <2>1, <2>2, <2>3, NatInduct
  <2> QED  BY <1>1, <2>4 DEF N
<1>12. value \in [D -> Nat]
  BY <1>10, <1>11
<1>13. /\ value[0] = 0
       /\ \A k \in 1..m : value[k] = 10 * value[k - 1] + Digit(line[k])
  BY <1>1, <1>9
<1> QED  BY <1>8, <1>12, <1>13 DEF m

LEMMA CheckDecimalIs ==
    ASSUME NEW b \in Seq(Bytes), NEW p \in Nat \ {0}
    PROVE  /\ CheckDecimal(b, p) \in Found(b, p + 2)
           /\ CheckDecimal(b, p).status = "ok" =>
                /\ LineEnds(b, p) # {}
                /\ LeadingDigits(Line(b, p)) # 0
                /\ CheckDecimal(b, p) = CheckLine(b, p)
<1>1. CheckLine(b, p) \in Found(b, p + 2) /\ Invalid \in Found(b, p + 2)
  BY CheckLineIs DEF Found
<1>2. Invalid.status # "ok" /\ Incomplete.status # "ok"
  BY DEF Invalid, Incomplete
<1>3. LineEnds(b, p) = {} => CheckLine(b, p) = Incomplete
  BY DEF CheckLine
<1> QED  BY <1>1, <1>2, <1>3 DEF CheckDecimal

LEMMA DecimalIs ==
    ASSUME NEW b \in Seq(Bytes), NEW p \in Nat \ {0}, LineEnds(b, p) # {}
    PROVE  Decimal(b, p) \in Nat
<1>1. Line(b, p) \in Seq(Bytes)
  BY LineIs
<1>2. LeadingDigits(Line(b, p)) \in 0..LeadingDigits(Line(b, p))
  <2>1. LeadingDigits(Line(b, p)) \in Nat
    BY <1>1, LeadingDigitsIs
  <2> QED  BY <2>1
<1> QED  BY <1>1, <1>2, DecimalValueIs DEF Decimal

LEMMA SkipIs ==
    ASSUME NEW b \in Seq(Bytes), NEW p \in Nat, NEW n \in Nat
    PROVE  Skip(b, p, n) \in Found(b, p + n)
<1>1. CASE (Len(b) - p) + 1 < n
  BY <1>1 DEF Skip, Found
<1>2. CASE ~ ((Len(b) - p) + 1 < n)
  <2>1. p + n \in p + n..Len(b) + 1
    BY <1>2
  <2> QED  BY <1>2, <2>1 DEF Skip, Found
<1> QED  BY <1>1, <1>2

LEMMA CheckBulkIs ==
    ASSUME NEW b \in Seq(Bytes), NEW p \in Nat \ {0}
    PROVE  CheckBulk(b, p) \in Found(b, p + 2)
<1>1. CASE p > Len(b)
  BY <1>1 DEF CheckBulk, Found
<1>2. CASE p <= Len(b) /\ b[p] = "-"
  <2>1. Skip(b, p, 4) \in Found(b, p + 2)
    BY SkipIs, FoundLater
  <2>2. ~ (p > Len(b))
    BY <1>2
  <2> QED  BY <1>2, <2>1, <2>2 DEF CheckBulk
<1>3. CASE p <= Len(b) /\ b[p] # "-"
  <2> DEFINE length == CheckDecimal(b, p)
             n == Decimal(b, p) + 2
  <2>1. length \in Found(b, p + 2)
    BY CheckDecimalIs
  <2>2. CheckBulk(b, p) = IF length.status # "ok" THEN length ELSE Skip(b, length.next, n)
    <3>1. ~ (p > Len(b))
      BY <1>3
    <3> QED  BY <1>3, <3>1 DEF CheckBulk
  <2>3. CASE length.status = "ok"
    <3>1. length.next \in Nat /\ p + 2 <= length.next
      BY <2>1, <2>3, FoundIs
    <3>2. n \in Nat
      <4>1. Decimal(b, p) \in Nat
        BY <2>3, CheckDecimalIs, DecimalIs
      <4> QED  BY <4>1
    <3> HIDE DEF length, n
    <3>3. Skip(b, length.next, n) \in Found(b, length.next + n)
      BY <3>1, <3>2, SkipIs
    <3>4. length.next + n \in Nat /\ p + 2 <= length.next + n
      BY <3>1, <3>2
    <3>5. Skip(b, length.next, n) \in Found(b, p + 2)
      BY <3>3, <3>4, FoundLater
    <3> QED  BY <2>2, <2>3, <3>5
  <2> HIDE DEF length
  <2> QED  BY <2>1, <2>2, <2>3
<1> QED  BY <1>1, <1>2, <1>3

-----------------------------------------------------------------------------
(***************************************************************************)
(* check finds nothing, or an end behind the type byte; and the arrays in  *)
(* a buffer are found from their first entry and the rest.                 *)
(***************************************************************************)

Rows(b) == [p \in 1..Len(b) + 1 |-> [Nat -> Found(b, p)]]

\* What a check of an entry depends on: the arrays further on.
LEMMA CheckEntryIs ==
    ASSUME NEW b \in Seq(Bytes), NEW p \in 1..Len(b) + 1, NEW f, NEW g,
           \A q \in p + 1..Len(b) + 1 : f[q] \in [Nat -> Found(b, q)] /\ f[q] = g[q]
    PROVE  CheckEntry(b, p, f) \in Found(b, p + 1) /\ CheckEntry(b, p, f) = CheckEntry(b, p, g)
<1>0. p \in Nat \ {0} /\ p + 1 \in Nat \ {0} /\ p + 3 \in Nat /\ (p + 1) + 2 = p + 3
  OBVIOUS
<1>1. Incomplete \in Found(b, p + 1) /\ Invalid \in Found(b, p + 1)
  BY DEF Found
<1>2. Found(b, p + 3) \subseteq Found(b, p + 1)
  BY <1>0, FoundLater
<1>3. /\ CheckLine(b, p + 1) \in Found(b, p + 1)
      /\ CheckDecimal(b, p + 1) \in Found(b, p + 3)
      /\ CheckBulk(b, p + 1) \in Found(b, p + 1)
  BY <1>0, <1>2, CheckLineIs, CheckDecimalIs, CheckBulkIs
<1> DEFINE length == CheckDecimal(b, p + 1)
           n == Decimal(b, p + 1)
<1>4. ASSUME length.status = "ok"
      PROVE  f[length.next][n] \in Found(b, p + 1) /\ f[length.next][n] = g[length.next][n]
  <2>1. length.next \in p + 3..Len(b) + 1
    BY <1>0, <1>3, <1>4, FoundIs
  <2>2. n \in Nat
    BY <1>0, <1>4, CheckDecimalIs, DecimalIs
  <2> HIDE DEF length, n
  <2>3. length.next \in p + 1..Len(b) + 1 /\ length.next \in Nat /\ p + 1 <= length.next
    BY <2>1
  <2>4. f[length.next][n] \in Found(b, length.next) /\ f[length.next] = g[length.next]
    BY <2>2, <2>3
  <2> QED  BY <1>0, <2>3, <2>4, FoundLater
<1>5. length \in Found(b, p + 1)
  BY <1>2, <1>3
<1> HIDE DEF length, n
<1>6. \A check : CheckEntry(b, p, check) =
        IF p > Len(b) THEN Incomplete
        ELSE CASE b[p] \in {"+", "-"} -> CheckLine(b, p + 1)
               [] b[p] = ":" -> CheckDecimal(b, p + 1)
               [] b[p] = "$" -> CheckBulk(b, p + 1)
               [] b[p] = "*" -> IF length.status # "ok" THEN length ELSE check[length.next][n]
               [] OTHER -> Invalid
  BY DEF CheckEntry, length, n
<1>7. CASE p > Len(b)
  BY <1>1, <1>6, <1>7
<1>8. CASE ~ (p > Len(b)) /\ b[p] = "*"
  BY <1>4, <1>5, <1>6, <1>8
<1>9. CASE ~ (p > Len(b)) /\ b[p] # "*"
  BY <1>1, <1>2, <1>3, <1>6, <1>9
<1> QED  BY <1>7, <1>8, <1>9

\* An array of n frames at p: nothing, or its first frame and the rest.
Row(b, p, f) ==
    [n \in Nat |->
       IF n = 0 THEN Ok(p)
       ELSE LET entry == CheckEntry(b, p, f)
            IN IF entry.status # "ok" THEN entry ELSE f[entry.next][n - 1]]

LEMMA RowIs ==
    ASSUME NEW b \in Seq(Bytes), NEW p \in 1..Len(b) + 1, NEW f, NEW g,
           \A q \in p + 1..Len(b) + 1 : f[q] \in [Nat -> Found(b, q)] /\ f[q] = g[q]
    PROVE  Row(b, p, f) \in [Nat -> Found(b, p)] /\ Row(b, p, f) = Row(b, p, g)
<1> DEFINE entry == CheckEntry(b, p, f)
<1>1. entry \in Found(b, p + 1) /\ entry = CheckEntry(b, p, g)
  BY CheckEntryIs
<1>2. entry \in Found(b, p)
  BY <1>1, FoundLater
<1>3. Ok(p) \in Found(b, p)
  BY DEF Found
<1>4. ASSUME NEW n \in Nat, n # 0, entry.status = "ok"
      PROVE  f[entry.next][n - 1] \in Found(b, p) /\ f[entry.next][n - 1] = g[entry.next][n - 1]
  <2>1. entry.next \in p + 1..Len(b) + 1
    BY <1>1, <1>4, FoundIs
  <2>2. n - 1 \in Nat
    BY <1>4
  <2> HIDE DEF entry
  <2>3. f[entry.next][n - 1] \in Found(b, entry.next) /\ f[entry.next] = g[entry.next]
    BY <2>1, <2>2
  <2>4. entry.next \in Nat /\ p <= entry.next
    BY <2>1
  <2> QED  BY <2>3, <2>4, FoundLater
<1> HIDE DEF entry
<1>5. Row(b, p, f) = [n \in Nat |-> IF n = 0 THEN Ok(p)
                                    ELSE IF entry.status # "ok" THEN entry ELSE f[entry.next][n - 1]]
  BY DEF Row, entry
<1>6. Row(b, p, g) = [n \in Nat |-> IF n = 0 THEN Ok(p)
                                    ELSE IF entry.status # "ok" THEN entry ELSE g[entry.next][n - 1]]
  BY <1>1 DEF Row
<1>7. Row(b, p, f) \in [Nat -> Found(b, p)]
  <2>1. \A n \in Nat : (IF n = 0 THEN Ok(p)
                        ELSE IF entry.status # "ok" THEN entry ELSE f[entry.next][n - 1]) \in Found(b, p)
    BY <1>2, <1>3, <1>4
  <2> QED  BY <1>5, <2>1
<1> QED  BY <1>4, <1>5, <1>6, <1>7

LEMMA CheckEntriesIs ==
    ASSUME NEW b \in Seq(Bytes)
    PROVE  \A p \in 1..Len(b) + 1 :
             /\ CheckEntries(b)[p] = Row(b, p, CheckEntries(b))
             /\ CheckEntries(b)[p] \in [Nat -> Found(b, p)]
<1> DEFINE D == 1..Len(b) + 1
           V == Rows(b)
           m == Len(b) + 1
           rank == [p \in D |-> m - p]
           Step(f) == [p \in D |-> Row(b, p, f)]
           G == [f \in Typed(D, V) |-> Step(f)]
<1>0. m \in Nat /\ \A p \in D : p \in Nat /\ p + 1 \in Nat
  OBVIOUS
<1>1. \A p \in D : V[p] = [Nat -> Found(b, p)]
  BY DEF Rows
<1>2. \A f \in Typed(D, V) : \A p \in D : f[p] \in [Nat -> Found(b, p)]
  BY <1>1 DEF Typed
<1> HIDE DEF V
<1>3. ASSUME NEW f \in Typed(D, V)
      PROVE  Step(f) \in Typed(D, V)
  <2>1. DOMAIN Step(f) = D /\ Step(f) = [p \in D |-> Step(f)[p]]
    OBVIOUS
  <2>2. ASSUME NEW p \in D
        PROVE  Step(f)[p] \in V[p]
    <3>1. \A q \in p + 1..Len(b) + 1 : f[q] \in [Nat -> Found(b, q)] /\ f[q] = f[q]
      BY <1>2
    <3>2. Row(b, p, f) \in [Nat -> Found(b, p)]
      BY <3>1, RowIs
    <3> QED  BY <1>1, <3>2
  <2> HIDE DEF Step, D
  <2> QED  BY <2>1, <2>2, TypedIs
<1>4. Causal(D, V, m, rank, G)
  <2>1. \A p \in D : V[p] # {}
    <3> SUFFICES ASSUME NEW p \in D PROVE V[p] # {}
      OBVIOUS
    <3>1. [n \in Nat |-> Invalid] \in [Nat -> Found(b, p)]
      BY DEF Found
    <3> QED  BY <1>1, <3>1
  <2>2. rank \in [D -> 0..m]
    BY <1>0
  <2>3. \A f \in Typed(D, V) : G[f] \in Typed(D, V)
    BY <1>3
  <2>4. \A f, g \in Typed(D, V), p \in D :
          (\A q \in D : rank[q] < rank[p] => f[q] = g[q]) => G[f][p] = G[g][p]
    <3> SUFFICES ASSUME NEW f \in Typed(D, V), NEW g \in Typed(D, V), NEW p \in D,
                        \A q \in D : rank[q] < rank[p] => f[q] = g[q]
                 PROVE  G[f][p] = G[g][p]
      OBVIOUS
    <3>1. \A q \in p + 1..Len(b) + 1 : q \in D /\ rank[q] < rank[p]
      OBVIOUS
    <3>2. \A q \in p + 1..Len(b) + 1 : f[q] \in [Nat -> Found(b, q)] /\ f[q] = g[q]
      BY <1>2, <3>1
    <3>3. Row(b, p, f) = Row(b, p, g)
      BY <3>2, RowIs
    <3> QED  BY <3>3
  <2> HIDE DEF D, m, rank, G
  <2> QED  BY <1>0, <2>1, <2>2, <2>3, <2>4 DEF Causal
<1>5. PICK f \in Typed(D, V) : f = Step(f)
  <2>1. \E f \in Typed(D, V) : G[f] = f
    <3> HIDE DEF D, m, rank, G
    <3> QED  BY <1>4, Recursion
  <2> QED  BY <2>1
<1> DEFINE check == CheckEntries(b)
<1>6. check = Step(check)
  <2> DEFINE Solves(h) ==
        h = [p \in 1..Len(b) + 1 |->
               [n \in Nat |->
                  IF n = 0 THEN Ok(p)
                  ELSE LET entry == CheckEntry(b, p, h)
                       IN IF entry.status # "ok" THEN entry ELSE h[entry.next][n - 1]]]
  <2>1. Solves(f)
    BY <1>5 DEF Row
  <2>2. CheckEntries(b) = CHOOSE h : Solves(h)
    BY DEF CheckEntries
  <2>3. Solves(CheckEntries(b))
    <3> HIDE DEF Solves
    <3> QED  BY <2>1, <2>2
  <2> QED  BY <2>3 DEF Row
<1> HIDE DEF check
<1>7. \A p \in D : check[p] = Row(b, p, check)
  <2>1. \A p \in D : Step(check)[p] = Row(b, p, check)
    OBVIOUS
  <2> HIDE DEF Step
  <2> QED  BY <1>6, <2>1
<1> DEFINE N == {p \in 1..m : check[p] \in [Nat -> Found(b, p)]}
<1>8. ASSUME NEW p \in 1..m, (p + 1)..m \subseteq N
      PROVE  p \in N
  <2>1. \A q \in p + 1..Len(b) + 1 : check[q] \in [Nat -> Found(b, q)] /\ check[q] = check[q]
    BY <1>8
  <2>2. Row(b, p, check) \in [Nat -> Found(b, p)]
    BY <2>1, RowIs
  <2> QED  BY <1>7, <2>2
<1>9. N = 1..m
  <2> HIDE DEF N
  <2>1. N \in SUBSET (1..m)
    BY DEF N
  <2> QED  BY <1>0, <1>8, <2>1, DownInduct
<1> QED  BY <1>7, <1>9 DEF check

-----------------------------------------------------------------------------
(***************************************************************************)
(* parse leaves the cursor behind what it has read; and the arrays in a    *)
(* buffer are read from their first entry and the rest.                    *)
(***************************************************************************)

Onward(b, p, r) == r.status = "ok" => r.next \in p..Len(b) + 1

LEMMA StatusIs ==
    /\ \A q : Ok(q).status = "ok" /\ Ok(q).next = q
    /\ \A q, frame : /\ Parsed(q, frame).status = "ok"
                     /\ Parsed(q, frame).next = q
                     /\ Parsed(q, frame).frame = frame
    /\ Incomplete.status = "incomplete"
    /\ Invalid.status = "invalid"
  BY DEF Ok, Parsed, Incomplete, Invalid

LEMMA FoundOnward ==
    ASSUME NEW b \in Seq(Bytes), NEW p \in Nat, NEW q \in Nat, p <= q, NEW r \in Found(b, q)
    PROVE  Onward(b, p, r)
<1>1. r.status = "ok" => r.next \in q..Len(b) + 1
  BY FoundIs
<1> QED  BY <1>1 DEF Onward

LEMMA ParseTextIs ==
    ASSUME NEW b \in Seq(Bytes), NEW p \in Nat \ {0}, NEW kind
    PROVE  Onward(b, p + 2, ParseText(b, p, kind))
<1>1. CheckLine(b, p) \in Found(b, p + 2)
  BY CheckLineIs
<1>2. Onward(b, p + 2, CheckLine(b, p))
  BY <1>1, FoundOnward
<1> QED  BY <1>2, StatusIs DEF ParseText, Onward

LEMMA ParseIntegerIs ==
    ASSUME NEW b \in Seq(Bytes), NEW p \in Nat \ {0}
    PROVE  Onward(b, p + 2, ParseInteger(b, p))
<1>1. CheckDecimal(b, p) \in Found(b, p + 2)
  BY CheckDecimalIs
<1>2. Onward(b, p + 2, CheckDecimal(b, p))
  BY <1>1, FoundOnward
<1> QED  BY <1>2, StatusIs DEF ParseInteger, Onward

LEMMA ParseNullIs ==
    ASSUME NEW b \in Seq(Bytes), NEW p \in Nat \ {0}
    PROVE  Onward(b, p + 2, ParseNull(b, p))
<1>1. CheckLine(b, p) \in Found(b, p + 2)
  BY CheckLineIs
<1>2. Onward(b, p + 2, CheckLine(b, p))
  BY <1>1, FoundOnward
<1> QED  BY <1>2, StatusIs DEF ParseNull, Onward

LEMMA ParseBytesIs ==
    ASSUME NEW b \in Seq(Bytes), NEW p \in Nat \ {0}
    PROVE  Onward(b, p + 2, ParseBytes(b, p))
<1> DEFINE length == CheckDecimal(b, p)
           n == Decimal(b, p) + 2
           bytes == Skip(b, length.next, n)
<1>1. length \in Found(b, p + 2)
  BY CheckDecimalIs
<1>2. CASE length.status = "ok"
  <2>1. length.next \in Nat /\ p + 2 <= length.next
    BY <1>1, <1>2, FoundIs
  <2>2. n \in Nat
    <3>1. Decimal(b, p) \in Nat
      BY <1>2, CheckDecimalIs, DecimalIs
    <3> QED  BY <3>1
  <2>3. bytes \in Found(b, length.next + n)
    <3> HIDE DEF length, n
    <3> QED  BY <2>1, <2>2, SkipIs
  <2>4. Onward(b, p + 2, bytes)
    <3> HIDE DEF length, n
    <3>1. length.next + n \in Nat /\ p + 2 <= length.next + n
      BY <2>1, <2>2
    <3> HIDE DEF bytes
    <3> QED  BY <2>3, <3>1, FoundOnward
  <2>5. ParseBytes(b, p) = IF bytes.status # "ok" THEN bytes
          ELSE Parsed(bytes.next, Bulk(SubSeq(b, length.next, bytes.next - 3)))
    BY <1>2 DEF ParseBytes
  <2> HIDE DEF bytes
  <2> QED  BY <2>4, <2>5, StatusIs DEF Onward
<1>3. CASE length.status # "ok"
  <2>1. ParseBytes(b, p) = length
    BY <1>3 DEF ParseBytes
  <2> QED  BY <1>3, <2>1 DEF Onward
<1> QED  BY <1>2, <1>3

LEMMA ParseBulkIs ==
    ASSUME NEW b \in Seq(Bytes), NEW p \in Nat \ {0}
    PROVE  Onward(b, p + 2, ParseBulk(b, p))
<1>1. Onward(b, p + 2, Incomplete)
  BY StatusIs DEF Onward
<1> QED  BY <1>1, ParseNullIs, ParseBytesIs DEF ParseBulk

\* What the parse of an entry depends on: the arrays further on.
LEMMA ParseEntryIs ==
    ASSUME NEW b \in Seq(Bytes), NEW p \in 1..Len(b) + 1, NEW f, NEW g,
           \A q \in p + 1..Len(b) + 1 :
              f[q] = g[q] /\ \A n \in Nat : Onward(b, q, f[q][n])
    PROVE  Onward(b, p + 1, ParseEntry(b, p, f)) /\ ParseEntry(b, p, f) = ParseEntry(b, p, g)
<1>0. p \in Nat \ {0} /\ p + 1 \in Nat \ {0} /\ (p + 1) + 2 = p + 3
  OBVIOUS
<1>1. \A r : Onward(b, p + 3, r) => Onward(b, p + 1, r)
  BY DEF Onward
<1>2. /\ \A kind : Onward(b, p + 1, ParseText(b, p + 1, kind))
      /\ Onward(b, p + 1, ParseInteger(b, p + 1))
      /\ Onward(b, p + 1, ParseBulk(b, p + 1))
  BY <1>0, <1>1, ParseTextIs, ParseIntegerIs, ParseBulkIs
<1>3. Onward(b, p + 1, Incomplete) /\ Onward(b, p + 1, [status |-> "panic", next |-> 0])
  BY StatusIs DEF Onward
<1> DEFINE length == CheckDecimal(b, p + 1)
           n == Decimal(b, p + 1)
<1>4. ASSUME length.status = "ok"
      PROVE  Onward(b, p + 1, f[length.next][n]) /\ f[length.next][n] = g[length.next][n]
  <2>1. length \in Found(b, p + 3)
    BY <1>0, CheckDecimalIs
  <2>2. length.next \in p + 3..Len(b) + 1
    BY <1>0, <1>4, <2>1, FoundIs
  <2>3. n \in Nat
    BY <1>0, <1>4, CheckDecimalIs, DecimalIs
  <2> HIDE DEF length, n
  <2>4. length.next \in p + 1..Len(b) + 1
    BY <2>2
  <2>5. Onward(b, length.next, f[length.next][n]) /\ f[length.next] = g[length.next]
    BY <2>3, <2>4
  <2>6. Onward(b, p + 1, f[length.next][n])
    BY <2>4, <2>5 DEF Onward
  <2> QED  BY <2>5, <2>6
<1>5. length.status # "ok" => Onward(b, p + 1, length)
  BY DEF Onward
<1> HIDE DEF length, n
<1>6. \A parse : ParseEntry(b, p, parse) =
        IF p > Len(b) THEN Incomplete
        ELSE CASE b[p] = "+" -> ParseText(b, p + 1, "simple")
               [] b[p] = "-" -> ParseText(b, p + 1, "error")
               [] b[p] = ":" -> ParseInteger(b, p + 1)
               [] b[p] = "$" -> ParseBulk(b, p + 1)
               [] b[p] = "*" -> IF length.status # "ok" THEN length ELSE parse[length.next][n]
               [] OTHER -> [status |-> "panic", next |-> 0]
  BY DEF ParseEntry, length, n
<1>7. CASE p > Len(b)
  BY <1>3, <1>6, <1>7
<1>8. CASE ~ (p > Len(b)) /\ b[p] = "*"
  BY <1>4, <1>5, <1>6, <1>8
<1>9. CASE ~ (p > Len(b)) /\ b[p] # "*"
  BY <1>2, <1>3, <1>6, <1>9
<1> QED  BY <1>7, <1>8, <1>9

\* An array of n frames at p: empty, or its first frame before the rest.
ParsedRow(b, p, f) ==
    [n \in Nat |->
       IF n = 0 THEN Parsed(p, Array(<<>>))
       ELSE LET entry == ParseEntry(b, p, f)
            IN IF entry.status # "ok" THEN entry
               ELSE Before(entry, f[entry.next][n - 1])]

LEMMA BeforeIs ==
    ASSUME NEW entry, NEW rest
    PROVE  /\ rest.status # "ok" => Before(entry, rest) = rest
           /\ rest.status = "ok" =>
                Before(entry, rest) = Parsed(rest.next, Array(<<entry.frame>> \o rest.frame.value))
           /\ Before(entry, rest).status = rest.status
           /\ Before(entry, rest).next = rest.next
<1> DEFINE frame == Array(<<entry.frame>> \o rest.frame.value)
<1>1. Before(entry, rest) = IF rest.status # "ok" THEN rest ELSE Parsed(rest.next, frame)
  BY DEF Before
<1> HIDE DEF frame
<1>2. Parsed(rest.next, frame).status = "ok" /\ Parsed(rest.next, frame).next = rest.next
  BY StatusIs
<1>3. frame = Array(<<entry.frame>> \o rest.frame.value)
  BY DEF frame
<1> QED  BY <1>1, <1>2, <1>3

LEMMA ParsedRowIs ==
    ASSUME NEW b \in Seq(Bytes), NEW p \in 1..Len(b) + 1, NEW f, NEW g,
           \A q \in p + 1..Len(b) + 1 :
              f[q] = g[q] /\ \A n \in Nat : Onward(b, q, f[q][n])
    PROVE  /\ ParsedRow(b, p, f) = ParsedRow(b, p, g)
           /\ \A n \in Nat : Onward(b, p, ParsedRow(b, p, f)[n])
<1> DEFINE entry == ParseEntry(b, p, f)
<1>1. Onward(b, p + 1, entry) /\ entry = ParseEntry(b, p, g)
  BY ParseEntryIs
<1>2. Onward(b, p, Parsed(p, Array(<<>>)))
  BY StatusIs DEF Onward
<1>3. ASSUME NEW n \in Nat, n # 0, entry.status = "ok"
      PROVE  /\ Onward(b, p, Before(entry, f[entry.next][n - 1]))
             /\ f[entry.next][n - 1] = g[entry.next][n - 1]
  <2>1. entry.next \in p + 1..Len(b) + 1
    BY <1>1, <1>3 DEF Onward
  <2>2. n - 1 \in Nat
    BY <1>3
  <2> HIDE DEF entry
  <2> DEFINE rest == f[entry.next][n - 1]
  <2>3. Onward(b, entry.next, rest) /\ f[entry.next] = g[entry.next]
    BY <2>1, <2>2
  <2>4. Before(entry, rest).status = "ok" => rest.status = "ok" /\ Before(entry, rest).next = rest.next
    <3> HIDE DEF rest
    <3> QED  BY BeforeIs
  <2>5. Onward(b, p, Before(entry, rest))
    <3> HIDE DEF rest
    <3> QED  BY <2>1, <2>3, <2>4 DEF Onward
  <2> QED  BY <2>3, <2>5
<1>4. entry.status # "ok" => Onward(b, p, entry)
  BY DEF Onward
<1> HIDE DEF entry
<1>5. ParsedRow(b, p, f) = [n \in Nat |-> IF n = 0 THEN Parsed(p, Array(<<>>))
        ELSE IF entry.status # "ok" THEN entry ELSE Before(entry, f[entry.next][n - 1])]
  BY DEF ParsedRow, entry
<1>6. ParsedRow(b, p, g) = [n \in Nat |-> IF n = 0 THEN Parsed(p, Array(<<>>))
        ELSE IF entry.status # "ok" THEN entry ELSE Before(entry, g[entry.next][n - 1])]
  BY <1>1 DEF ParsedRow
<1>7. \A n \in Nat : n # 0 /\ entry.status = "ok" =>
        Before(entry, f[entry.next][n - 1]) = Before(entry, g[entry.next][n - 1])
  BY <1>3
<1>8. ParsedRow(b, p, f) = ParsedRow(b, p, g)
  BY <1>5, <1>6, <1>7
<1>9. \A n \in Nat : Onward(b, p, ParsedRow(b, p, f)[n])
  BY <1>2, <1>3, <1>4, <1>5
<1> QED  BY <1>8, <1>9

LEMMA ParseEntriesIs ==
    ASSUME NEW b \in Seq(Bytes)
    PROVE  \A p \in 1..Len(b) + 1 :
             /\ ParseEntries(b)[p] = ParsedRow(b, p, ParseEntries(b))
             /\ \A n \in Nat : Onward(b, p, ParseEntries(b)[p][n])
<1> DEFINE m == Len(b) + 1
           D == 1..m
           Holds(f, p) == f[p] = ParsedRow(b, p, f) /\ \A n \in Nat : Onward(b, p, f[p][n])
           Solved(f, k) == f = [p \in D |-> f[p]] /\ \A p \in D : p + k > m => Holds(f, p)
           N == {k \in Nat : \E f : Solved(f, k)}
<1>0. m \in Nat /\ \A p \in D : p \in Nat
  OBVIOUS
<1>1. 0 \in N
  <2> DEFINE f == [p \in D |-> 0]
  <2>1. Solved(f, 0)
    <3>1. f = [p \in D |-> f[p]]
      OBVIOUS
    <3>2. \A p \in D : ~ (p + 0 > m)
      OBVIOUS
    <3> HIDE DEF f, Holds, D
    <3> QED  BY <3>1, <3>2
  <2> HIDE DEF Solved
  <2> QED  BY <2>1
<1>2. ASSUME NEW k \in N
      PROVE  k + 1 \in N
  <2>0. k \in Nat
    OBVIOUS
  <2>1. PICK f : Solved(f, k)
    OBVIOUS
  <2> DEFINE g == [p \in D |-> IF p + k = m THEN ParsedRow(b, p, f) ELSE f[p]]
  <2>2. g = [p \in D |-> g[p]]
    OBVIOUS
  <2>3. \A p \in D : p + k > m => g[p] = f[p]
    BY <1>0, <2>0
  <2>4. \A p \in D : p + k = m => g[p] = ParsedRow(b, p, f)
    OBVIOUS
  <2> HIDE DEF g, N
  <2>5. ASSUME NEW p \in D, p + (k + 1) > m
        PROVE  Holds(g, p)
    <3>1. \A q \in p + 1..Len(b) + 1 : q \in D /\ q + k > m
      BY <1>0, <2>0, <2>5
    <3>2. \A q \in p + 1..Len(b) + 1 : f[q] = g[q] /\ \A n \in Nat : Onward(b, q, f[q][n])
      <4> HIDE DEF D, m
      <4> QED  BY <2>1, <2>3, <3>1
    <3>3. /\ ParsedRow(b, p, f) = ParsedRow(b, p, g)
          /\ \A n \in Nat : Onward(b, p, ParsedRow(b, p, f)[n])
      BY <3>2, ParsedRowIs
    <3>4. g[p] = ParsedRow(b, p, f)
      <4>1. CASE p + k > m
        BY <2>1, <2>3, <4>1
      <4>2. CASE p + k = m
        BY <2>4, <4>2
      <4> QED  BY <1>0, <2>0, <2>5, <4>1, <4>2
    <3> QED  BY <3>3, <3>4
  <2>6. Solved(g, k + 1)
    <3> HIDE DEF Holds, D, m
    <3> QED  BY <2>2, <2>5
  <2> HIDE DEF Solved
  <2> QED  BY <2>0, <2>6 DEF N
<1>3. m \in N
  <2>1. N \in SUBSET Nat
    OBVIOUS
  <2> HIDE DEF N
  <2> QED  BY <1>0, <1>1, <1>2, <2>1, NatInduct
<1>4. PICK f : Solved(f, m)
  BY <1>3
<1>5. f = [p \in D |-> ParsedRow(b, p, f)]
  <2>1. \A p \in D : p + m > m
    BY <1>0
  <2>2. \A p \in D : f[p] = ParsedRow(b, p, f)
    BY <1>4, <2>1
  <2> HIDE DEF D
  <2> QED  BY <1>4, <2>2
<1> DEFINE parse == ParseEntries(b)
<1>6. parse = [p \in D |-> ParsedRow(b, p, parse)]
  <2> DEFINE Solves(h) ==
        h = [p \in 1..Len(b) + 1 |->
               [n \in Nat |->
                  IF n = 0 THEN Parsed(p, Array(<<>>))
                  ELSE LET entry == ParseEntry(b, p, h)
                       IN IF entry.status # "ok" THEN entry
                          ELSE Before(entry, h[entry.next][n - 1])]]
  <2>1. Solves(f)
    BY <1>5 DEF ParsedRow
  <2>2. ParseEntries(b) = CHOOSE h : Solves(h)
    BY DEF ParseEntries
  <2>3. Solves(ParseEntries(b))
    <3> HIDE DEF Solves
    <3> QED  BY <2>1, <2>2
  <2> QED  BY <2>3 DEF ParsedRow
<1> HIDE DEF parse
<1>7. \A p \in D : parse[p] = ParsedRow(b, p, parse)
  BY <1>6
<1> DEFINE M == {p \in 1..m : \A n \in Nat : Onward(b, p, parse[p][n])}
<1>8. ASSUME NEW p \in 1..m, (p + 1)..m \subseteq M
      PROVE  p \in M
  <2>1. \A q \in p + 1..Len(b) + 1 : parse[q] = parse[q] /\ \A n \in Nat : Onward(b, q, parse[q][n])
    BY <1>8
  <2>2. \A n \in Nat : Onward(b, p, ParsedRow(b, p, parse)[n])
    BY <2>1, ParsedRowIs
  <2> QED  BY <1>7, <2>2
<1>9. M = 1..m
  <2>1. M \in SUBSET (1..m)
    OBVIOUS
  <2> HIDE DEF M
  <2> QED  BY <1>0, <1>8, <2>1, DownInduct
<1> QED  BY <1>7, <1>9 DEF parse

-----------------------------------------------------------------------------
(***************************************************************************)
(* What check has accepted, parse reads to the same end, or it rejects it. *)
(***************************************************************************)

Agrees(checked, parsed) ==
    checked.status = "ok" =>
        /\ parsed.status # "panic"
        /\ parsed.status = "ok" => parsed.next = checked.next

LEMMA FoundAgrees ==
    ASSUME NEW b \in Seq(Bytes), NEW p \in Nat, NEW r \in Found(b, p), NEW frame
    PROVE  Agrees(r, r) /\ Agrees(r, Invalid) /\ Agrees(r, Parsed(r.next, frame))
  BY FoundIs, StatusIs DEF Agrees

LEMMA TextAgrees ==
    ASSUME NEW b \in Seq(Bytes), NEW p \in Nat \ {0}, NEW kind
    PROVE  Agrees(CheckLine(b, p), ParseText(b, p, kind))
<1>1. CheckLine(b, p) \in Found(b, p + 2) /\ p + 2 \in Nat
  BY CheckLineIs
<1> QED  BY <1>1, FoundAgrees DEF ParseText

LEMMA IntegerAgrees ==
    ASSUME NEW b \in Seq(Bytes), NEW p \in Nat \ {0}
    PROVE  Agrees(CheckDecimal(b, p), ParseInteger(b, p))
<1>1. CheckDecimal(b, p) \in Found(b, p + 2) /\ p + 2 \in Nat
  BY CheckDecimalIs
<1> QED  BY <1>1, FoundAgrees DEF ParseInteger

LEMMA NullAgrees ==
    ASSUME NEW b \in Seq(Bytes), NEW p \in Nat \ {0}
    PROVE  Agrees(Skip(b, p, 4), ParseNull(b, p))
<1>1. Skip(b, p, 4).status = "ok" => Skip(b, p, 4).next = p + 4
  BY StatusIs DEF Skip
<1>2. CheckLine(b, p) \in Found(b, p + 2)
  BY CheckLineIs
<1>3. CheckLine(b, p).status # "panic"
  <2>1. p + 2 \in Nat
    OBVIOUS
  <2> QED  BY <1>2, <2>1, FoundIs
<1>4. ASSUME CheckLine(b, p).status = "ok", Line(b, p) = <<"-", "1">>
      PROVE  CheckLine(b, p).next = p + 4
  <2>1. LineEnds(b, p) # {}
    BY <1>4, StatusIs DEF CheckLine
  <2>2. LineEnd(b, p) \in Nat /\ LineEnd(b, p) - p = 2
    <3>1. LineEnd(b, p) \in Nat
      BY <2>1, LineEndIs DEF LineEnds
    <3>2. Len(Line(b, p)) = 2
      BY <1>4
    <3> QED  BY <2>1, <3>1, <3>2, LineIs
  <2>3. CheckLine(b, p).next = LineEnd(b, p) + 2
    BY <2>1, StatusIs DEF CheckLine
  <2> QED  BY <2>2, <2>3
<1> QED  BY <1>1, <1>3, <1>4, StatusIs DEF ParseNull, Agrees

LEMMA BulkAgrees ==
    ASSUME NEW b \in Seq(Bytes), NEW p \in Nat \ {0}
    PROVE  Agrees(CheckBulk(b, p), ParseBulk(b, p))
<1>1. CASE p > Len(b)
  BY <1>1, StatusIs DEF CheckBulk, ParseBulk, Agrees
<1>2. CASE ~ (p > Len(b)) /\ b[p] = "-"
  BY <1>2, NullAgrees DEF CheckBulk, ParseBulk
<1>3. CASE ~ (p > Len(b)) /\ b[p] # "-"
  <2> DEFINE length == CheckDecimal(b, p)
             bytes == Skip(b, length.next, Decimal(b, p) + 2)
             frame == Bulk(SubSeq(b, length.next, bytes.next - 3))
  <2>1. CheckBulk(b, p) = IF length.status # "ok" THEN length ELSE bytes
    BY <1>3 DEF CheckBulk
  <2>2. ParseBulk(b, p) = IF length.status # "ok" THEN length
                          ELSE IF bytes.status # "ok" THEN bytes ELSE Parsed(bytes.next, frame)
    BY <1>3 DEF ParseBulk, ParseBytes
  <2> HIDE DEF length, bytes, frame
  <2> QED  BY <2>1, <2>2, StatusIs DEF Agrees
<1> QED  BY <1>1, <1>2, <1>3

LEMMA EntryAgrees ==
    ASSUME NEW b \in Seq(Bytes), NEW p \in 1..Len(b) + 1, NEW f, NEW g,
           \A q \in p + 1..Len(b) + 1, n \in Nat : Agrees(f[q][n], g[q][n])
    PROVE  Agrees(CheckEntry(b, p, f), ParseEntry(b, p, g))
<1>0. p \in Nat \ {0} /\ p + 1 \in Nat \ {0} /\ (p + 1) + 2 = p + 3
  OBVIOUS
<1> DEFINE length == CheckDecimal(b, p + 1)
           n == Decimal(b, p + 1)
<1>1. length.status = "ok" => length.next \in p + 1..Len(b) + 1 /\ n \in Nat
  <2>1. length \in Found(b, p + 3)
    BY <1>0, CheckDecimalIs
  <2>2. length.status = "ok" => length.next \in p + 3..Len(b) + 1
    BY <1>0, <2>1, FoundIs
  <2>3. length.status = "ok" => n \in Nat
    BY <1>0, CheckDecimalIs, DecimalIs
  <2> HIDE DEF length, n
  <2> QED  BY <2>2, <2>3
<1> HIDE DEF length, n
<1>2. length.status = "ok" => Agrees(f[length.next][n], g[length.next][n])
  BY <1>1
<1>3. /\ \A kind : Agrees(CheckLine(b, p + 1), ParseText(b, p + 1, kind))
      /\ Agrees(CheckDecimal(b, p + 1), ParseInteger(b, p + 1))
      /\ Agrees(CheckBulk(b, p + 1), ParseBulk(b, p + 1))
  BY <1>0, TextAgrees, IntegerAgrees, BulkAgrees
<1>4. CheckEntry(b, p, f) =
        IF p > Len(b) THEN Incomplete
        ELSE CASE b[p] \in {"+", "-"} -> CheckLine(b, p + 1)
               [] b[p] = ":" -> CheckDecimal(b, p + 1)
               [] b[p] = "$" -> CheckBulk(b, p + 1)
               [] b[p] = "*" -> IF length.status # "ok" THEN length ELSE f[length.next][n]
               [] OTHER -> Invalid
  BY DEF CheckEntry, length, n
<1>5. ParseEntry(b, p, g) =
        IF p > Len(b) THEN Incomplete
        ELSE CASE b[p] = "+" -> ParseText(b, p + 1, "simple")
               [] b[p] = "-" -> ParseText(b, p + 1, "error")
               [] b[p] = ":" -> ParseInteger(b, p + 1)
               [] b[p] = "$" -> ParseBulk(b, p + 1)
               [] b[p] = "*" -> IF length.status # "ok" THEN length ELSE g[length.next][n]
               [] OTHER -> [status |-> "panic", next |-> 0]
  BY DEF ParseEntry, length, n
<1>6. Agrees(Incomplete, Incomplete) /\ Agrees(Invalid, [status |-> "panic", next |-> 0])
  BY StatusIs DEF Agrees
<1>7. length.status # "ok" => Agrees(length, length)
  BY DEF Agrees
<1>8. CASE p > Len(b)
  BY <1>4, <1>5, <1>6, <1>8
<1>9. CASE ~ (p > Len(b)) /\ b[p] = "*"
  BY <1>2, <1>4, <1>5, <1>7, <1>9
<1>10. CASE ~ (p > Len(b)) /\ b[p] # "*"
  BY <1>3, <1>4, <1>5, <1>6, <1>10
<1> QED  BY <1>8, <1>9, <1>10

LEMMA EntriesAgree ==
    ASSUME NEW b \in Seq(Bytes)
    PROVE  \A p \in 1..Len(b) + 1, n \in Nat :
             Agrees(CheckEntries(b)[p][n], ParseEntries(b)[p][n])
<1> DEFINE m == Len(b) + 1
           check == CheckEntries(b)
           parse == ParseEntries(b)
           N == {p \in 1..m : \A n \in Nat : Agrees(check[p][n], parse[p][n])}
<1>1. ASSUME NEW p \in 1..m, (p + 1)..m \subseteq N
      PROVE  p \in N
  <2>1. \A q \in p + 1..Len(b) + 1, n \in Nat : Agrees(check[q][n], parse[q][n])
    BY <1>1
  <2>2. check[p] = Row(b, p, check) /\ parse[p] = ParsedRow(b, p, parse)
    BY CheckEntriesIs, ParseEntriesIs
  <2> HIDE DEF check, parse
  <2> DEFINE entry == CheckEntry(b, p, check)
             frame == ParseEntry(b, p, parse)
  <2>3. Agrees(entry, frame)
    BY <2>1, EntryAgrees
  <2>4. entry.status = "ok" => entry.next \in p + 1..Len(b) + 1
    <3>1. entry \in Found(b, p + 1)
      <4>1. \A q \in p + 1..Len(b) + 1 : check[q] \in [Nat -> Found(b, q)] /\ check[q] = check[q]
        BY CheckEntriesIs DEF check
      <4> QED  BY <4>1, CheckEntryIs
    <3>2. p + 1 \in Nat
      OBVIOUS
    <3> HIDE DEF entry
    <3> QED  BY <3>1, <3>2, FoundIs
  <2>5. \A n \in Nat : check[p][n] = IF n = 0 THEN Ok(p)
                                     ELSE IF entry.status # "ok" THEN entry ELSE check[entry.next][n - 1]
    BY <2>2 DEF Row
  <2>6. \A n \in Nat : parse[p][n] = IF n = 0 THEN Parsed(p, Array(<<>>))
                                     ELSE IF frame.status # "ok" THEN frame
                                     ELSE Before(frame, parse[frame.next][n - 1])
    BY <2>2 DEF ParsedRow
  <2> HIDE DEF entry, frame
  <2>7. ASSUME NEW n \in Nat
        PROVE  Agrees(check[p][n], parse[p][n])
    <3>1. CASE n = 0
      BY <2>5, <2>6, <3>1, StatusIs DEF Agrees
    <3>2. CASE n # 0 /\ entry.status # "ok"
      BY <2>5, <3>2 DEF Agrees
    <3>3. CASE n # 0 /\ entry.status = "ok" /\ frame.status # "ok"
      <4>1. parse[p][n] = frame /\ frame.status # "panic"
        BY <2>3, <2>6, <3>3 DEF Agrees
      <4> QED  BY <3>3, <4>1 DEF Agrees
    <3>4. CASE n # 0 /\ entry.status = "ok" /\ frame.status = "ok"
      <4>1. frame.next = entry.next
        BY <2>3, <3>4 DEF Agrees
      <4>2. n - 1 \in Nat
        BY <3>4
      <4>3. Agrees(check[entry.next][n - 1], parse[frame.next][n - 1])
        BY <2>1, <2>4, <3>4, <4>1, <4>2
      <4> DEFINE rest == parse[frame.next][n - 1]
      <4>4. check[p][n] = check[entry.next][n - 1] /\ parse[p][n] = Before(frame, rest)
        BY <2>5, <2>6, <3>4
      <4> HIDE DEF rest
      <4>5. Before(frame, rest).status = rest.status /\ Before(frame, rest).next = rest.next
        BY BeforeIs
      <4>6. Agrees(check[entry.next][n - 1], rest)
        BY <4>3 DEF rest
      <4> QED  BY <4>4, <4>5, <4>6 DEF Agrees
    <3> QED  BY <3>1, <3>2, <3>3, <3>4
  <2> QED  BY <2>7 DEF check, parse
<1>2. N = 1..m
  <2>1. N \in SUBSET (1..m) /\ m \in Nat
    OBVIOUS
  <2> HIDE DEF N, m
  <2> QED  BY <1>1, <2>1, DownInduct
<1> QED  BY <1>2

LEMMA CheckAgreesWithParse ==
    ASSUME NEW b \in Seq(Bytes), NEW p \in 1..Len(b) + 1
    PROVE  Agrees(Check(b, p), Parse(b, p)) /\ Check(b, p) \in Found(b, p + 1)
<1>1. Agrees(Check(b, p), Parse(b, p))
  <2>1. \A q \in p + 1..Len(b) + 1, n \in Nat : Agrees(CheckEntries(b)[q][n], ParseEntries(b)[q][n])
    BY EntriesAgree
  <2> QED  BY <2>1, EntryAgrees DEF Check, Parse
<1>2. Check(b, p) \in Found(b, p + 1)
  <2>1. \A q \in p + 1..Len(b) + 1 :
          CheckEntries(b)[q] \in [Nat -> Found(b, q)] /\ CheckEntries(b)[q] = CheckEntries(b)[q]
    BY CheckEntriesIs
  <2> QED  BY <2>1, CheckEntryIs DEF Check
<1> QED  BY <1>1, <1>2

-----------------------------------------------------------------------------
(***************************************************************************)
(* What one more byte at the end of a buffer changes.                      *)
(***************************************************************************)

LEMMA AppendIs ==
    ASSUME NEW b \in Seq(Bytes), NEW x \in Bytes
    PROVE  /\ Append(b, x) \in Seq(Bytes)
           /\ Len(Append(b, x)) = Len(b) + 1
           /\ \A i \in 1..Len(b) : Append(b, x)[i] = b[i]
<1>1. Append(b, x) \in Seq(Bytes)
  BY AppendProperties, Zenon
<1>2. Len(Append(b, x)) = Len(b) + 1
  OBVIOUS
<1>3. \A i \in 1..Len(b) : Append(b, x)[i] = b[i]
  OBVIOUS
<1> QED  BY <1>1, <1>2, <1>3

LEMMA SubSeqStays ==
    ASSUME NEW b \in Seq(Bytes), NEW x \in Bytes, NEW m \in Nat \ {0}, NEW n \in Int,
           n <= Len(b)
    PROVE  SubSeq(Append(b, x), m, n) = SubSeq(b, m, n)
<1> DEFINE c == Append(b, x)
<1>1. c \in Seq(Bytes) /\ Len(c) = Len(b) + 1 /\ \A i \in 1..Len(b) : c[i] = b[i]
  BY AppendIs
<1> HIDE DEF c
<1>2. \A i \in m..n : i \in 1..Len(b) /\ i \in 1..Len(c)
  BY <1>1
<1>3. (\A i \in m..n : b[i] \in Bytes) /\ (\A i \in m..n : c[i] \in Bytes)
  BY <1>1, <1>2
<1>4. /\ SubSeq(b, m, n) \in Seq(Bytes)
      /\ Len(SubSeq(b, m, n)) = IF m <= n THEN n - m + 1 ELSE 0
      /\ \A i \in 1 .. n - m + 1 : SubSeq(b, m, n)[i] = b[m + i - 1]
  BY <1>3, SubSeqProperties
<1>5. /\ SubSeq(c, m, n) \in Seq(Bytes)
      /\ Len(SubSeq(c, m, n)) = IF m <= n THEN n - m + 1 ELSE 0
      /\ \A i \in 1 .. n - m + 1 : SubSeq(c, m, n)[i] = c[m + i - 1]
  BY <1>3, SubSeqProperties
<1>6. \A i \in 1..Len(SubSeq(b, m, n)) : SubSeq(c, m, n)[i] = SubSeq(b, m, n)[i]
  <2> SUFFICES ASSUME NEW i \in 1..Len(SubSeq(b, m, n))
               PROVE  SubSeq(c, m, n)[i] = SubSeq(b, m, n)[i]
    OBVIOUS
  <2>1. i \in 1..n - m + 1 /\ m + i - 1 \in m..n
    BY <1>4
  <2>2. c[m + i - 1] = b[m + i - 1]
    BY <1>1, <1>2, <2>1
  <2> QED  BY <1>4, <1>5, <2>1, <2>2
<1>7. SubSeq(c, m, n) = SubSeq(b, m, n)
  BY <1>4, <1>5, <1>6, SeqEqual
<1> QED  BY <1>7 DEF c

LEMMA LineStays ==
    ASSUME NEW b \in Seq(Bytes), NEW x \in Bytes, NEW p \in Nat \ {0}
    PROVE  /\ LineEnds(b, p) # {} =>
                /\ LineEnds(Append(b, x), p) # {}
                /\ LineEnd(Append(b, x), p) = LineEnd(b, p)
                /\ Line(Append(b, x), p) = Line(b, p)
           /\ LineEnds(b, p) = {} /\ LineEnds(Append(b, x), p) # {} =>
                LineEnd(Append(b, x), p) >= Len(b)
<1> DEFINE c == Append(b, x)
<1>1. c \in Seq(Bytes) /\ Len(c) = Len(b) + 1 /\ \A i \in 1..Len(b) : c[i] = b[i]
  BY AppendIs
<1>2. \A m \in Nat \ {0}, n \in Int : n <= Len(b) => SubSeq(c, m, n) = SubSeq(b, m, n)
  BY SubSeqStays
<1> HIDE DEF c
<1>3. LineEnds(b, p) \subseteq LineEnds(c, p)
  <2>1. \A e \in p..Len(b) - 1 :
          e \in p..Len(c) - 1 /\ c[e] = b[e] /\ c[e + 1] = b[e + 1]
    <3> SUFFICES ASSUME NEW e \in p..Len(b) - 1
                 PROVE  e \in p..Len(c) - 1 /\ c[e] = b[e] /\ c[e + 1] = b[e + 1]
      OBVIOUS
    <3>1. e \in 1..Len(b) /\ e + 1 \in 1..Len(b)
      OBVIOUS
    <3> QED  BY <1>1, <3>1
  <2> QED  BY <2>1 DEF LineEnds
<1>4. \A e \in LineEnds(c, p) : e \in Nat /\ (e < Len(b) => e \in LineEnds(b, p))
  BY <1>1 DEF LineEnds
<1>5. LineEnds(c, p) # {} =>
        LineEnd(c, p) \in LineEnds(c, p) /\ \A e \in LineEnds(c, p) : LineEnd(c, p) <= e
  BY <1>1, LineEndIs
<1>6. LineEnds(b, p) # {} =>
        /\ LineEnd(b, p) \in LineEnds(b, p) /\ \A e \in LineEnds(b, p) : LineEnd(b, p) <= e
        /\ LineEnd(b, p) \in Nat /\ LineEnd(b, p) < Len(b)
  BY LineEndIs DEF LineEnds
<1>7. LineEnds(b, p) # {} => LineEnd(c, p) = LineEnd(b, p)
  BY <1>3, <1>4, <1>5, <1>6
<1>8. LineEnds(b, p) # {} => Line(c, p) = Line(b, p)
  <2> SUFFICES ASSUME LineEnds(b, p) # {}
               PROVE  Line(c, p) = Line(b, p)
    OBVIOUS
  <2>1. LineEnd(b, p) - 1 \in Int /\ LineEnd(b, p) - 1 <= Len(b)
    BY <1>6
  <2> QED  BY <1>2, <1>7, <2>1 DEF Line
<1>9. LineEnds(b, p) = {} /\ LineEnds(c, p) # {} => LineEnd(c, p) >= Len(b)
  BY <1>4, <1>5
<1> QED  BY <1>3, <1>7, <1>8, <1>9 DEF c

\* What check has decided it does not revise.
Stays(before, after) == before.status # "incomplete" => after = before

LEMMA ChecksStay ==
    ASSUME NEW b \in Seq(Bytes), NEW x \in Bytes, NEW p \in Nat \ {0}
    PROVE  /\ Stays(CheckLine(b, p), CheckLine(Append(b, x), p))
           /\ Stays(CheckDecimal(b, p), CheckDecimal(Append(b, x), p))
           /\ LineEnds(b, p) # {} => Decimal(Append(b, x), p) = Decimal(b, p)
           /\ \A n \in Nat : Stays(Skip(b, p, n), Skip(Append(b, x), p, n))
           /\ Stays(CheckBulk(b, p), CheckBulk(Append(b, x), p))
<1> DEFINE c == Append(b, x)
<1>1. c \in Seq(Bytes) /\ Len(c) = Len(b) + 1 /\ \A i \in 1..Len(b) : c[i] = b[i]
  BY AppendIs
<1>2. LineEnds(b, p) # {} =>
        /\ LineEnds(c, p) # {}
        /\ LineEnd(c, p) = LineEnd(b, p)
        /\ Line(c, p) = Line(b, p)
  BY LineStays
<1> HIDE DEF c
<1>3. Stays(CheckLine(b, p), CheckLine(c, p))
  BY <1>2, StatusIs DEF CheckLine, Stays
<1>4. Stays(CheckDecimal(b, p), CheckDecimal(c, p))
  <2>1. LineEnds(b, p) = {} => CheckDecimal(b, p) = Incomplete
    BY DEF CheckDecimal, CheckLine
  <2>2. LineEnds(b, p) # {} => CheckDecimal(c, p) = CheckDecimal(b, p)
    BY <1>2 DEF CheckDecimal, CheckLine
  <2> QED  BY <2>1, <2>2, StatusIs DEF Stays
<1>5. LineEnds(b, p) # {} => Decimal(c, p) = Decimal(b, p)
  BY <1>2 DEF Decimal
<1>6. \A q, n \in Nat : Stays(Skip(b, q, n), Skip(c, q, n))
  <2> SUFFICES ASSUME NEW q \in Nat, NEW n \in Nat
               PROVE  Stays(Skip(b, q, n), Skip(c, q, n))
    OBVIOUS
  <2>1. CASE (Len(b) - q) + 1 < n
    BY <2>1, StatusIs DEF Skip, Stays
  <2>2. CASE ~ ((Len(b) - q) + 1 < n)
    <3>1. ~ ((Len(c) - q) + 1 < n)
      BY <1>1, <2>2
    <3> QED  BY <2>2, <3>1 DEF Skip, Stays
  <2> QED  BY <2>1, <2>2
<1>7. Stays(CheckBulk(b, p), CheckBulk(c, p))
  <2>1. CASE p > Len(b)
    BY <2>1, StatusIs DEF CheckBulk, Stays
  <2>2. CASE ~ (p > Len(b)) /\ b[p] = "-"
    <3>1. ~ (p > Len(c)) /\ c[p] = "-"
      BY <1>1, <2>2
    <3> QED  BY <1>6, <2>2, <3>1 DEF CheckBulk
  <2>3. CASE ~ (p > Len(b)) /\ b[p] # "-"
    <3>1. ~ (p > Len(c)) /\ c[p] # "-"
      BY <1>1, <2>3
    <3> DEFINE length == CheckDecimal(b, p)
               n == Decimal(b, p) + 2
    <3>2. CheckBulk(b, p) = IF length.status # "ok" THEN length ELSE Skip(b, length.next, n)
      BY <2>3 DEF CheckBulk
    <3>3. CASE length.status = "ok"
      <4>1. LineEnds(b, p) # {}
        BY <3>3, CheckDecimalIs
      <4>2. CheckDecimal(c, p) = length /\ Decimal(c, p) + 2 = n
        BY <1>4, <1>5, <3>3, <4>1, StatusIs DEF Stays
      <4>3. CheckBulk(c, p) = Skip(c, length.next, n)
        BY <3>1, <3>3, <4>2 DEF CheckBulk
      <4>4. length.next \in Nat /\ n \in Nat
        <5>1. length \in Found(b, p + 2) /\ p + 2 \in Nat
          BY CheckDecimalIs
        <5>2. length.next \in Nat
          <6> HIDE DEF length
          <6> QED  BY <3>3, <5>1, FoundIs
        <5>3. Decimal(b, p) \in Nat
          BY <4>1, DecimalIs
        <5> QED  BY <5>2, <5>3
      <4> HIDE DEF length, n
      <4> QED  BY <1>6, <3>2, <3>3, <4>3, <4>4
    <3>4. CASE length.status # "ok"
      <4>1. length.status # "incomplete" => CheckDecimal(c, p) = length
        BY <1>4 DEF Stays
      <4>2. CheckDecimal(c, p) = length => CheckBulk(c, p) = length
        BY <3>1, <3>4 DEF CheckBulk
      <4> HIDE DEF length
      <4> QED  BY <3>2, <3>4, <4>1, <4>2 DEF Stays
    <3> QED  BY <3>3, <3>4
  <2> QED  BY <2>1, <2>2, <2>3
<1>8. \A n \in Nat : Stays(Skip(b, p, n), Skip(c, p, n))
  BY <1>6
<1> QED  BY <1>3, <1>4, <1>5, <1>7, <1>8 DEF c

LEMMA EntryStays ==
    ASSUME NEW b \in Seq(Bytes), NEW x \in Bytes, NEW p \in 1..Len(b) + 1, NEW f, NEW g,
           \A q \in p + 1..Len(b) + 1, n \in Nat : Stays(f[q][n], g[q][n])
    PROVE  Stays(CheckEntry(b, p, f), CheckEntry(Append(b, x), p, g))
<1> DEFINE c == Append(b, x)
           length == CheckDecimal(b, p + 1)
           n == Decimal(b, p + 1)
<1>0. p \in Nat \ {0} /\ p + 1 \in Nat \ {0} /\ (p + 1) + 2 = p + 3
  OBVIOUS
<1>1. c \in Seq(Bytes) /\ Len(c) = Len(b) + 1 /\ \A i \in 1..Len(b) : c[i] = b[i]
  BY AppendIs
<1>2. /\ Stays(CheckLine(b, p + 1), CheckLine(c, p + 1))
      /\ Stays(length, CheckDecimal(c, p + 1))
      /\ LineEnds(b, p + 1) # {} => Decimal(c, p + 1) = n
      /\ Stays(CheckBulk(b, p + 1), CheckBulk(c, p + 1))
  BY <1>0, ChecksStay
<1>3. length.status = "ok" =>
        length.next \in p + 1..Len(b) + 1 /\ n \in Nat /\ CheckDecimal(c, p + 1) = length
        /\ Decimal(c, p + 1) = n
  <2>1. length \in Found(b, p + 3)
    BY <1>0, CheckDecimalIs
  <2>2. length.status = "ok" => length.next \in p + 3..Len(b) + 1
    BY <1>0, <2>1, FoundIs
  <2>3. length.status = "ok" => n \in Nat /\ LineEnds(b, p + 1) # {}
    BY <1>0, CheckDecimalIs, DecimalIs
  <2>4. length.status = "ok" => CheckDecimal(c, p + 1) = length
    BY <1>2 DEF Stays
  <2> HIDE DEF length, n
  <2> QED  BY <1>2, <2>2, <2>3, <2>4
<1> HIDE DEF c
<1>4. CheckEntry(b, p, f) =
        IF p > Len(b) THEN Incomplete
        ELSE CASE b[p] \in {"+", "-"} -> CheckLine(b, p + 1)
               [] b[p] = ":" -> CheckDecimal(b, p + 1)
               [] b[p] = "$" -> CheckBulk(b, p + 1)
               [] b[p] = "*" -> IF length.status # "ok" THEN length ELSE f[length.next][n]
               [] OTHER -> Invalid
  BY DEF CheckEntry
<1>5. CheckEntry(c, p, g) =
        IF p > Len(c) THEN Incomplete
        ELSE CASE c[p] \in {"+", "-"} -> CheckLine(c, p + 1)
               [] c[p] = ":" -> CheckDecimal(c, p + 1)
               [] c[p] = "$" -> CheckBulk(c, p + 1)
               [] c[p] = "*" -> IF CheckDecimal(c, p + 1).status # "ok" THEN CheckDecimal(c, p + 1)
                                ELSE g[CheckDecimal(c, p + 1).next][Decimal(c, p + 1)]
               [] OTHER -> Invalid
  BY DEF CheckEntry
<1>6. p > Len(b) => Stays(CheckEntry(b, p, f), CheckEntry(c, p, g))
  BY <1>4, StatusIs DEF Stays
<1>7. ~ (p > Len(b)) => ~ (p > Len(c)) /\ c[p] = b[p]
  BY <1>1
<1>8. ASSUME ~ (p > Len(b)), b[p] = "*"
      PROVE  Stays(CheckEntry(b, p, f), CheckEntry(c, p, g))
  <2>1. CASE length.status = "ok"
    <3>1. CheckEntry(b, p, f) = f[length.next][n]
      <4> HIDE DEF length, n
      <4> QED  BY <1>4, <1>8, <2>1
    <3>2. CheckEntry(c, p, g) = g[length.next][n]
      <4> HIDE DEF length, n
      <4> QED  BY <1>3, <1>5, <1>7, <1>8, <2>1
    <3>3. Stays(f[length.next][n], g[length.next][n])
      <4> HIDE DEF length, n
      <4> QED  BY <1>3, <2>1
    <3> QED  BY <3>1, <3>2, <3>3
  <2>2. CASE length.status # "ok"
    <3>1. CheckEntry(b, p, f) = length
      <4> HIDE DEF length, n
      <4> QED  BY <1>4, <1>8, <2>2
    <3>2. CheckDecimal(c, p + 1) = length => CheckEntry(c, p, g) = length
      <4> HIDE DEF length, n
      <4> QED  BY <1>5, <1>7, <1>8, <2>2
    <3> HIDE DEF length
    <3> QED  BY <1>2, <3>1, <3>2 DEF Stays
  <2> QED  BY <2>1, <2>2
<1>9. ASSUME ~ (p > Len(b)), b[p] # "*"
      PROVE  Stays(CheckEntry(b, p, f), CheckEntry(c, p, g))
  <2>1. Stays(Invalid, Invalid) /\ Stays(CheckDecimal(b, p + 1), CheckDecimal(c, p + 1))
    BY <1>2 DEF Stays
  <2> HIDE DEF length, n
  <2> QED  BY <1>2, <1>4, <1>5, <1>7, <1>9, <2>1
<1> QED  BY <1>6, <1>8, <1>9 DEF c

LEMMA EntriesStay ==
    ASSUME NEW b \in Seq(Bytes), NEW x \in Bytes
    PROVE  \A p \in 1..Len(b) + 1, n \in Nat :
             Stays(CheckEntries(b)[p][n], CheckEntries(Append(b, x))[p][n])
<1> DEFINE m == Len(b) + 1
           c == Append(b, x)
           f == CheckEntries(b)
           g == CheckEntries(c)
           N == {p \in 1..m : \A n \in Nat : Stays(f[p][n], g[p][n])}
<1>0. c \in Seq(Bytes) /\ Len(c) = Len(b) + 1
  BY AppendIs
<1>1. ASSUME NEW p \in 1..m, (p + 1)..m \subseteq N
      PROVE  p \in N
  <2>1. \A q \in p + 1..Len(b) + 1, n \in Nat : Stays(f[q][n], g[q][n])
    BY <1>1
  <2>2. f[p] = Row(b, p, f)
    BY CheckEntriesIs
  <2>3. g[p] = Row(c, p, g)
    <3>1. p \in 1..Len(c) + 1
      BY <1>0
    <3> HIDE DEF c
    <3> QED  BY <1>0, <3>1, CheckEntriesIs
  <2> DEFINE entry == CheckEntry(b, p, f)
             later == CheckEntry(c, p, g)
  <2>4. Stays(entry, later)
    <3> HIDE DEF f, g
    <3> QED  BY <2>1, EntryStays
  <2>5. entry.status = "ok" => entry.next \in p + 1..Len(b) + 1
    <3>1. entry \in Found(b, p + 1)
      <4>1. \A q \in p + 1..Len(b) + 1 : f[q] \in [Nat -> Found(b, q)] /\ f[q] = f[q]
        BY CheckEntriesIs
      <4> HIDE DEF f
      <4> QED  BY <4>1, CheckEntryIs
    <3>2. p + 1 \in Nat
      OBVIOUS
    <3> HIDE DEF entry
    <3> QED  BY <3>1, <3>2, FoundIs
  <2> HIDE DEF f, g, c
  <2>6. \A n \in Nat : f[p][n] = IF n = 0 THEN Ok(p)
                                 ELSE IF entry.status # "ok" THEN entry ELSE f[entry.next][n - 1]
    BY <2>2 DEF Row
  <2>7. \A n \in Nat : g[p][n] = IF n = 0 THEN Ok(p)
                                 ELSE IF later.status # "ok" THEN later ELSE g[later.next][n - 1]
    BY <2>3 DEF Row
  <2> HIDE DEF entry, later
  <2>8. ASSUME NEW n \in Nat
        PROVE  Stays(f[p][n], g[p][n])
    <3>1. CASE n = 0
      BY <2>6, <2>7, <3>1 DEF Stays
    <3>2. CASE n # 0 /\ entry.status # "ok"
      BY <2>4, <2>6, <2>7, <3>2 DEF Stays
    <3>3. CASE n # 0 /\ entry.status = "ok"
      <4>1. later = entry
        BY <2>4, <3>3 DEF Stays
      <4>2. n - 1 \in Nat
        BY <3>3
      <4>3. Stays(f[entry.next][n - 1], g[entry.next][n - 1])
        BY <2>1, <2>5, <3>3, <4>2
      <4> QED  BY <2>6, <2>7, <3>3, <4>1, <4>3
    <3> QED  BY <3>1, <3>2, <3>3
  <2> QED  BY <2>8
<1>2. N = 1..m
  <2> HIDE DEF f, g
  <2>1. N \in SUBSET (1..m) /\ m \in Nat
    OBVIOUS
  <2> HIDE DEF N, m
  <2> QED  BY <1>1, <2>1, DownInduct
<1> QED  BY <1>2

\* Where check has found a frame, more bytes do not change what parse makes of it.
Same(before, after) ==
    /\ before.status = "ok" => after = before
    /\ before.status # "ok" => after.status # "ok"

LEMMA TextSame ==
    ASSUME NEW b \in Seq(Bytes), NEW x \in Bytes, NEW p \in Nat \ {0}, NEW kind,
           CheckLine(b, p).status = "ok"
    PROVE  Same(ParseText(b, p, kind), ParseText(Append(b, x), p, kind))
<1>1. LineEnds(b, p) # {}
  BY StatusIs DEF CheckLine
<1>2. Line(Append(b, x), p) = Line(b, p)
  BY <1>1, LineStays
<1>3. CheckLine(Append(b, x), p) = CheckLine(b, p)
  BY ChecksStay DEF Stays
<1>4. ParseText(Append(b, x), p, kind) = ParseText(b, p, kind)
  BY <1>2, <1>3 DEF ParseText
<1> QED  BY <1>4 DEF Same

LEMMA IntegerSame ==
    ASSUME NEW b \in Seq(Bytes), NEW x \in Bytes, NEW p \in Nat \ {0},
           CheckDecimal(b, p).status = "ok"
    PROVE  Same(ParseInteger(b, p), ParseInteger(Append(b, x), p))
<1>1. LineEnds(b, p) # {}
  BY CheckDecimalIs
<1>2. Decimal(Append(b, x), p) = Decimal(b, p)
  BY <1>1, ChecksStay
<1>3. CheckDecimal(Append(b, x), p) = CheckDecimal(b, p)
  BY ChecksStay DEF Stays
<1>4. ParseInteger(Append(b, x), p) = ParseInteger(b, p)
  BY <1>2, <1>3 DEF ParseInteger
<1> QED  BY <1>4 DEF Same

\* "-1" is as long as check counts; a line that ends later is another one.
LEMMA NullSame ==
    ASSUME NEW b \in Seq(Bytes), NEW x \in Bytes, NEW p \in Nat \ {0},
           Skip(b, p, 4).status = "ok"
    PROVE  Same(ParseNull(b, p), ParseNull(Append(b, x), p))
<1> DEFINE c == Append(b, x)
<1>0. c \in Seq(Bytes)
  BY AppendIs
<1>1. CASE LineEnds(b, p) # {}
  <2>1. Line(c, p) = Line(b, p)
    BY <1>1, LineStays
  <2>2. CheckLine(b, p).status = "ok"
    BY <1>1, StatusIs DEF CheckLine
  <2>3. CheckLine(c, p) = CheckLine(b, p)
    BY <2>2, ChecksStay DEF Stays
  <2>4. ParseNull(c, p) = ParseNull(b, p)
    BY <2>1, <2>3 DEF ParseNull
  <2> QED  BY <2>4 DEF Same
<1>2. CASE LineEnds(b, p) = {}
  <2>1. ParseNull(b, p) = Incomplete
    BY <1>2, StatusIs DEF ParseNull, CheckLine
  <2>2. ParseNull(c, p).status # "ok"
    <3>1. CASE LineEnds(c, p) = {}
      BY <3>1, StatusIs DEF ParseNull, CheckLine
    <3>2. CASE LineEnds(c, p) # {}
      <4>1. LineEnd(c, p) >= Len(b) /\ LineEnd(c, p) \in Nat
        <5>1. LineEnd(c, p) >= Len(b)
          BY <1>2, <3>2, LineStays
        <5>2. LineEnd(c, p) \in Nat
          <6> HIDE DEF c
          <6> QED  BY <1>0, <3>2, LineEndIs DEF LineEnds
        <5> QED  BY <5>1, <5>2
      <4>2. Len(b) >= p + 3
        <5>1. ~ ((Len(b) - p) + 1 < 4)
          BY StatusIs DEF Skip
        <5> QED  BY <5>1
      <4>3. Len(Line(c, p)) = LineEnd(c, p) - p
        <5> HIDE DEF c
        <5> QED  BY <1>0, <3>2, LineIs
      <4>4. Len(Line(c, p)) # 2
        <5> HIDE DEF c
        <5>1. Len(b) \in Nat
          OBVIOUS
        <5> QED  BY <4>1, <4>2, <4>3, <5>1
      <4>5. Line(c, p) # <<"-", "1">>
        <5>1. Len(<<"-", "1">>) = 2
          OBVIOUS
        <5> HIDE DEF c
        <5> QED  BY <4>4, <5>1
      <4>6. ParseNull(c, p) = Invalid
        <5>1. CheckLine(c, p).status = "ok"
          BY <3>2, StatusIs DEF CheckLine
        <5> QED  BY <4>5, <5>1 DEF ParseNull
      <4> QED  BY <4>6, StatusIs
    <3> QED  BY <3>1, <3>2
  <2> QED  BY <2>1, <2>2, StatusIs DEF Same
<1> QED  BY <1>1, <1>2

LEMMA BulkSame ==
    ASSUME NEW b \in Seq(Bytes), NEW x \in Bytes, NEW p \in Nat \ {0},
           CheckBulk(b, p).status = "ok"
    PROVE  Same(ParseBulk(b, p), ParseBulk(Append(b, x), p))
<1> DEFINE c == Append(b, x)
<1>1. Len(c) = Len(b) + 1 /\ \A i \in 1..Len(b) : c[i] = b[i]
  BY AppendIs
<1>2. p <= Len(b) /\ c[p] = b[p] /\ ~ (p > Len(b)) /\ ~ (p > Len(c))
  <2>1. ~ (p > Len(b))
    BY StatusIs DEF CheckBulk
  <2>2. p \in 1..Len(b)
    BY <2>1
  <2> HIDE DEF c
  <2> QED  BY <1>1, <2>1, <2>2
<1>3. CASE b[p] = "-"
  <2>1. ParseBulk(b, p) = ParseNull(b, p) /\ ParseBulk(c, p) = ParseNull(c, p)
    BY <1>2, <1>3 DEF ParseBulk
  <2>2. Skip(b, p, 4).status = "ok"
    BY <1>2, <1>3 DEF CheckBulk
  <2> QED  BY <2>1, <2>2, NullSame
<1>4. CASE b[p] # "-"
  <2> DEFINE length == CheckDecimal(b, p)
             n == Decimal(b, p) + 2
             bytes == Skip(b, length.next, n)
             last == bytes.next - 3
  <2>1. CheckBulk(b, p) = IF length.status # "ok" THEN length ELSE bytes
    BY <1>2, <1>4 DEF CheckBulk
  <2>2. length.status = "ok" /\ bytes.status = "ok"
    <3> HIDE DEF length, bytes
    <3> QED  BY <2>1
  <2>3. CheckDecimal(c, p) = length /\ Decimal(c, p) + 2 = n
    <3>1. LineEnds(b, p) # {}
      BY <2>2, CheckDecimalIs
    <3> QED  BY <2>2, <3>1, ChecksStay DEF Stays
  <2>4. length.next \in Nat \ {0} /\ n \in Nat
    <3>1. length \in Found(b, p + 2) /\ p + 2 \in Nat \ {0}
      BY CheckDecimalIs
    <3>2. length.next \in p + 2..Len(b) + 1
      <4> HIDE DEF length
      <4> QED  BY <2>2, <3>1, FoundIs
    <3>3. Decimal(b, p) \in Nat
      BY <2>2, CheckDecimalIs, DecimalIs
    <3>4. n \in Nat
      BY <3>3
    <3> HIDE DEF length, n
    <3> QED  BY <3>2, <3>4
  <2>5. bytes \in Found(b, length.next + n)
    <3> HIDE DEF length, n
    <3> QED  BY <2>4, SkipIs
  <2>6. last \in Int /\ last <= Len(b)
    <3>1. length.next + n \in Nat
      <4> HIDE DEF length, n
      <4> QED  BY <2>4
    <3>2. bytes.next \in length.next + n..Len(b) + 1
      <4> HIDE DEF length, n, bytes
      <4> QED  BY <2>2, <2>5, <3>1, FoundIs
    <3> HIDE DEF length, n, bytes
    <3> QED  BY <3>1, <3>2
  <2>7. Skip(c, length.next, n) = bytes
    <3> HIDE DEF c, length, n
    <3>1. Stays(Skip(b, length.next, n), Skip(c, length.next, n))
      BY <2>4, ChecksStay DEF c
    <3> QED  BY <2>2, <3>1 DEF Stays
  <2>8. SubSeq(c, length.next, last) = SubSeq(b, length.next, last)
    <3> HIDE DEF length, n, bytes, last
    <3> QED  BY <2>4, <2>6, SubSeqStays
  <2>9. ParseBulk(b, p) = Parsed(bytes.next, Bulk(SubSeq(b, length.next, last)))
    BY <1>2, <1>4, <2>2 DEF ParseBulk, ParseBytes
  <2>10. ParseBulk(c, p) = Parsed(bytes.next, Bulk(SubSeq(c, length.next, last)))
    <3> HIDE DEF c
    <3> QED  BY <1>2, <1>4, <2>2, <2>3, <2>7 DEF ParseBulk, ParseBytes
  <2> HIDE DEF length, n, bytes, last, c
  <2>11. ParseBulk(c, p) = ParseBulk(b, p)
    BY <2>8, <2>9, <2>10
  <2> QED  BY <2>11 DEF Same, c
<1> QED  BY <1>3, <1>4

LEMMA ParsedEntryStays ==
    ASSUME NEW b \in Seq(Bytes), NEW x \in Bytes, NEW p \in 1..Len(b) + 1,
           NEW check, NEW f, NEW g,
           \A q \in p + 1..Len(b) + 1, n \in Nat :
              check[q][n].status = "ok" => Same(f[q][n], g[q][n]),
           CheckEntry(b, p, check).status = "ok"
    PROVE  Same(ParseEntry(b, p, f), ParseEntry(Append(b, x), p, g))
<1> DEFINE c == Append(b, x)
           length == CheckDecimal(b, p + 1)
           n == Decimal(b, p + 1)
<1>0. p \in Nat \ {0} /\ p + 1 \in Nat \ {0} /\ (p + 1) + 2 = p + 3
  OBVIOUS
<1>1. Len(c) = Len(b) + 1 /\ \A i \in 1..Len(b) : c[i] = b[i]
  BY AppendIs
<1>2. CheckEntry(b, p, check) =
        IF p > Len(b) THEN Incomplete
        ELSE CASE b[p] \in {"+", "-"} -> CheckLine(b, p + 1)
               [] b[p] = ":" -> CheckDecimal(b, p + 1)
               [] b[p] = "$" -> CheckBulk(b, p + 1)
               [] b[p] = "*" -> IF length.status # "ok" THEN length ELSE check[length.next][n]
               [] OTHER -> Invalid
  BY DEF CheckEntry
<1>3. ~ (p > Len(b)) /\ ~ (p > Len(c)) /\ c[p] = b[p]
  <2>1. ~ (p > Len(b))
    BY <1>2, StatusIs
  <2>2. p \in 1..Len(b)
    BY <2>1
  <2> HIDE DEF c
  <2> QED  BY <1>1, <2>1, <2>2
<1> HIDE DEF c
<1>4. \A d, parse :
        ~ (p > Len(d)) =>
        ParseEntry(d, p, parse) =
          CASE d[p] = "+" -> ParseText(d, p + 1, "simple")
            [] d[p] = "-" -> ParseText(d, p + 1, "error")
            [] d[p] = ":" -> ParseInteger(d, p + 1)
            [] d[p] = "$" -> ParseBulk(d, p + 1)
            [] d[p] = "*" -> IF CheckDecimal(d, p + 1).status # "ok" THEN CheckDecimal(d, p + 1)
                             ELSE parse[CheckDecimal(d, p + 1).next][Decimal(d, p + 1)]
            [] OTHER -> [status |-> "panic", next |-> 0]
  BY DEF ParseEntry
<1>5. CASE b[p] = "+"
  <2>1. CheckLine(b, p + 1).status = "ok"
    BY <1>2, <1>3, <1>5
  <2>2. ParseEntry(b, p, f) = ParseText(b, p + 1, "simple")
    BY <1>3, <1>4, <1>5
  <2>3. ParseEntry(c, p, g) = ParseText(c, p + 1, "simple")
    BY <1>3, <1>4, <1>5
  <2> QED  BY <1>0, <2>1, <2>2, <2>3, TextSame DEF c
<1>6. CASE b[p] = "-"
  <2>1. CheckLine(b, p + 1).status = "ok"
    BY <1>2, <1>3, <1>6
  <2>2. ParseEntry(b, p, f) = ParseText(b, p + 1, "error")
    BY <1>3, <1>4, <1>6
  <2>3. ParseEntry(c, p, g) = ParseText(c, p + 1, "error")
    BY <1>3, <1>4, <1>6
  <2> QED  BY <1>0, <2>1, <2>2, <2>3, TextSame DEF c
<1>7. CASE b[p] = ":"
  <2>1. CheckDecimal(b, p + 1).status = "ok"
    BY <1>2, <1>3, <1>7
  <2>2. ParseEntry(b, p, f) = ParseInteger(b, p + 1)
    BY <1>3, <1>4, <1>7
  <2>3. ParseEntry(c, p, g) = ParseInteger(c, p + 1)
    BY <1>3, <1>4, <1>7
  <2> QED  BY <1>0, <2>1, <2>2, <2>3, IntegerSame DEF c
<1>8. CASE b[p] = "$"
  <2>1. CheckBulk(b, p + 1).status = "ok"
    BY <1>2, <1>3, <1>8
  <2>2. ParseEntry(b, p, f) = ParseBulk(b, p + 1)
    BY <1>3, <1>4, <1>8
  <2>3. ParseEntry(c, p, g) = ParseBulk(c, p + 1)
    BY <1>3, <1>4, <1>8
  <2> QED  BY <1>0, <2>1, <2>2, <2>3, BulkSame DEF c
<1>9. CASE b[p] = "*"
  <2>1. length.status = "ok" /\ check[length.next][n].status = "ok"
    <3>1. CheckEntry(b, p, check) = IF length.status # "ok" THEN length ELSE check[length.next][n]
      <4> HIDE DEF length, n
      <4> QED  BY <1>2, <1>3, <1>9
    <3> HIDE DEF length, n
    <3> QED  BY <3>1
  <2>2. length.next \in p + 1..Len(b) + 1 /\ n \in Nat
    <3>1. length \in Found(b, p + 3)
      BY <1>0, CheckDecimalIs
    <3>2. length.next \in p + 3..Len(b) + 1
      BY <1>0, <2>1, <3>1, FoundIs
    <3>3. n \in Nat
      BY <1>0, <2>1, CheckDecimalIs, DecimalIs
    <3> HIDE DEF length, n
    <3> QED  BY <3>2, <3>3
  <2>3. CheckDecimal(c, p + 1) = length /\ Decimal(c, p + 1) = n
    <3>1. LineEnds(b, p + 1) # {}
      BY <1>0, <2>1, CheckDecimalIs
    <3>2. Stays(length, CheckDecimal(c, p + 1)) /\ Decimal(c, p + 1) = n
      BY <1>0, <3>1, ChecksStay DEF c
    <3> HIDE DEF length, n
    <3> QED  BY <2>1, <3>2 DEF Stays
  <2>4. Same(f[length.next][n], g[length.next][n])
    <3> HIDE DEF length, n
    <3> QED  BY <2>1, <2>2
  <2>5. ParseEntry(b, p, f) = f[length.next][n]
    BY <1>3, <1>4, <1>9, <2>1
  <2>6. ParseEntry(c, p, g) = g[length.next][n]
    <3>1. CheckDecimal(c, p + 1).status = "ok"
      BY <2>1, <2>3
    <3>2. ParseEntry(c, p, g) = g[CheckDecimal(c, p + 1).next][Decimal(c, p + 1)]
      BY <1>3, <1>4, <1>9, <3>1
    <3> QED  BY <2>3, <3>2
  <2> HIDE DEF length, n
  <2> QED  BY <2>4, <2>5, <2>6 DEF c
<1>10. CASE b[p] \notin {"+", "-", ":", "$", "*"}
  <2>1. CheckEntry(b, p, check) = Invalid
    BY <1>2, <1>3, <1>10
  <2> QED  BY <2>1, StatusIs
<1> QED  BY <1>5, <1>6, <1>7, <1>8, <1>9, <1>10

LEMMA ParsedEntriesStay ==
    ASSUME NEW b \in Seq(Bytes), NEW x \in Bytes
    PROVE  \A p \in 1..Len(b) + 1, n \in Nat :
             CheckEntries(b)[p][n].status = "ok" =>
               Same(ParseEntries(b)[p][n], ParseEntries(Append(b, x))[p][n])
<1> DEFINE m == Len(b) + 1
           c == Append(b, x)
           check == CheckEntries(b)
           f == ParseEntries(b)
           g == ParseEntries(c)
           N == {p \in 1..m : \A n \in Nat : check[p][n].status = "ok" => Same(f[p][n], g[p][n])}
<1>0. c \in Seq(Bytes) /\ Len(c) = Len(b) + 1
  BY AppendIs
<1>1. ASSUME NEW p \in 1..m, (p + 1)..m \subseteq N
      PROVE  p \in N
  <2>1. \A q \in p + 1..Len(b) + 1, n \in Nat : check[q][n].status = "ok" => Same(f[q][n], g[q][n])
    BY <1>1
  <2>2. check[p] = Row(b, p, check) /\ f[p] = ParsedRow(b, p, f)
    BY CheckEntriesIs, ParseEntriesIs
  <2>3. g[p] = ParsedRow(c, p, g)
    <3>1. p \in 1..Len(c) + 1
      BY <1>0
    <3> HIDE DEF c
    <3> QED  BY <1>0, <3>1, ParseEntriesIs
  <2> DEFINE entry == CheckEntry(b, p, check)
             frame == ParseEntry(b, p, f)
             later == ParseEntry(c, p, g)
  <2>4. entry.status = "ok" => Same(frame, later)
    <3> HIDE DEF f, g, check
    <3> QED  BY <2>1, ParsedEntryStays
  <2>5. entry.status = "ok" => entry.next \in p + 1..Len(b) + 1
    <3>1. entry \in Found(b, p + 1)
      <4>1. \A q \in p + 1..Len(b) + 1 : check[q] \in [Nat -> Found(b, q)] /\ check[q] = check[q]
        BY CheckEntriesIs
      <4> HIDE DEF check
      <4> QED  BY <4>1, CheckEntryIs
    <3>2. p + 1 \in Nat
      OBVIOUS
    <3> HIDE DEF entry
    <3> QED  BY <3>1, <3>2, FoundIs
  <2>6. Agrees(entry, frame)
    <3>1. \A q \in p + 1..Len(b) + 1, n \in Nat : Agrees(check[q][n], f[q][n])
      BY EntriesAgree
    <3> HIDE DEF check, f
    <3> QED  BY <3>1, EntryAgrees
  <2> HIDE DEF f, g, c, check
  <2>7. \A n \in Nat : check[p][n] = IF n = 0 THEN Ok(p)
                                     ELSE IF entry.status # "ok" THEN entry ELSE check[entry.next][n - 1]
    BY <2>2 DEF Row
  <2>8. \A n \in Nat : f[p][n] = IF n = 0 THEN Parsed(p, Array(<<>>))
                                 ELSE IF frame.status # "ok" THEN frame
                                 ELSE Before(frame, f[frame.next][n - 1])
    BY <2>2 DEF ParsedRow
  <2>9. \A n \in Nat : g[p][n] = IF n = 0 THEN Parsed(p, Array(<<>>))
                                 ELSE IF later.status # "ok" THEN later
                                 ELSE Before(later, g[later.next][n - 1])
    BY <2>3 DEF ParsedRow
  <2> HIDE DEF entry, later, frame
  <2>10. ASSUME NEW n \in Nat, check[p][n].status = "ok"
         PROVE  Same(f[p][n], g[p][n])
    <3>1. CASE n = 0
      BY <2>8, <2>9, <3>1, StatusIs DEF Same
    <3>2. CASE n # 0
      <4>1. entry.status = "ok" /\ check[p][n] = check[entry.next][n - 1] /\ n - 1 \in Nat
        BY <2>7, <2>10, <3>2
      <4>2. Same(frame, later)
        BY <2>4, <4>1
      <4>3. CASE frame.status # "ok"
        <5>1. later.status # "ok"
          BY <4>2, <4>3 DEF Same
        <5> QED  BY <2>8, <2>9, <3>2, <4>3, <5>1 DEF Same
      <4>4. CASE frame.status = "ok"
        <5>1. later = frame /\ frame.next = entry.next
          BY <2>6, <4>1, <4>2, <4>4 DEF Same, Agrees
        <5> DEFINE before == f[frame.next][n - 1]
                   after == g[frame.next][n - 1]
        <5>2. Same(before, after)
          BY <2>1, <2>5, <2>10, <4>1, <5>1
        <5>3. f[p][n] = Before(frame, before)
          BY <2>8, <3>2, <4>4
        <5>4. g[p][n] = Before(frame, after)
          BY <2>9, <3>2, <4>4, <5>1
        <5> HIDE DEF before, after
        <5>5. Before(frame, before).status = before.status /\ Before(frame, after).status = after.status
          BY BeforeIs
        <5>6. before.status = "ok" => Before(frame, after) = Before(frame, before)
          BY <5>2 DEF Same
        <5> QED  BY <5>2, <5>3, <5>4, <5>5, <5>6 DEF Same
      <4> QED  BY <4>3, <4>4
    <3> QED  BY <3>1, <3>2
  <2> QED  BY <2>10
<1>2. N = 1..m
  <2> HIDE DEF f, g, check
  <2>1. N \in SUBSET (1..m) /\ m \in Nat
    OBVIOUS
  <2> HIDE DEF N, m
  <2> QED  BY <1>1, <2>1, DownInduct
<1> QED  BY <1>2

-----------------------------------------------------------------------------
(***************************************************************************)
(* A text at a place of a buffer.                                          *)
(***************************************************************************)

At(b, p, s) == p + Len(s) <= Len(b) + 1 /\ \A i \in 1..Len(s) : b[p + i - 1] = s[i]

LEMMA ConcatIs ==
    ASSUME NEW S, NEW s \in Seq(S), NEW t \in Seq(S)
    PROVE  /\ s \o t \in Seq(S)
           /\ Len(s \o t) = Len(s) + Len(t)
           /\ \A i \in 1..Len(s) : (s \o t)[i] = s[i]
           /\ \A i \in 1..Len(t) : (s \o t)[Len(s) + i] = t[i]
<1>1. /\ s \o t \in Seq(S)
      /\ Len(s \o t) = Len(s) + Len(t)
      /\ \A i \in 1..Len(s) + Len(t) : (s \o t)[i] = IF i <= Len(s) THEN s[i] ELSE t[i - Len(s)]
  BY ConcatProperties
<1>2. Len(s) \in Nat /\ Len(t) \in Nat
  OBVIOUS
<1> DEFINE u == s \o t
<1> HIDE DEF u
<1>3. \A i \in 1..Len(s) : u[i] = s[i]
  BY <1>1, <1>2 DEF u
<1>4. \A i \in 1..Len(t) : u[Len(s) + i] = t[i]
  <2> SUFFICES ASSUME NEW i \in 1..Len(t)
               PROVE  u[Len(s) + i] = t[i]
    OBVIOUS
  <2>1. Len(s) + i \in 1..Len(s) + Len(t) /\ ~ (Len(s) + i <= Len(s)) /\ (Len(s) + i) - Len(s) = i
    BY <1>2
  <2> QED  BY <1>1, <2>1 DEF u
<1> QED  BY <1>1, <1>3, <1>4 DEF u

LEMMA AtConcat ==
    ASSUME NEW b \in Seq(Bytes), NEW p \in Nat \ {0}, NEW s \in Seq(Bytes), NEW t \in Seq(Bytes),
           At(b, p, s \o t)
    PROVE  At(b, p, s) /\ At(b, p + Len(s), t)
<1> DEFINE u == s \o t
<1>1. /\ Len(u) = Len(s) + Len(t)
      /\ \A i \in 1..Len(s) : u[i] = s[i]
      /\ \A i \in 1..Len(t) : u[Len(s) + i] = t[i]
  BY ConcatIs
<1>2. Len(s) \in Nat /\ Len(t) \in Nat /\ Len(b) \in Nat
  OBVIOUS
<1>3. p + Len(u) <= Len(b) + 1 /\ \A i \in 1..Len(u) : b[p + i - 1] = u[i]
  BY DEF At
<1> HIDE DEF u
<1>4. At(b, p, s)
  <2>1. \A i \in 1..Len(s) : i \in 1..Len(u)
    BY <1>1, <1>2
  <2> QED  BY <1>1, <1>2, <1>3, <2>1 DEF At
<1>5. At(b, p + Len(s), t)
  <2>1. ASSUME NEW i \in 1..Len(t)
        PROVE  b[(p + Len(s)) + i - 1] = t[i]
    <3>1. Len(s) + i \in 1..Len(u) /\ (p + Len(s)) + i - 1 = p + (Len(s) + i) - 1
      BY <1>1, <1>2
    <3> QED  BY <1>1, <1>3, <3>1
  <2>2. (p + Len(s)) + Len(t) <= Len(b) + 1
    BY <1>1, <1>2, <1>3
  <2> QED  BY <2>1, <2>2 DEF At
<1> QED  BY <1>4, <1>5

LEMMA AtSubSeq ==
    ASSUME NEW b \in Seq(Bytes), NEW p \in Nat \ {0}, NEW s \in Seq(Bytes), At(b, p, s)
    PROVE  SubSeq(b, p, p + Len(s) - 1) = s
<1>1. Len(s) \in Nat /\ Len(b) \in Nat /\ p + Len(s) <= Len(b) + 1
  BY DEF At
<1> DEFINE n == p + Len(s) - 1
<1>2. n \in Int /\ \A i \in p..n : i \in 1..Len(b)
  BY <1>1
<1>3. \A i \in p..n : b[i] \in Bytes
  BY <1>2
<1>4. n - p + 1 = Len(s) /\ (p <= n <=> Len(s) # 0)
  BY <1>1
<1> HIDE DEF n
<1>5. /\ SubSeq(b, p, n) \in Seq(Bytes)
      /\ Len(SubSeq(b, p, n)) = IF p <= n THEN n - p + 1 ELSE 0
      /\ \A i \in 1 .. n - p + 1 : SubSeq(b, p, n)[i] = b[p + i - 1]
  BY <1>2, <1>3, SubSeqProperties
<1>6. Len(SubSeq(b, p, n)) = Len(s)
  BY <1>1, <1>4, <1>5
<1>7. \A i \in 1..Len(s) : SubSeq(b, p, n)[i] = s[i]
  BY <1>4, <1>5 DEF At
<1>8. SubSeq(b, p, n) = s
  BY <1>5, <1>6, <1>7, SeqEqual
<1> QED  BY <1>8 DEF n

LEMMA PairIs ==
    ASSUME NEW S, NEW x \in S, NEW y \in S
    PROVE  <<x, y>> \in Seq(S) /\ <<x>> \in Seq(S)
  OBVIOUS

LEMMA CRLFIs == CRLF \in Seq(Bytes) /\ Len(CRLF) = 2 /\ CRLF[1] = "cr" /\ CRLF[2] = "lf"
<1>1. CRLF \in Seq(Bytes)
  <2>1. "cr" \in Bytes /\ "lf" \in Bytes
    BY BytesAssumption
  <2> QED  BY <2>1, PairIs, Zenon DEF CRLF
<1> QED  BY <1>1 DEF CRLF

\* A text that has no line end in it, with one behind it.
LEMMA LineAt ==
    ASSUME NEW b \in Seq(Bytes), NEW p \in Nat \ {0}, NEW text \in Seq(Bytes),
           \A i \in 1..Len(text) - 1 : ~ (text[i] = "cr" /\ text[i + 1] = "lf"),
           At(b, p, text \o CRLF)
    PROVE  /\ LineEnds(b, p) # {}
           /\ Line(b, p) = text
           /\ CheckLine(b, p) = Ok(p + Len(text) + 2)
<1>1. At(b, p, text) /\ At(b, p + Len(text), CRLF)
  BY CRLFIs, AtConcat
<1> DEFINE n == Len(text)
<1>2. n \in Nat /\ Len(b) \in Nat /\ p + n + 1 <= Len(b)
  <2>1. p + Len(text) + 2 <= Len(b) + 1
    BY <1>1, CRLFIs DEF At
  <2> QED  BY <2>1
<1>3. b[p + n] = "cr" /\ b[p + n + 1] = "lf"
  <2>1. (p + n) + 1 - 1 = p + n /\ (p + n) + 2 - 1 = p + n + 1
    BY <1>2
  <2>2. \A i \in 1..2 : b[(p + n) + i - 1] = CRLF[i]
    BY <1>1, CRLFIs DEF At
  <2>3. 1 \in 1..2 /\ 2 \in 1..2
    OBVIOUS
  <2>4. b[(p + n) + 1 - 1] = "cr" /\ b[(p + n) + 2 - 1] = "lf"
    BY <2>2, <2>3, CRLFIs
  <2> QED  BY <2>1, <2>4
<1>4. \A i \in 1..n : b[p + i - 1] = text[i]
  BY <1>1 DEF At
<1> HIDE DEF n
<1>5. p + n \in LineEnds(b, p)
  BY <1>2, <1>3 DEF LineEnds
<1>6. ASSUME NEW e \in LineEnds(b, p)
      PROVE  p + n <= e
  <2>1. e \in Nat /\ p <= e /\ b[e] = "cr" /\ b[e + 1] = "lf"
    BY DEF LineEnds
  <2>2. CASE e + 1 = p + n
    BY <1>3, <2>1, <2>2
  <2>3. CASE e + 1 < p + n
    <3> DEFINE i == e - p + 1
    <3>1. i \in 1..n - 1 /\ i \in 1..n /\ i + 1 \in 1..n /\ p + i - 1 = e /\ p + (i + 1) - 1 = e + 1
      BY <1>2, <2>1, <2>3
    <3> HIDE DEF i
    <3>2. text[i] = "cr" /\ text[i + 1] = "lf"
      BY <1>4, <2>1, <3>1
    <3> QED  BY <3>1, <3>2 DEF n
  <2> QED  BY <1>2, <2>1, <2>2, <2>3
<1>7. LineEnd(b, p) = p + n
  <2>1. LineEnd(b, p) \in LineEnds(b, p) /\ LineEnd(b, p) <= p + n
    BY <1>5, LineEndIs
  <2>2. LineEnd(b, p) \in Nat
    BY <2>1 DEF LineEnds
  <2>3. p + n <= LineEnd(b, p)
    BY <1>6, <2>1
  <2> QED  BY <1>2, <2>1, <2>2, <2>3
<1>8. Line(b, p) = text
  BY <1>1, <1>7, AtSubSeq DEF Line, n
<1>9. CheckLine(b, p) = Ok(p + n + 2)
  BY <1>5, <1>7 DEF CheckLine
<1> QED  BY <1>5, <1>8, <1>9 DEF n

-----------------------------------------------------------------------------
(***************************************************************************)
(* Numbers are read as they are written.                                   *)
(***************************************************************************)

DigitBytes == Range(Digits)

LEMMA DigitsIs ==
    /\ \A d \in 0..9 : Digits[d + 1] \in DigitBytes /\ Digit(Digits[d + 1]) = d
    /\ DigitBytes \subseteq Bytes
    /\ "-" \notin DigitBytes /\ "cr" \notin DigitBytes
<1>1. \A d \in 0..9 : Digits[d + 1] \in DigitBytes
  <2>1. DOMAIN Digits = 1..10
    BY DEF Digits
  <2>2. \A d \in 0..9 : d + 1 \in DOMAIN Digits
    BY <2>1
  <2> QED  BY <2>2 DEF DigitBytes, Range
<1>2. \A d, e \in 0..9 : Digits[d + 1] = Digits[e + 1] => d = e
  BY DEF Digits
<1>3. \A d \in 0..9 : Digit(Digits[d + 1]) = d
  BY <1>2 DEF Digit
<1>4. \A c \in DigitBytes : c \in {"0", "1", "2", "3", "4", "5", "6", "7", "8", "9"}
  BY DEF DigitBytes, Range, Digits
<1>5. "-" \notin DigitBytes /\ "cr" \notin DigitBytes
  BY <1>4
<1>6. DigitBytes \subseteq Bytes
  BY BytesAssumption DEF DigitBytes
<1> QED  BY <1>1, <1>3, <1>5, <1>6

LEMMA AllDigits ==
    ASSUME NEW s \in Seq(DigitBytes)
    PROVE  s \in Seq(Bytes) /\ LeadingDigits(s) = Len(s)
<1>1. s \in Seq(Bytes)
  BY DigitsIs, SeqMonotonic
<1>2. \A i \in 1..Len(s) : s[i] \in DigitBytes
  BY ElementOfSeq
<1>3. Len(s) \in 0..Len(s)
  OBVIOUS
<1>4. LeadingDigits(s) \in 0..Len(s) /\ Len(s) <= LeadingDigits(s)
  BY <1>1, <1>2, <1>3, LeadingDigitsIs DEF DigitBytes
<1> QED  BY <1>1, <1>4

LEMMA AppendDigit ==
    ASSUME NEW s \in Seq(DigitBytes), NEW d \in 0..9
    PROVE  /\ Append(s, Digits[d + 1]) \in Seq(DigitBytes)
           /\ Append(s, Digits[d + 1]) # <<>>
           /\ DecimalValue(Append(s, Digits[d + 1])) = 10 * DecimalValue(s) + d
<1> DEFINE c == Digits[d + 1]
           t == Append(s, c)
           n == Len(s)
<1>1. c \in DigitBytes /\ Digit(c) = d
  BY DigitsIs
<1> HIDE DEF c
<1>2. /\ t \in Seq(DigitBytes) /\ t # <<>> /\ Len(t) = n + 1
      /\ \A i \in 1..n : t[i] = s[i]
      /\ t[n + 1] = c
  BY <1>1, AppendProperties
<1> HIDE DEF t
<1>3. n \in Nat /\ s \in Seq(Bytes) /\ t \in Seq(Bytes) /\ LeadingDigits(s) = n /\ LeadingDigits(t) = n + 1
  BY <1>2, AllDigits
<1>4. PICK v \in [0..n -> Nat] :
        DecimalValue(s) = v[n] /\ v[0] = 0 /\ \A k \in 1..n : v[k] = 10 * v[k - 1] + Digit(s[k])
  BY <1>3, DecimalValueIs
<1>5. PICK w \in [0..n + 1 -> Nat] :
        DecimalValue(t) = w[n + 1] /\ w[0] = 0
        /\ \A k \in 1..n + 1 : w[k] = 10 * w[k - 1] + Digit(t[k])
  BY <1>3, DecimalValueIs
<1> HIDE DEF n
<1> DEFINE N == {k \in Nat : k <= n => w[k] = v[k]}
<1>6. 0 \in N
  BY <1>4, <1>5
<1>7. ASSUME NEW k \in N
      PROVE  k + 1 \in N
  <2>1. CASE k + 1 <= n
    <3>1. k + 1 \in 1..n /\ k + 1 \in 1..n + 1 /\ (k + 1) - 1 = k /\ k <= n
      BY <1>3, <2>1
    <3>2. w[k] = v[k]
      BY <3>1
    <3>3. w[k + 1] = 10 * w[k] + Digit(t[k + 1])
      BY <1>5, <3>1
    <3>4. v[k + 1] = 10 * v[k] + Digit(s[k + 1])
      BY <1>4, <3>1
    <3>5. t[k + 1] = s[k + 1]
      BY <1>2, <3>1
    <3>6. w[k + 1] = v[k + 1]
      BY <3>2, <3>3, <3>4, <3>5
    <3> QED  BY <3>6
  <2> QED  BY <2>1
<1>8. N = Nat
  <2>1. N \in SUBSET Nat
    OBVIOUS
  <2> HIDE DEF N
  <2> QED  BY <1>6, <1>7, <2>1, NatInduct
<1>9. w[n] = v[n]
  <2>1. n \in N
    <3> HIDE DEF N
    <3> QED  BY <1>3, <1>8
  <2>2. n <= n
    BY <1>3
  <2> QED  BY <2>1, <2>2
<1>10. w[n + 1] = 10 * w[n] + d
  <2>1. n + 1 \in 1..n + 1 /\ (n + 1) - 1 = n
    BY <1>3
  <2> QED  BY <1>1, <1>2, <1>5, <2>1
<1>11. DecimalValue(t) = 10 * DecimalValue(s) + d
  BY <1>4, <1>5, <1>9, <1>10
<1> QED  BY <1>2, <1>11 DEF t, c

LEMMA OneDigit ==
    ASSUME NEW d \in 0..9
    PROVE  /\ <<Digits[d + 1]>> \in Seq(DigitBytes)
           /\ <<Digits[d + 1]>> # <<>>
           /\ DecimalValue(<<Digits[d + 1]>>) = d
<1> DEFINE c == Digits[d + 1]
<1>1. c \in DigitBytes
  BY DigitsIs
<1> HIDE DEF c
<1>2. <<>> \in Seq(DigitBytes) /\ Append(<<>>, c) = <<c>>
  BY <1>1
<1>3. DecimalValue(<<>>) = 0
  <2>1. <<>> \in Seq(DigitBytes) /\ <<>> \in Seq(Bytes) /\ LeadingDigits(<<>>) = 0
    <3>1. LeadingDigits(<<>>) = Len(<<>>) /\ <<>> \in Seq(Bytes)
      BY <1>2, AllDigits
    <3> QED  BY <1>2, <3>1
  <2> QED  BY <2>1, DecimalValueIs
<1>4. /\ Append(<<>>, c) \in Seq(DigitBytes)
      /\ Append(<<>>, c) # <<>>
      /\ DecimalValue(Append(<<>>, c)) = 10 * DecimalValue(<<>>) + d
  BY <1>2, AppendDigit DEF c
<1> QED  BY <1>2, <1>3, <1>4 DEF c

LEMMA DivMod ==
    ASSUME NEW k \in Nat
    PROVE  /\ k % 10 \in 0..9 /\ k \div 10 \in Nat
           /\ k = 10 * (k \div 10) + (k % 10)
           /\ k >= 10 => k \div 10 < k
  OBVIOUS

LEMMA NumeralIs ==
    ASSUME NEW n \in Nat
    PROVE  /\ Numeral(n) \in Seq(DigitBytes)
           /\ Numeral(n) # <<>>
           /\ DecimalValue(Numeral(n)) = n
<1> DEFINE D == 0..n
           V == [k \in D |-> Seq(DigitBytes)]
           rank == [k \in D |-> k]
           Step(f) == [k \in D |-> IF k < 10 THEN <<Digits[k + 1]>>
                                   ELSE Append(f[k \div 10], Digits[(k % 10) + 1])]
           G == [f \in Typed(D, V) |-> Step(f)]
<1>1. \A k \in D : k >= 10 => k \div 10 \in D /\ k \div 10 < k /\ k % 10 \in 0..9
  BY DivMod
<1>2. \A k \in D : k < 10 => k \in 0..9
  OBVIOUS
<1>3. ASSUME NEW f \in Typed(D, V)
      PROVE  Step(f) \in Typed(D, V)
  <2>1. DOMAIN Step(f) = D /\ Step(f) = [k \in D |-> Step(f)[k]]
    OBVIOUS
  <2>2. \A k \in D : f[k] \in Seq(DigitBytes)
    BY DEF Typed
  <2>3. ASSUME NEW k \in D
        PROVE  Step(f)[k] \in Seq(DigitBytes)
    <3>1. CASE k < 10
      <4>1. Step(f)[k] = <<Digits[k + 1]>>
        BY <3>1
      <4> HIDE DEF Step
      <4> QED  BY <1>2, <3>1, <4>1, OneDigit
    <3>2. CASE ~ (k < 10)
      <4>1. Step(f)[k] = Append(f[k \div 10], Digits[(k % 10) + 1])
        BY <3>2
      <4>2. k \div 10 \in D /\ k % 10 \in 0..9
        BY <1>1, <3>2
      <4>3. f[k \div 10] \in Seq(DigitBytes)
        BY <2>2, <4>2
      <4> HIDE DEF Step
      <4> QED  BY <4>1, <4>2, <4>3, AppendDigit
    <3> QED  BY <3>1, <3>2
  <2>4. \A k \in D : Step(f)[k] \in V[k]
    <3> HIDE DEF Step
    <3> QED  BY <2>3
  <2> HIDE DEF Step, D, V
  <2> QED  BY <2>1, <2>4, TypedIs
<1>4. Causal(D, V, n, rank, G)
  <2>1. \A k \in D : V[k] # {}
    <3>1. <<>> \in Seq(DigitBytes)
      OBVIOUS
    <3> QED  BY <3>1
  <2>2. rank \in [D -> 0..n]
    OBVIOUS
  <2>3. \A f \in Typed(D, V) : G[f] \in Typed(D, V)
    BY <1>3
  <2>4. ASSUME NEW f \in Typed(D, V), NEW g \in Typed(D, V), NEW k \in D,
               \A j \in D : rank[j] < rank[k] => f[j] = g[j]
        PROVE  G[f][k] = G[g][k]
    <3>1. k >= 10 => f[k \div 10] = g[k \div 10]
      BY <1>1, <2>4
    <3>2. Step(f)[k] = Step(g)[k]
      BY <3>1
    <3> QED  BY <3>2
  <2> HIDE DEF D, V, rank, G
  <2> QED  BY <2>1, <2>2, <2>3, <2>4 DEF Causal
<1>5. PICK f \in Typed(D, V) : f = Step(f)
  <2>1. \E f \in Typed(D, V) : G[f] = f
    <3> HIDE DEF D, V, rank, G
    <3> QED  BY <1>4, Recursion
  <2> QED  BY <2>1
<1> DEFINE Solves(g) ==
      g = [k \in 0..n |-> IF k < 10 THEN <<Digits[k + 1]>>
                          ELSE Append(g[k \div 10], Digits[(k % 10) + 1])]
           numeral == CHOOSE g : Solves(g)
<1>6. Solves(numeral)
  <2>1. Solves(f)
    BY <1>5
  <2> HIDE DEF Solves
  <2> QED  BY <2>1
<1>7. Numeral(n) = numeral[n]
  BY DEF Numeral
<1> HIDE DEF numeral
<1>8. \A k \in D : numeral[k] = IF k < 10 THEN <<Digits[k + 1]>>
                                ELSE Append(numeral[k \div 10], Digits[(k % 10) + 1])
  BY <1>6
<1> DEFINE Right(k) ==
             /\ numeral[k] \in Seq(DigitBytes)
             /\ numeral[k] # <<>>
             /\ DecimalValue(numeral[k]) = k
           N == {k \in Nat : \A j \in 0..k : j \in D => Right(j)}
<1>9. ASSUME NEW k \in D, \A j \in D : j < k => Right(j)
      PROVE  Right(k)
  <2>1. CASE k < 10
    <3>1. numeral[k] = <<Digits[k + 1]>>
      BY <1>8, <2>1
    <3> QED  BY <1>2, <2>1, <3>1, OneDigit
  <2>2. CASE ~ (k < 10)
    <3>1. numeral[k] = Append(numeral[k \div 10], Digits[(k % 10) + 1])
      BY <1>8, <2>2
    <3>2. k \div 10 \in D /\ k \div 10 < k /\ k % 10 \in 0..9
      BY <1>1, <2>2
    <3>3. Right(k \div 10)
      BY <1>9, <3>2
    <3>4. /\ numeral[k] \in Seq(DigitBytes)
          /\ numeral[k] # <<>>
          /\ DecimalValue(numeral[k]) = 10 * DecimalValue(numeral[k \div 10]) + (k % 10)
      BY <3>1, <3>2, <3>3, AppendDigit
    <3>5. k = 10 * (k \div 10) + (k % 10)
      BY DivMod
    <3> QED  BY <3>3, <3>4, <3>5
  <2> QED  BY <2>1, <2>2
<1> HIDE DEF Right
<1>10. 0 \in N
  <2>1. \A j \in 0..0 : j = 0
    OBVIOUS
  <2>2. 0 \in D /\ \A j \in D : ~ (j < 0)
    OBVIOUS
  <2> HIDE DEF D
  <2> QED  BY <1>9, <2>1, <2>2
<1>11. ASSUME NEW k \in N
       PROVE  k + 1 \in N
  <2>1. \A j \in 0..k + 1 : j \in 0..k \/ j = k + 1
    OBVIOUS
  <2>2. k + 1 \in D => \A j \in D : j < k + 1 => j \in 0..k
    OBVIOUS
  <2> HIDE DEF D
  <2> QED  BY <1>9, <2>1, <2>2
<1>12. N = Nat
  <2>1. N \in SUBSET Nat
    OBVIOUS
  <2> HIDE DEF N
  <2> QED  BY <1>10, <1>11, <2>1, NatInduct
<1>13. Right(n)
  BY <1>12
<1> QED  BY <1>7, <1>13 DEF Right

-----------------------------------------------------------------------------
(***************************************************************************)
(* A sequence of sequences, one behind the other.                          *)
(***************************************************************************)

\* The first elements of a sequence of sequences, flattened.
Flattens(ss, S, F) ==
    /\ F \in [0..Len(ss) -> Seq(S)]
    /\ F[0] = <<>>
    /\ \A i \in 1..Len(ss) : F[i] = F[i - 1] \o ss[i]
    /\ FlattenSeq(ss) = F[Len(ss)]

LEMMA FlattenIs ==
    ASSUME NEW S, NEW ss \in Seq(Seq(S))
    PROVE  \E F : Flattens(ss, S, F)
<1> DEFINE n == Len(ss)
<1>0. n \in Nat /\ \A i \in 1..n : ss[i] \in Seq(S)
  BY ElementOfSeq
<1>00. <<>> \in Seq(S)
  OBVIOUS
<1>1. CASE n = 0
  <2>1. FlattenSeq(ss) = <<>>
    <3>1. ss = <<>>
      BY <1>1, EmptySeq
    <3> QED  BY <1>1, <3>1 DEF FlattenSeq
  <2> DEFINE F == [i \in 0..n |-> <<>>]
  <2>2. F \in [0..n -> Seq(S)] /\ F[0] = <<>> /\ F[n] = <<>> /\ 1..n = {}
    BY <1>00, <1>1
  <2> HIDE DEF F
  <2>3. Flattens(ss, S, F)
    BY <1>1, <2>1, <2>2 DEF Flattens
  <2> QED  BY <2>3
<1>2. CASE n # 0
  <2> DEFINE D == 1..n
             V == [i \in D |-> Seq(S)]
             rank == [i \in D |-> i]
             Step(f) == [i \in D |-> IF i = 1 THEN ss[i] ELSE f[i - 1] \o ss[i]]
             G == [f \in Typed(D, V) |-> Step(f)]
  <2>1. \A i \in D : i # 1 => i - 1 \in D /\ i - 1 < i
    BY <1>0
  <2>2. ASSUME NEW f \in Typed(D, V)
        PROVE  Step(f) \in Typed(D, V)
    <3>1. DOMAIN Step(f) = D /\ Step(f) = [i \in D |-> Step(f)[i]]
      OBVIOUS
    <3>2. \A i \in D : f[i] \in Seq(S)
      BY DEF Typed
    <3>3. ASSUME NEW i \in D
          PROVE  Step(f)[i] \in Seq(S)
      <4>1. CASE i = 1
        BY <1>0, <4>1
      <4>2. CASE i # 1
        <5>1. f[i - 1] \in Seq(S) /\ ss[i] \in Seq(S)
          BY <1>0, <2>1, <3>2, <4>2
        <5>2. Step(f)[i] = f[i - 1] \o ss[i]
          BY <4>2
        <5> HIDE DEF Step
        <5> QED  BY <5>1, <5>2, ConcatIs
      <4> QED  BY <4>1, <4>2
    <3>4. \A i \in D : Step(f)[i] \in V[i]
      <4> HIDE DEF Step
      <4> QED  BY <3>3
    <3> HIDE DEF Step, D, V
    <3> QED  BY <3>1, <3>4, TypedIs
  <2>3. Causal(D, V, n, rank, G)
    <3>1. \A i \in D : V[i] # {}
      BY <1>00
    <3>2. rank \in [D -> 0..n]
      BY <1>0
    <3>3. \A f \in Typed(D, V) : G[f] \in Typed(D, V)
      BY <2>2
    <3>4. ASSUME NEW f \in Typed(D, V), NEW g \in Typed(D, V), NEW i \in D,
                 \A j \in D : rank[j] < rank[i] => f[j] = g[j]
          PROVE  G[f][i] = G[g][i]
      <4>1. i # 1 => f[i - 1] = g[i - 1]
        BY <2>1, <3>4
      <4> QED  BY <4>1
    <3> HIDE DEF D, V, rank, G, n
    <3> QED  BY <1>0, <3>1, <3>2, <3>3, <3>4 DEF Causal
  <2>4. PICK f \in Typed(D, V) : f = Step(f)
    <3>1. \E f \in Typed(D, V) : G[f] = f
      <4> HIDE DEF D, V, rank, G, n
      <4> QED  BY <2>3, Recursion
    <3> QED  BY <3>1
  <2> DEFINE Solves(g) ==
        g = [i \in 1..Len(ss) |-> IF i = 1 THEN ss[i] ELSE g[i - 1] \o ss[i]]
             flatten == CHOOSE g : Solves(g)
  <2>5. Solves(flatten)
    <3>1. Solves(f)
      BY <2>4
    <3> HIDE DEF Solves
    <3> QED  BY <3>1
  <2>6. FlattenSeq(ss) = flatten[n]
    BY <1>2 DEF FlattenSeq
  <2> HIDE DEF flatten
  <2>7. \A i \in D : flatten[i] = IF i = 1 THEN ss[i] ELSE flatten[i - 1] \o ss[i]
    BY <2>5
  <2> DEFINE F == [i \in 0..n |-> IF i = 0 THEN <<>> ELSE flatten[i]]
  <2>8. F[0] = <<>> /\ \A i \in D : F[i] = flatten[i]
    BY <1>0
  <2>9. \A i \in D : F[i] = F[i - 1] \o ss[i]
    <3> SUFFICES ASSUME NEW i \in D
                 PROVE  F[i] = F[i - 1] \o ss[i]
      OBVIOUS
    <3>1. CASE i = 1
      <4>1. F[i] = ss[i] /\ F[i - 1] = <<>>
        <5>1. i - 1 = 0
          BY <3>1
        <5> HIDE DEF F
        <5> QED  BY <2>7, <2>8, <3>1, <5>1
      <4>2. ss[i] \in Seq(S)
        BY <1>0
      <4> HIDE DEF F
      <4> QED  BY <4>1, <4>2, ConcatEmptySeq
    <3>2. CASE i # 1
      BY <2>1, <2>7, <2>8, <3>2
    <3> QED  BY <3>1, <3>2
  <2> DEFINE N == {k \in Nat : k <= n => F[k] \in Seq(S)}
  <2>10. 0 \in N
    BY <1>00
  <2>11. ASSUME NEW k \in N
         PROVE  k + 1 \in N
    <3>1. CASE k + 1 <= n
      <4>1. k + 1 \in D /\ (k + 1) - 1 = k /\ k <= n
        BY <1>0, <3>1
      <4>2. F[k] \in Seq(S) /\ ss[k + 1] \in Seq(S)
        BY <1>0, <4>1
      <4>3. F[k + 1] = F[k] \o ss[k + 1]
        <5> HIDE DEF F, D
        <5> QED  BY <2>9, <4>1
      <4>4. F[k + 1] \in Seq(S)
        <5> HIDE DEF F, D
        <5> QED  BY <4>2, <4>3, ConcatIs
      <4> QED  BY <4>4
    <3> QED  BY <3>1
  <2>12. N = Nat
    <3>1. N \in SUBSET Nat
      OBVIOUS
    <3> HIDE DEF N
    <3> QED  BY <2>10, <2>11, <3>1, NatInduct
  <2>13. F \in [0..n -> Seq(S)]
    <3>1. \A k \in 0..n : F[k] \in Seq(S)
      <4>1. \A k \in 0..n : k \in N /\ k <= n
        <5> HIDE DEF N, n
        <5> QED  BY <2>12, <1>0
      <4> QED  BY <4>1
    <3>2. F = [k \in 0..n |-> F[k]]
      OBVIOUS
    <3> HIDE DEF F
    <3> QED  BY <3>1, <3>2
  <2>14. n \in D
    BY <1>0, <1>2
  <2>15. Flattens(ss, S, F)
    <3> HIDE DEF F
    <3> QED  BY <2>6, <2>8, <2>9, <2>13, <2>14 DEF Flattens
  <2> QED  BY <2>15
<1> QED  BY <1>1, <1>2

\* Sequences that begin alike, flattened so far.
Alike(ss, tt, n) ==
    /\ n \in Nat /\ Len(ss) \in Nat /\ Len(tt) \in Nat
    /\ n <= Len(ss) /\ n <= Len(tt)
    /\ \A i \in 1..n : ss[i] = tt[i]

LEMMA FlattensAlike ==
    ASSUME NEW S, NEW ss, NEW tt, NEW F, NEW G, NEW n,
           Flattens(ss, S, F), Flattens(tt, S, G), Alike(ss, tt, n)
    PROVE  \A k \in 0..n : F[k] = G[k]
<1> USE DEF Alike
<1> DEFINE N == {k \in Nat : k <= n => F[k] = G[k]}
<1>1. 0 \in N
  BY DEF Flattens
<1>2. ASSUME NEW k \in N
      PROVE  k + 1 \in N
  <2>1. CASE k + 1 <= n
    <3>1. /\ k + 1 \in 1..n /\ k + 1 \in 1..Len(ss) /\ k + 1 \in 1..Len(tt)
          /\ (k + 1) - 1 = k /\ k <= n
      BY <2>1
    <3>2. F[k] = G[k] /\ ss[k + 1] = tt[k + 1]
      BY <3>1
    <3>3. F[k + 1] = F[k] \o ss[k + 1]
      BY <3>1 DEF Flattens
    <3>4. G[k + 1] = G[k] \o tt[k + 1]
      BY <3>1 DEF Flattens
    <3>5. F[k + 1] = G[k + 1]
      BY <3>2, <3>3, <3>4
    <3> QED  BY <3>5
  <2> QED  BY <2>1
<1>3. N = Nat
  <2>1. N \in SUBSET Nat
    OBVIOUS
  <2> HIDE DEF N
  <2> QED  BY <1>1, <1>2, <2>1, NatInduct
<1>4. \A k \in 0..n : k \in N /\ k <= n
  <2> HIDE DEF N
  <2> QED  BY <1>3
<1> QED  BY <1>4

LEMMA FlattenType ==
    ASSUME NEW S, NEW ss \in Seq(Seq(S))
    PROVE  FlattenSeq(ss) \in Seq(S)
<1>1. PICK F : Flattens(ss, S, F)
  BY FlattenIs
<1>2. Len(ss) \in 0..Len(ss)
  BY LenProperties
<1> QED  BY <1>1, <1>2 DEF Flattens

LEMMA FlattenEmpty == FlattenSeq(<<>>) = <<>>
<1>1. Len(<<>>) = 0
  OBVIOUS
<1> QED  BY <1>1 DEF FlattenSeq

LEMMA FlattenAppend ==
    ASSUME NEW S, NEW ss \in Seq(Seq(S)), NEW s \in Seq(S)
    PROVE  FlattenSeq(Append(ss, s)) = FlattenSeq(ss) \o s
<1> DEFINE tt == Append(ss, s)
           n == Len(ss)
<1>1. /\ tt \in Seq(Seq(S)) /\ Len(tt) = n + 1
      /\ \A i \in 1..n : tt[i] = ss[i]
      /\ tt[n + 1] = s
  BY AppendProperties
<1>2. n \in Nat
  BY LenProperties
<1> HIDE DEF tt
<1>3. PICK F : Flattens(ss, S, F)
  BY FlattenIs
<1>4. PICK G : Flattens(tt, S, G)
  BY <1>1, FlattenIs
<1>5. F[n] = G[n]
  <2>1. n <= Len(ss) /\ n <= Len(tt) /\ Len(ss) \in Nat /\ Len(tt) \in Nat /\ n \in 0..n
    BY <1>1, <1>2
  <2>2. \A i \in 1..n : ss[i] = tt[i]
    BY <1>1
  <2> HIDE DEF n
  <2>3. \A k \in 0..n : F[k] = G[k]
    <3>1. Alike(ss, tt, n)
      BY <1>2, <2>1, <2>2 DEF Alike
    <3> QED  BY <1>3, <1>4, <3>1, FlattensAlike
  <2> QED  BY <2>1, <2>3
<1>6. G[n + 1] = G[n] \o s
  <2>1. n + 1 \in 1..Len(tt) /\ (n + 1) - 1 = n
    BY <1>1, <1>2
  <2>2. G[n + 1] = G[(n + 1) - 1] \o tt[n + 1]
    BY <1>4, <2>1 DEF Flattens
  <2> QED  BY <1>1, <2>1, <2>2
<1>7. FlattenSeq(ss) = F[n] /\ FlattenSeq(tt) = G[n + 1]
  BY <1>1, <1>3, <1>4 DEF Flattens
<1> QED  BY <1>5, <1>6, <1>7 DEF tt

-----------------------------------------------------------------------------
(***************************************************************************)
(* What write_frame has written is found and read where it stands.         *)
(***************************************************************************)

LEMMA ByteAt ==
    ASSUME NEW b \in Seq(Bytes), NEW p \in Nat \ {0}, NEW c \in Bytes, NEW s \in Seq(Bytes),
           At(b, p, <<c>> \o s)
    PROVE  p <= Len(b) /\ b[p] = c /\ At(b, p + 1, s)
<1> DEFINE u == <<c>>
<1>1. u \in Seq(Bytes) /\ Len(u) = 1 /\ u[1] = c
  OBVIOUS
<1> HIDE DEF u
<1>2. At(b, p, u \o s)
  BY DEF u
<1>3. At(b, p, u) /\ At(b, p + 1, s)
  <2>1. At(b, p, u) /\ At(b, p + Len(u), s)
    BY <1>1, <1>2, AtConcat
  <2> QED  BY <1>1, <2>1
<1>4. p + 1 <= Len(b) + 1 /\ b[p + 1 - 1] = u[1]
  <2>1. 1 \in 1..1
    OBVIOUS
  <2> QED  BY <1>1, <1>3, <2>1 DEF At
<1>5. p + 1 - 1 = p /\ Len(b) \in Nat
  OBVIOUS
<1> QED  BY <1>1, <1>3, <1>4, <1>5

LEMMA OneByte ==
    ASSUME NEW c \in Bytes, NEW s \in Seq(Bytes)
    PROVE  <<c>> \o s \in Seq(Bytes) /\ Len(<<c>> \o s) = 1 + Len(s)
<1> DEFINE u == <<c>>
<1>1. u \in Seq(Bytes) /\ Len(u) = 1
  OBVIOUS
<1> HIDE DEF u
<1>2. u \o s \in Seq(Bytes) /\ Len(u \o s) = 1 + Len(s)
  BY <1>1, ConcatIs
<1> QED  BY <1>2 DEF u

LEMMA TwoParts ==
    ASSUME NEW c \in Bytes, NEW s \in Seq(Bytes), NEW t \in Seq(Bytes)
    PROVE  /\ <<c>> \o s \o t = <<c>> \o (s \o t)
           /\ <<c>> \o s \o t \in Seq(Bytes)
           /\ Len(<<c>> \o s \o t) = 1 + Len(s) + Len(t)
<1> DEFINE u == <<c>>
<1>1. u \in Seq(Bytes)
  OBVIOUS
<1>2. s \o t \in Seq(Bytes) /\ Len(s \o t) = Len(s) + Len(t) /\ Len(s) \in Nat /\ Len(t) \in Nat
  BY ConcatIs
<1>3. u \o (s \o t) \in Seq(Bytes) /\ Len(u \o (s \o t)) = 1 + Len(s \o t)
  <2> DEFINE st == s \o t
  <2> HIDE DEF st
  <2>1. <<c>> \o st \in Seq(Bytes) /\ Len(<<c>> \o st) = 1 + Len(st)
    BY <1>2, OneByte DEF st
  <2> QED  BY <2>1 DEF st
<1> HIDE DEF u
<1>4. (u \o s) \o t = u \o (s \o t)
  BY <1>1, ConcatAssociative
<1>5. Len((u \o s) \o t) = 1 + Len(s) + Len(t)
  BY <1>2, <1>3, <1>4
<1> QED  BY <1>3, <1>4, <1>5 DEF u

LEMMA LineAndEnd ==
    ASSUME NEW s \in Seq(Bytes)
    PROVE  s \o CRLF \in Seq(Bytes) /\ Len(s \o CRLF) = Len(s) + 2
<1>1. CRLF \in Seq(Bytes)
  BY CRLFIs
<1>2. s \o CRLF \in Seq(Bytes) /\ Len(s \o CRLF) = Len(s) + Len(CRLF)
  BY <1>1, ConcatIs
<1> QED  BY <1>2, CRLFIs

LEMMA EncodeDecimalIs ==
    ASSUME NEW n \in Nat
    PROVE  /\ EncodeDecimal(n) \in Seq(Bytes)
           /\ Len(EncodeDecimal(n)) = Len(Numeral(n)) + 2
           /\ Numeral(n) \in Seq(DigitBytes) /\ Numeral(n) \in Seq(Bytes)
           /\ Len(Numeral(n)) \in Nat \ {0}
<1> DEFINE s == Numeral(n)
<1>1. s \in Seq(DigitBytes) /\ s # <<>>
  BY NumeralIs
<1> HIDE DEF s
<1>2. s \in Seq(Bytes)
  BY <1>1, AllDigits
<1>3. s \o CRLF \in Seq(Bytes) /\ Len(s \o CRLF) = Len(s) + 2
  BY <1>2, LineAndEnd
<1>4. Len(s) \in Nat \ {0}
  BY <1>2, <1>1, EmptySeq
<1> QED  BY <1>1, <1>2, <1>3, <1>4 DEF s, EncodeDecimal

LEMMA DecimalAt ==
    ASSUME NEW b \in Seq(Bytes), NEW p \in Nat \ {0}, NEW n \in Nat, At(b, p, EncodeDecimal(n))
    PROVE  /\ CheckDecimal(b, p) = Ok(p + Len(EncodeDecimal(n)))
           /\ Decimal(b, p) = n
           /\ p <= Len(b) /\ b[p] # "-"
<1> DEFINE s == Numeral(n)
<1>1. /\ s \in Seq(DigitBytes) /\ s \in Seq(Bytes) /\ Len(s) \in Nat \ {0}
      /\ Len(EncodeDecimal(n)) = Len(s) + 2
  BY EncodeDecimalIs
<1>2. DecimalValue(s) = n
  BY NumeralIs
<1>3. At(b, p, s \o CRLF)
  BY DEF EncodeDecimal
<1> HIDE DEF s
<1>4. \A i \in 1..Len(s) : s[i] \in DigitBytes
  BY <1>1, ElementOfSeq
<1>5. \A i \in 1..Len(s) - 1 : ~ (s[i] = "cr" /\ s[i + 1] = "lf")
  <2>1. \A i \in 1..Len(s) - 1 : i \in 1..Len(s)
    BY <1>1
  <2> QED  BY <1>4, <2>1, DigitsIs
<1>6. LineEnds(b, p) # {} /\ Line(b, p) = s /\ CheckLine(b, p) = Ok(p + Len(s) + 2)
  BY <1>1, <1>3, <1>5, LineAt
<1>7. LeadingDigits(s) # 0
  BY <1>1, AllDigits
<1>8. CheckDecimal(b, p) = Ok(p + Len(s) + 2)
  BY <1>6, <1>7 DEF CheckDecimal
<1>9. Decimal(b, p) = n
  BY <1>2, <1>6 DEF Decimal
<1>10. p <= Len(b) /\ b[p] = s[1]
  <2>1. At(b, p, s)
    BY <1>1, <1>3, CRLFIs, AtConcat
  <2>2. p + Len(s) <= Len(b) + 1 /\ 1 \in 1..Len(s) /\ Len(b) \in Nat /\ p + 1 - 1 = p
    BY <1>1, <2>1 DEF At
  <2>3. b[p + 1 - 1] = s[1]
    BY <2>1, <2>2 DEF At
  <2> QED  BY <1>1, <2>2, <2>3
<1>11. b[p] # "-"
  <2>1. 1 \in 1..Len(s)
    BY <1>1
  <2> QED  BY <1>4, <1>10, <2>1, DigitsIs
<1>12. p + Len(s) + 2 = p + Len(EncodeDecimal(n))
  BY <1>1
<1> QED  BY <1>8, <1>9, <1>10, <1>11, <1>12

LEMMA BytesAre ==
    /\ "+" \in Bytes /\ "-" \in Bytes /\ ":" \in Bytes /\ "$" \in Bytes /\ "*" \in Bytes
    /\ "1" \in Bytes
<1>1. "1" \in Range(Digits)
  <2>1. Digits[2] = "1" /\ 2 \in DOMAIN Digits
    BY DEF Digits
  <2> QED  BY <2>1 DEF Range
<1> QED  BY <1>1, BytesAssumption

\* A frame that stands at p and ends before q, whatever arrays there are.
Stands(b, p, q, frame) ==
    /\ \A check : CheckEntry(b, p, check) = Ok(q)
    /\ \A parse : ParseEntry(b, p, parse) = Parsed(q, frame)

LEMMA TextAt ==
    ASSUME NEW b \in Seq(Bytes), NEW p \in Nat \ {0}, NEW text \in Seq(Bytes), IsLine(text),
           NEW c \in Bytes, NEW kind,
           (c = "+" /\ kind = "simple") \/ (c = "-" /\ kind = "error"),
           At(b, p, <<c>> \o text \o CRLF)
    PROVE  Stands(b, p, p + Len(<<c>> \o text \o CRLF), [kind |-> kind, value |-> text])
<1> DEFINE e == <<c>> \o text \o CRLF
<1>1. e = <<c>> \o (text \o CRLF) /\ Len(e) = 1 + Len(text) + 2 /\ text \o CRLF \in Seq(Bytes)
  <2>1. CRLF \in Seq(Bytes) /\ Len(CRLF) = 2
    BY CRLFIs
  <2>2. e = <<c>> \o (text \o CRLF) /\ Len(e) = 1 + Len(text) + Len(CRLF)
    BY <2>1, TwoParts
  <2>3. text \o CRLF \in Seq(Bytes)
    BY LineAndEnd
  <2> HIDE DEF e
  <2> QED  BY <2>1, <2>2, <2>3
<1>2. p <= Len(b) /\ b[p] = c /\ At(b, p + 1, text \o CRLF)
  BY <1>1, ByteAt
<1> HIDE DEF e
<1>3. \A i \in 1..Len(text) - 1 : ~ (text[i] = "cr" /\ text[i + 1] = "lf")
  BY DEF IsLine
<1>4. /\ Line(b, p + 1) = text
      /\ CheckLine(b, p + 1) = Ok(p + 1 + Len(text) + 2)
  BY <1>2, <1>3, LineAt
<1>5. p + 1 + Len(text) + 2 = p + Len(e)
  <2>1. Len(text) \in Nat
    OBVIOUS
  <2>2. Len(e) = 1 + Len(text) + 2
    BY <1>1
  <2> QED  BY <2>1, <2>2
<1>6. ~ (p > Len(b))
  BY <1>2
<1>7. \A check : CheckEntry(b, p, check) = Ok(p + Len(e))
  BY <1>2, <1>4, <1>5, <1>6 DEF CheckEntry
<1>8. ParseText(b, p + 1, kind) = Parsed(p + Len(e), [kind |-> kind, value |-> text])
  <2>1. "ff" \notin Range(text)
    BY DEF IsLine
  <2> QED  BY <1>4, <1>5, <2>1, StatusIs DEF ParseText
<1>9. \A parse : ParseEntry(b, p, parse) = ParseText(b, p + 1, kind)
  BY <1>2, <1>6 DEF ParseEntry
<1> QED  BY <1>7, <1>8, <1>9 DEF Stands, e

LEMMA IntegerAt ==
    ASSUME NEW b \in Seq(Bytes), NEW p \in Nat \ {0}, NEW n \in Nat,
           At(b, p, <<":">> \o EncodeDecimal(n))
    PROVE  Stands(b, p, p + Len(<<":">> \o EncodeDecimal(n)), Integer(n))
<1> DEFINE s == EncodeDecimal(n)
           e == <<":">> \o s
<1>1. s \in Seq(Bytes)
  BY EncodeDecimalIs
<1>2. e \in Seq(Bytes) /\ Len(e) = 1 + Len(s)
  BY <1>1, BytesAre, OneByte
<1>3. p <= Len(b) /\ b[p] = ":" /\ At(b, p + 1, s)
  BY <1>1, BytesAre, ByteAt
<1> HIDE DEF s, e
<1>4. CheckDecimal(b, p + 1) = Ok(p + 1 + Len(s)) /\ Decimal(b, p + 1) = n
  BY <1>3, DecimalAt DEF s
<1>5. p + 1 + Len(s) = p + Len(e) /\ ~ (p > Len(b))
  <2>1. Len(s) \in Nat /\ Len(b) \in Nat
    BY <1>1
  <2> QED  BY <1>2, <1>3, <2>1
<1>6. \A check : CheckEntry(b, p, check) = Ok(p + Len(e))
  BY <1>3, <1>4, <1>5 DEF CheckEntry
<1>7. ParseInteger(b, p + 1) = Parsed(p + Len(e), Integer(n))
  BY <1>4, <1>5, StatusIs DEF ParseInteger
<1>8. \A parse : ParseEntry(b, p, parse) = ParseInteger(b, p + 1)
  BY <1>3, <1>5 DEF ParseEntry
<1> QED  BY <1>6, <1>7, <1>8 DEF Stands, e, s

LEMMA NullAt ==
    ASSUME NEW b \in Seq(Bytes), NEW p \in Nat \ {0}, At(b, p, <<"$", "-", "1">> \o CRLF)
    PROVE  /\ <<"$", "-", "1">> \o CRLF \in Seq(Bytes)
           /\ Stands(b, p, p + Len(<<"$", "-", "1">> \o CRLF), Null)
<1> DEFINE s == <<"-", "1">>
           e == <<"$", "-", "1">> \o CRLF
<1>1. s \in Seq(Bytes) /\ Len(s) = 2 /\ s[1] = "-" /\ s[2] = "1"
  <2>1. \A x, y \in Bytes : <<x, y>> \in Seq(Bytes)
    OBVIOUS
  <2>2. s \in Seq(Bytes)
    BY <2>1, BytesAre
  <2> QED  BY <2>2
<1>2. e = <<"$">> \o s \o CRLF
  <2>1. <<"$", "-", "1">> = <<"$">> \o s
    OBVIOUS
  <2> QED  BY <2>1
<1> HIDE DEF s
<1>3. /\ <<"$">> \o s \o CRLF \in Seq(Bytes)
      /\ <<"$">> \o s \o CRLF = <<"$">> \o (s \o CRLF)
      /\ Len(<<"$">> \o s \o CRLF) = 5
  <2>1. CRLF \in Seq(Bytes) /\ Len(CRLF) = 2 /\ "$" \in Bytes
    BY CRLFIs, BytesAre
  <2>2. /\ <<"$">> \o s \o CRLF \in Seq(Bytes)
        /\ <<"$">> \o s \o CRLF = <<"$">> \o (s \o CRLF)
        /\ Len(<<"$">> \o s \o CRLF) = 1 + Len(s) + Len(CRLF)
    BY <1>1, <2>1, TwoParts
  <2>3. 1 + Len(s) + Len(CRLF) = 5
    BY <1>1, <2>1
  <2> QED  BY <2>2, <2>3
<1> HIDE DEF e
<1>4. e \in Seq(Bytes) /\ Len(e) = 5 /\ At(b, p, <<"$">> \o (s \o CRLF))
  BY <1>2, <1>3 DEF e
<1>5. s \o CRLF \in Seq(Bytes) /\ Len(s \o CRLF) = 4
  BY <1>1, LineAndEnd
<1>6. p <= Len(b) /\ b[p] = "$" /\ At(b, p + 1, s \o CRLF)
  BY <1>4, <1>5, BytesAre, ByteAt
<1>7. p + 5 <= Len(b) + 1 /\ b[p + 1] = "-" /\ Len(b) \in Nat
  <2>1. (p + 1) + 4 <= Len(b) + 1
    BY <1>5, <1>6 DEF At
  <2>2. At(b, p + 1, s)
    BY <1>1, <1>6, CRLFIs, AtConcat
  <2>3. 1 \in 1..Len(s) /\ (p + 1) + 1 - 1 = p + 1
    BY <1>1
  <2>4. b[(p + 1) + 1 - 1] = s[1]
    BY <2>2, <2>3 DEF At
  <2> QED  BY <1>1, <2>1, <2>3, <2>4
<1>8. /\ ~ (p > Len(b)) /\ ~ (p + 1 > Len(b))
      /\ ~ ((Len(b) - (p + 1)) + 1 < 4) /\ (p + 1) + 4 = p + 5 /\ p + 1 + 2 + 2 = p + 5
  BY <1>6, <1>7
<1>9. \A check : CheckEntry(b, p, check) = Ok(p + 5)
  <2>1. CheckBulk(b, p + 1) = Ok(p + 5)
    BY <1>7, <1>8 DEF CheckBulk, Skip
  <2> QED  BY <1>6, <1>8, <2>1 DEF CheckEntry
<1>10. \A parse : ParseEntry(b, p, parse) = Parsed(p + 5, Null)
  <2>1. Line(b, p + 1) = s /\ CheckLine(b, p + 1) = Ok(p + 1 + 2 + 2)
    <3>1. \A i \in 1..Len(s) - 1 : ~ (s[i] = "cr" /\ s[i + 1] = "lf")
      <4>1. \A i \in 1..Len(s) - 1 : i = 1
        BY <1>1
      <4> QED  BY <1>1, <4>1
    <3>2. Line(b, p + 1) = s /\ CheckLine(b, p + 1) = Ok(p + 1 + Len(s) + 2)
      <4>1. s \in Seq(Bytes) /\ At(b, p + 1, s \o CRLF) /\ p + 1 \in Nat \ {0}
        BY <1>1, <1>6
      <4> QED  BY <3>1, <4>1, LineAt
    <3>3. Len(s) = 2
      BY <1>1
    <3> QED  BY <3>2, <3>3
  <2>2. ParseNull(b, p + 1) = Parsed(p + 5, Null)
    BY <1>8, <2>1, StatusIs DEF ParseNull, s
  <2>3. ParseBulk(b, p + 1) = Parsed(p + 5, Null)
    BY <1>7, <1>8, <2>2 DEF ParseBulk
  <2> QED  BY <1>6, <1>8, <2>3 DEF ParseEntry
<1>11. Stands(b, p, p + Len(e), Null)
  BY <1>4, <1>9, <1>10 DEF Stands
<1> QED  BY <1>4, <1>11 DEF e

LEMMA BulkAt ==
    ASSUME NEW b \in Seq(Bytes), NEW p \in Nat \ {0}, NEW bytes \in Seq(Bytes),
           At(b, p, <<"$">> \o EncodeDecimal(Len(bytes)) \o bytes \o CRLF)
    PROVE  /\ <<"$">> \o EncodeDecimal(Len(bytes)) \o bytes \o CRLF \in Seq(Bytes)
           /\ Stands(b, p, p + Len(<<"$">> \o EncodeDecimal(Len(bytes)) \o bytes \o CRLF), Bulk(bytes))
<1> DEFINE n == Len(bytes)
           s == EncodeDecimal(n)
           t == bytes \o CRLF
           e == <<"$">> \o s \o bytes \o CRLF
<1>0. n \in Nat /\ s \in Seq(Bytes) /\ Len(s) \in Nat
  <2>1. s \in Seq(Bytes)
    BY EncodeDecimalIs
  <2> HIDE DEF s
  <2> QED  BY <2>1
<1>1. t \in Seq(Bytes) /\ Len(t) = n + 2
  BY LineAndEnd
<1>2. e = <<"$">> \o (s \o t)
  <2> DEFINE u == <<"$">> \o s
  <2>1. u \in Seq(Bytes)
    <3> HIDE DEF s
    <3> QED  BY <1>0, BytesAre, OneByte
  <2> HIDE DEF u
  <2>2. (u \o bytes) \o CRLF = u \o (bytes \o CRLF)
    <3>1. CRLF \in Seq(Bytes)
      BY CRLFIs
    <3> HIDE DEF s, n, t, e
    <3> QED  BY <2>1, <3>1, ConcatAssociative
  <2>3. e = u \o t
    BY <2>2 DEF u
  <2>4. u \o t = <<"$">> \o (s \o t)
    <3> HIDE DEF s, t
    <3> QED  BY <1>0, <1>1, BytesAre, TwoParts DEF u
  <2> QED  BY <2>3, <2>4
<1> HIDE DEF e
<1>3. s \o t \in Seq(Bytes) /\ Len(s \o t) = Len(s) + (n + 2)
  <2> HIDE DEF s, t, n
  <2>1. s \o t \in Seq(Bytes) /\ Len(s \o t) = Len(s) + Len(t)
    BY <1>0, <1>1, ConcatIs
  <2> QED  BY <1>1, <2>1
<1>4. e \in Seq(Bytes) /\ Len(e) = 1 + Len(s) + n + 2
  <2> DEFINE st == s \o t
  <2>1. e = <<"$">> \o st /\ st \in Seq(Bytes) /\ Len(st) = Len(s) + (n + 2)
    BY <1>2, <1>3
  <2> HIDE DEF st, s, n, t
  <2>2. e \in Seq(Bytes) /\ Len(e) = 1 + Len(st)
    BY <2>1, BytesAre, OneByte
  <2> QED  BY <1>0, <2>1, <2>2
<1>5. p <= Len(b) /\ b[p] = "$" /\ At(b, p + 1, s \o t)
  <2> DEFINE st == s \o t
  <2>1. At(b, p, <<"$">> \o st) /\ st \in Seq(Bytes)
    BY <1>2, <1>3 DEF e
  <2> HIDE DEF st
  <2>2. p <= Len(b) /\ b[p] = "$" /\ At(b, p + 1, st)
    BY <2>1, BytesAre, ByteAt
  <2> QED  BY <2>2 DEF st
<1>6. At(b, p + 1, s) /\ At(b, p + 1 + Len(s), t)
  <2> HIDE DEF s, t
  <2> QED  BY <1>0, <1>1, <1>5, AtConcat
<1>7. /\ CheckDecimal(b, p + 1) = Ok(p + 1 + Len(s))
      /\ Decimal(b, p + 1) = n
      /\ p + 1 <= Len(b) /\ b[p + 1] # "-"
  BY <1>0, <1>6, DecimalAt
<1>8. At(b, p + 1 + Len(s), bytes)
  <2>1. p + 1 + Len(s) \in Nat \ {0}
    BY <1>0
  <2> HIDE DEF s
  <2> QED  BY <1>6, <2>1, CRLFIs, AtConcat
<1>9. SubSeq(b, p + 1 + Len(s), p + 1 + Len(s) + n - 1) = bytes
  <2>1. p + 1 + Len(s) \in Nat \ {0}
    BY <1>0
  <2> HIDE DEF s
  <2> QED  BY <1>8, <2>1, AtSubSeq
<1>10. p + 1 + Len(s) + (n + 2) <= Len(b) + 1
  BY <1>1, <1>6 DEF At
<1> DEFINE q == p + Len(e)
<1>11. /\ ~ (p > Len(b)) /\ ~ (p + 1 > Len(b))
       /\ ~ ((Len(b) - (p + 1 + Len(s))) + 1 < n + 2)
       /\ p + 1 + Len(s) + (n + 2) = q
       /\ q - 3 = p + 1 + Len(s) + n - 1
  <2>1. Len(b) \in Nat
    OBVIOUS
  <2> HIDE DEF s, n
  <2> QED  BY <1>0, <1>4, <1>5, <1>7, <1>10, <2>1
<1> HIDE DEF s, t, n, q
<1>12. Skip(b, p + 1 + Len(s), n + 2) = Ok(q)
  BY <1>11 DEF Skip
<1>13. \A check : CheckEntry(b, p, check) = Ok(q)
  <2>1. CheckBulk(b, p + 1) = Ok(q)
    BY <1>7, <1>11, <1>12, StatusIs DEF CheckBulk
  <2> QED  BY <1>5, <1>11, <2>1 DEF CheckEntry
<1>14. \A parse : ParseEntry(b, p, parse) = Parsed(q, Bulk(bytes))
  <2>1. ParseBytes(b, p + 1) = Parsed(q, Bulk(bytes))
    <3> DEFINE r == p + 1 + Len(s)
    <3>1. CheckDecimal(b, p + 1).status = "ok" /\ CheckDecimal(b, p + 1).next = r
      BY <1>7, StatusIs
    <3>2. Skip(b, r, Decimal(b, p + 1) + 2) = Ok(q) /\ Ok(q).status = "ok" /\ Ok(q).next = q
      BY <1>7, <1>12, StatusIs
    <3>3. SubSeq(b, r, q - 3) = bytes
      BY <1>9, <1>11
    <3> HIDE DEF r
    <3> QED  BY <3>1, <3>2, <3>3 DEF ParseBytes
  <2>2. ParseBulk(b, p + 1) = Parsed(q, Bulk(bytes))
    BY <1>7, <1>11, <2>1 DEF ParseBulk
  <2> QED  BY <1>5, <1>11, <2>2 DEF ParseEntry
<1>15. Stands(b, p, q, Bulk(bytes))
  BY <1>13, <1>14 DEF Stands
<1> QED  BY <1>4, <1>15 DEF q, e, s, n

Texts == {text \in Seq(Bytes) : IsLine(text)}

LEMMA LiteralCases ==
    ASSUME NEW frame \in Literal
    PROVE  \/ \E text \in Texts : frame = Simple(text)
           \/ \E text \in Texts : frame = Error(text)
           \/ \E n \in Nat : frame = Integer(n)
           \/ \E bytes \in Seq(Bytes) : frame = Bulk(bytes)
           \/ frame = Null
<1>1. CASE frame \in [kind : {"simple", "error"}, value : Texts]
  <2>1. frame = [kind |-> frame.kind, value |-> frame.value] /\ frame.value \in Texts
        /\ frame.kind \in {"simple", "error"}
    BY <1>1
  <2>2. frame.kind = "simple" => frame = Simple(frame.value)
    BY <2>1 DEF Simple
  <2>3. frame.kind = "error" => frame = Error(frame.value)
    BY <2>1 DEF Error
  <2> QED  BY <2>1, <2>2, <2>3
<1>2. CASE frame \in [kind : {"integer"}, value : [1..1 -> Nat]]
  <2>1. frame = [kind |-> "integer", value |-> frame.value] /\ frame.value \in [1..1 -> Nat]
    BY <1>2
  <2>2. frame.value[1] \in Nat /\ frame.value = <<frame.value[1]>>
    BY <2>1
  <2>3. frame = Integer(frame.value[1])
    BY <2>1, <2>2 DEF Integer
  <2> QED  BY <2>2, <2>3
<1>3. CASE frame \in [kind : {"bulk"}, value : Seq(Bytes)]
  <2>1. frame = [kind |-> "bulk", value |-> frame.value] /\ frame.value \in Seq(Bytes)
    BY <1>3
  <2> QED  BY <2>1 DEF Bulk
<1>4. CASE frame = Null
  BY <1>4
<1> QED  BY <1>1, <1>2, <1>3, <1>4 DEF Literal, Texts

\* What write_value writes of each kind of frame.
LEMMA EncodeValueIs ==
    /\ \A text : EncodeValue(Simple(text)) = <<"+">> \o text \o CRLF
    /\ \A text : EncodeValue(Error(text)) = <<"-">> \o text \o CRLF
    /\ \A n : EncodeValue(Integer(n)) = <<":">> \o EncodeDecimal(n)
    /\ EncodeValue(Null) = <<"$", "-", "1">> \o CRLF
    /\ \A bytes : EncodeValue(Bulk(bytes)) = <<"$">> \o EncodeDecimal(Len(bytes)) \o bytes \o CRLF
<1>1. \A text : EncodeValue(Simple(text)) = <<"+">> \o text \o CRLF
  BY DEF EncodeValue, Simple
<1>2. \A text : EncodeValue(Error(text)) = <<"-">> \o text \o CRLF
  BY DEF EncodeValue, Error
<1>3. \A n : EncodeValue(Integer(n)) = <<":">> \o EncodeDecimal(n)
  <2> SUFFICES ASSUME NEW n PROVE EncodeValue(Integer(n)) = <<":">> \o EncodeDecimal(n)
    OBVIOUS
  <2>1. Integer(n).kind = "integer" /\ Integer(n).value[1] = n
    BY DEF Integer
  <2> QED  BY <2>1 DEF EncodeValue
<1>4. EncodeValue(Null) = <<"$", "-", "1">> \o CRLF
  BY DEF EncodeValue, Null
<1>5. \A bytes : EncodeValue(Bulk(bytes)) = <<"$">> \o EncodeDecimal(Len(bytes)) \o bytes \o CRLF
  BY DEF EncodeValue, Bulk
<1> QED  BY <1>1, <1>2, <1>3, <1>4, <1>5

LEMMA LiteralEncoded ==
    ASSUME NEW frame \in Literal
    PROVE  EncodeValue(frame) \in Seq(Bytes)
<1>0. CRLF \in Seq(Bytes) /\ \A text \in Texts : text \in Seq(Bytes)
  BY CRLFIs DEF Texts
<1>1. ASSUME NEW text \in Texts, frame = Simple(text)
      PROVE  EncodeValue(frame) \in Seq(Bytes)
  <2>1. EncodeValue(frame) = <<"+">> \o text \o CRLF
    BY <1>1, EncodeValueIs
  <2>2. <<"+">> \o text \o CRLF \in Seq(Bytes)
    BY <1>0, BytesAre, TwoParts
  <2> QED  BY <2>1, <2>2
<1>2. ASSUME NEW text \in Texts, frame = Error(text)
      PROVE  EncodeValue(frame) \in Seq(Bytes)
  <2>1. EncodeValue(frame) = <<"-">> \o text \o CRLF
    BY <1>2, EncodeValueIs
  <2>2. <<"-">> \o text \o CRLF \in Seq(Bytes)
    BY <1>0, BytesAre, TwoParts
  <2> QED  BY <2>1, <2>2
<1>3. ASSUME NEW n \in Nat, frame = Integer(n)
      PROVE  EncodeValue(frame) \in Seq(Bytes)
  <2>1. EncodeValue(frame) = <<":">> \o EncodeDecimal(n)
    BY <1>3, EncodeValueIs
  <2>2. EncodeDecimal(n) \in Seq(Bytes)
    BY EncodeDecimalIs
  <2> DEFINE s == EncodeDecimal(n)
  <2> HIDE DEF s
  <2>3. <<":">> \o s \in Seq(Bytes)
    BY <2>2, BytesAre, OneByte DEF s
  <2> QED  BY <2>1, <2>3 DEF s
<1>4. ASSUME NEW bytes \in Seq(Bytes), frame = Bulk(bytes)
      PROVE  EncodeValue(frame) \in Seq(Bytes)
  <2> DEFINE s == EncodeDecimal(Len(bytes))
             u == <<"$">> \o s \o bytes
  <2>1. EncodeValue(frame) = u \o CRLF
    BY <1>4, EncodeValueIs
  <2>2. s \in Seq(Bytes)
    BY EncodeDecimalIs
  <2>3. u \in Seq(Bytes)
    <3> HIDE DEF s
    <3> QED  BY <2>2, BytesAre, TwoParts
  <2> HIDE DEF u
  <2> QED  BY <2>1, <2>3, LineAndEnd
<1>5. CASE frame = Null
  <2>1. EncodeValue(frame) = <<"$", "-", "1">> \o CRLF
    BY <1>5, EncodeValueIs
  <2>2. <<"$", "-", "1">> \in Seq(Bytes)
    <3>1. \A x, y, z \in Bytes : <<x, y, z>> \in Seq(Bytes)
      OBVIOUS
    <3> QED  BY <3>1, BytesAre
  <2> DEFINE u == <<"$", "-", "1">>
  <2> HIDE DEF u
  <2>3. u \o CRLF \in Seq(Bytes)
    BY <2>2, LineAndEnd DEF u
  <2> QED  BY <2>1, <2>3 DEF u
<1> QED  BY <1>1, <1>2, <1>3, <1>4, <1>5, LiteralCases

LEMMA LiteralAt ==
    ASSUME NEW b \in Seq(Bytes), NEW p \in Nat \ {0}, NEW frame \in Literal,
           At(b, p, EncodeValue(frame))
    PROVE  Stands(b, p, p + Len(EncodeValue(frame)), frame)
<1> DEFINE Goal == Stands(b, p, p + Len(EncodeValue(frame)), frame)
<1>1. ASSUME NEW text \in Texts, frame = Simple(text)
      PROVE  Goal
  <2>1. EncodeValue(frame) = <<"+">> \o text \o CRLF /\ frame = [kind |-> "simple", value |-> text]
    BY <1>1, EncodeValueIs DEF Simple
  <2>2. text \in Seq(Bytes) /\ IsLine(text)
    BY DEF Texts
  <2>3. At(b, p, <<"+">> \o text \o CRLF)
    BY <2>1
  <2>4. "+" \in Bytes
    BY BytesAre
  <2> HIDE DEF Goal
  <2>5. Stands(b, p, p + Len(<<"+">> \o text \o CRLF), [kind |-> "simple", value |-> text])
    BY <2>2, <2>3, <2>4, TextAt
  <2> QED  BY <2>1, <2>5 DEF Goal
<1>2. ASSUME NEW text \in Texts, frame = Error(text)
      PROVE  Goal
  <2>1. EncodeValue(frame) = <<"-">> \o text \o CRLF /\ frame = [kind |-> "error", value |-> text]
    BY <1>2, EncodeValueIs DEF Error
  <2>2. text \in Seq(Bytes) /\ IsLine(text)
    BY DEF Texts
  <2>3. At(b, p, <<"-">> \o text \o CRLF)
    BY <2>1
  <2>4. "-" \in Bytes
    BY BytesAre
  <2> HIDE DEF Goal
  <2>5. Stands(b, p, p + Len(<<"-">> \o text \o CRLF), [kind |-> "error", value |-> text])
    BY <2>2, <2>3, <2>4, TextAt
  <2> QED  BY <2>1, <2>5 DEF Goal
<1>3. ASSUME NEW n \in Nat, frame = Integer(n)
      PROVE  Goal
  <2>1. EncodeValue(frame) = <<":">> \o EncodeDecimal(n)
    BY <1>3, EncodeValueIs
  <2> QED  BY <1>3, <2>1, IntegerAt
<1>4. ASSUME NEW bytes \in Seq(Bytes), frame = Bulk(bytes)
      PROVE  Goal
  <2>1. EncodeValue(frame) = <<"$">> \o EncodeDecimal(Len(bytes)) \o bytes \o CRLF
    BY <1>4, EncodeValueIs
  <2> QED  BY <1>4, <2>1, BulkAt
<1>5. ASSUME frame = Null PROVE Goal
  <2>1. EncodeValue(frame) = <<"$", "-", "1">> \o CRLF
    BY <1>5, EncodeValueIs
  <2> QED  BY <1>5, <2>1, NullAt
<1> HIDE DEF Goal
<1>6. \/ \E text \in Texts : frame = Simple(text)
      \/ \E text \in Texts : frame = Error(text)
      \/ \E n \in Nat : frame = Integer(n)
      \/ \E bytes \in Seq(Bytes) : frame = Bulk(bytes)
      \/ frame = Null
  BY LiteralCases
<1>7. Goal
  BY <1>1, <1>2, <1>3, <1>4, <1>5, <1>6
<1> QED  BY <1>7 DEF Goal

\* The entries of an array, each behind the one before it.
LEMMA EntriesAt ==
    ASSUME NEW b \in Seq(Bytes), NEW q \in Nat \ {0}, NEW es \in Seq(Literal),
           At(b, q, FlattenSeq([i \in DOMAIN es |-> EncodeValue(es[i])]))
    PROVE  LET last == q + Len(FlattenSeq([i \in DOMAIN es |-> EncodeValue(es[i])]))
           IN  /\ CheckEntries(b)[q][Len(es)] = Ok(last)
               /\ ParseEntries(b)[q][Len(es)] = Parsed(last, Array(es))
<1> DEFINE n == Len(es)
           ss == [i \in DOMAIN es |-> EncodeValue(es[i])]
<1>1. n \in Nat /\ DOMAIN es = 1..n /\ \A i \in 1..n : es[i] \in Literal
  BY LenProperties, ElementOfSeq
<1>2. ss \in Seq(Seq(Bytes)) /\ Len(ss) = n /\ \A i \in 1..n : ss[i] = EncodeValue(es[i])
  <2>1. \A i \in 1..n : EncodeValue(es[i]) \in Seq(Bytes)
    BY <1>1, LiteralEncoded
  <2>2. ss = [i \in 1..n |-> EncodeValue(es[i])]
    BY <1>1
  <2>3. ss \in [1..n -> Seq(Bytes)]
    BY <2>1, <2>2
  <2>4. ss \in Seq(Seq(Bytes)) /\ Len(ss) = n
    <3> HIDE DEF ss, n
    <3> QED  BY <1>1, <2>3
  <2> QED  BY <2>2, <2>4
<1> HIDE DEF ss
<1>3. PICK F : Flattens(ss, Bytes, F)
  BY <1>2, FlattenIs
<1>4. /\ F \in [0..n -> Seq(Bytes)] /\ F[0] = <<>> /\ FlattenSeq(ss) = F[n]
      /\ \A i \in 1..n : F[i] = F[i - 1] \o ss[i] /\ ss[i] \in Seq(Bytes)
  BY <1>2, <1>3, ElementOfSeq DEF Flattens
<1> HIDE DEF n
<1> DEFINE Pos(i) == q + Len(F[i])
<1>5. \A i \in 0..n : Pos(i) \in Nat \ {0}
  <2>1. \A i \in 0..n : Len(F[i]) \in Nat
    BY <1>4, LenProperties
  <2> QED  BY <2>1
<1>6. ASSUME NEW i \in 1..n, At(b, q, F[i])
      PROVE  /\ At(b, q, F[i - 1]) /\ At(b, Pos(i - 1), ss[i])
             /\ Pos(i) = Pos(i - 1) + Len(ss[i])
  <2>1. i - 1 \in 0..n
    BY <1>1
  <2> DEFINE f == F[i - 1]
             s == ss[i]
  <2>2. f \in Seq(Bytes) /\ s \in Seq(Bytes) /\ F[i] = f \o s
    BY <1>4, <2>1
  <2>3. At(b, q, f \o s)
    BY <1>6, <2>2
  <2> HIDE DEF f, s
  <2>4. At(b, q, f) /\ At(b, q + Len(f), s)
    BY <2>2, <2>3, AtConcat
  <2>5. Len(f \o s) = Len(f) + Len(s) /\ Len(f) \in Nat /\ Len(s) \in Nat
    BY <2>2, ConcatIs
  <2>6. q + Len(F[i]) = q + Len(f) + Len(s)
    BY <2>2, <2>5
  <2> QED  BY <2>4, <2>6 DEF f, s
<1> DEFINE M == {k \in Nat : k <= n => At(b, q, F[n - k])}
<1>7. M = Nat
  <2>1. 0 \in M
    <3>1. n - 0 = n
      BY <1>1
    <3>2. At(b, q, F[n])
      BY <1>4 DEF ss
    <3> QED  BY <3>1, <3>2
  <2>2. ASSUME NEW k \in M PROVE k + 1 \in M
    <3>1. CASE k + 1 <= n
      <4>1. n - k \in 1..n /\ (n - k) - 1 = n - (k + 1) /\ k <= n
        BY <1>1, <3>1
      <4>2. At(b, q, F[n - k])
        BY <4>1
      <4>3. At(b, q, F[(n - k) - 1])
        <5> HIDE DEF M, Pos
        <5> QED  BY <1>6, <4>1, <4>2
      <4>4. At(b, q, F[n - (k + 1)])
        BY <4>1, <4>3
      <4> QED  BY <4>4
    <3> QED  BY <3>1
  <2>3. M \in SUBSET Nat
    OBVIOUS
  <2> HIDE DEF M
  <2> QED  BY <2>1, <2>2, <2>3, NatInduct
<1>8. \A i \in 0..n : At(b, q, F[i])
  <2> SUFFICES ASSUME NEW i \in 0..n PROVE At(b, q, F[i])
    OBVIOUS
  <2>1. n - i \in M
    <3> HIDE DEF M
    <3> QED  BY <1>1, <1>7
  <2>2. n - i <= n /\ n - (n - i) = i
    BY <1>1
  <2>3. At(b, q, F[n - (n - i)])
    BY <2>1, <2>2
  <2> QED  BY <2>2, <2>3
<1>9. \A i \in 0..n : Pos(i) \in 1..Len(b) + 1
  <2> SUFFICES ASSUME NEW i \in 0..n PROVE Pos(i) \in 1..Len(b) + 1
    OBVIOUS
  <2>1. q + Len(F[i]) <= Len(b) + 1
    BY <1>8 DEF At
  <2>2. Len(b) \in Nat
    OBVIOUS
  <2>3. Pos(i) \in Nat \ {0}
    BY <1>5
  <2> QED  BY <2>1, <2>2, <2>3
<1>10. ASSUME NEW i \in 1..n
       PROVE  Stands(b, Pos(i - 1), Pos(i), es[i]) /\ i - 1 \in 0..n
  <2>1. i \in 0..n /\ i - 1 \in 0..n
    BY <1>1
  <2>2. At(b, q, F[i])
    BY <1>8, <2>1
  <2>3. At(b, Pos(i - 1), EncodeValue(es[i])) /\ Pos(i) = Pos(i - 1) + Len(EncodeValue(es[i]))
    <3> HIDE DEF Pos
    <3> QED  BY <1>2, <1>6, <2>2
  <2>4. Pos(i - 1) \in Nat \ {0} /\ es[i] \in Literal
    <3> HIDE DEF Pos
    <3> QED  BY <1>1, <1>5, <2>1
  <2> HIDE DEF Pos
  <2>5. Stands(b, Pos(i - 1), Pos(i - 1) + Len(EncodeValue(es[i])), es[i])
    BY <2>3, <2>4, LiteralAt
  <2> QED  BY <2>1, <2>3, <2>5
<1> DEFINE check == CheckEntries(b)
           parse == ParseEntries(b)
           Rest(k) == /\ check[Pos(n - k)][k] = Ok(Pos(n))
                      /\ parse[Pos(n - k)][k] = Parsed(Pos(n), Array(SubSeq(es, (n - k) + 1, n)))
           N == {k \in Nat : k <= n => Rest(k)}
<1>11. \A i \in 0..n : check[Pos(i)] = Row(b, Pos(i), check) /\ parse[Pos(i)] = ParsedRow(b, Pos(i), parse)
  <2> HIDE DEF Pos
  <2> QED  BY <1>9, CheckEntriesIs, ParseEntriesIs
<1> HIDE DEF Pos, check, parse
<1>12. 0 \in N
  <2>1. n - 0 = n /\ n \in 0..n
    BY <1>1
  <2>2. check[Pos(n)][0] = Ok(Pos(n))
    BY <1>11, <2>1 DEF Row
  <2>3. parse[Pos(n)][0] = Parsed(Pos(n), Array(<<>>))
    BY <1>11, <2>1 DEF ParsedRow
  <2>4. SubSeq(es, n + 1, n) = <<>>
    BY <1>1, SubSeqEmpty
  <2>5. Rest(0)
    BY <2>1, <2>2, <2>3, <2>4
  <2> QED  BY <2>5
<1>13. ASSUME NEW k \in N
       PROVE  k + 1 \in N
  <2>1. CASE k + 1 <= n
    <3> DEFINE i == n - k
    <3>1. k \in Nat /\ k <= n /\ Rest(k)
      BY <1>1, <2>1
    <3>2. i \in 1..n /\ n - (k + 1) = i - 1 /\ i - 1 \in 0..n /\ k + 1 # 0 /\ (k + 1) - 1 = k
          /\ k + 1 \in Nat
      BY <1>1, <2>1, <3>1
    <3>3. Stands(b, Pos(i - 1), Pos(i), es[i])
      <4> HIDE DEF i, N
      <4> QED  BY <1>10, <3>2
    <3>4. check[Pos(i)][k] = Ok(Pos(n)) /\ parse[Pos(i)][k] = Parsed(Pos(n), Array(SubSeq(es, i + 1, n)))
      BY <3>1
    <3>5. /\ check[Pos(i - 1)] = Row(b, Pos(i - 1), check)
          /\ parse[Pos(i - 1)] = ParsedRow(b, Pos(i - 1), parse)
      <4> HIDE DEF i, N
      <4> QED  BY <1>11, <3>2
    <3> HIDE DEF i, N
    <3>6. check[Pos(i - 1)][k + 1] = Ok(Pos(n))
      <4>1. CheckEntry(b, Pos(i - 1), check) = Ok(Pos(i)) /\ Ok(Pos(i)).status = "ok" /\ Ok(Pos(i)).next = Pos(i)
        BY <3>3, StatusIs DEF Stands
      <4> QED  BY <3>2, <3>4, <3>5, <4>1 DEF Row
    <3>7. parse[Pos(i - 1)][k + 1] = Parsed(Pos(n), Array(SubSeq(es, i, n)))
      <4> DEFINE entry == Parsed(Pos(i), es[i])
                 rest == Parsed(Pos(n), Array(SubSeq(es, i + 1, n)))
      <4>1. ParseEntry(b, Pos(i - 1), parse) = entry
        BY <3>3 DEF Stands
      <4>2. entry.status = "ok" /\ entry.next = Pos(i) /\ entry.frame = es[i]
        BY StatusIs
      <4>3. /\ rest.status = "ok" /\ rest.next = Pos(n)
            /\ rest.frame.value = SubSeq(es, i + 1, n)
        BY StatusIs DEF Array
      <4>4. parse[Pos(i)][k] = rest
        BY <3>4
      <4> HIDE DEF entry, rest
      <4>5. parse[Pos(i - 1)][k + 1] = Before(entry, rest)
        BY <3>2, <3>5, <4>1, <4>2, <4>4 DEF ParsedRow
      <4>6. Before(entry, rest) = Parsed(Pos(n), Array(<<es[i]>> \o SubSeq(es, i + 1, n)))
        <5>1. Before(entry, rest) = Parsed(rest.next, Array(<<entry.frame>> \o rest.frame.value))
          BY <4>3 DEF Before
        <5> QED  BY <5>1, <4>2, <4>3
      <4>7. <<es[i]>> \o SubSeq(es, i + 1, n) = SubSeq(es, i, n)
        <5>1. i \in 1..Len(es) /\ n \in i..Len(es)
          BY <1>1, <3>2 DEF n
        <5> QED  BY <5>1, SubSeqRecursiveFirst
      <4> QED  BY <4>5, <4>6, <4>7
    <3>8. (i - 1) + 1 = i
      BY <3>2
    <3>9. Rest(k + 1)
      BY <3>2, <3>6, <3>7, <3>8
    <3> QED  BY <3>2, <3>9 DEF N
  <2> QED  BY <2>1
<1>14. N = Nat
  <2>1. N \in SUBSET Nat
    OBVIOUS
  <2> HIDE DEF N
  <2> QED  BY <1>12, <1>13, <2>1, NatInduct
<1>15. Rest(n)
  <2>1. n \in N
    <3> HIDE DEF N
    <3> QED  BY <1>1, <1>14
  <2>2. n <= n
    BY <1>1
  <2> QED  BY <2>1, <2>2
<1>16. Pos(n - n) = q /\ (n - n) + 1 = 1
  <2>1. n - n = 0
    BY <1>1
  <2>2. Len(F[0]) = 0
    BY <1>4, EmptySeq
  <2>3. Pos(n - n) = q + 0
    BY <2>1, <2>2 DEF Pos
  <2> QED  BY <2>1, <2>3
<1>17. SubSeq(es, 1, n) = es
  BY SubSeqFull DEF n
<1>18. Pos(n) = q + Len(FlattenSeq(ss))
  BY <1>4 DEF Pos
<1>19. check[q][n] = Ok(Pos(n)) /\ parse[q][n] = Parsed(Pos(n), Array(es))
  BY <1>15, <1>16, <1>17
<1> QED  BY <1>18, <1>19 DEF ss, check, parse, n

-----------------------------------------------------------------------------
(***************************************************************************)
(* parse_frame.                                                            *)
(***************************************************************************)

LEMMA ParseFrameIs ==
    ASSUME NEW b \in Seq(Bytes)
    PROVE  \/ /\ Check(b, 1).status = "incomplete"
              /\ ParseFrame(b) = [result |-> "none"]
           \/ /\ Check(b, 1).status = "invalid"
              /\ ParseFrame(b) = [result |-> "error"]
           \/ /\ Check(b, 1).status = "ok" /\ Parse(b, 1).status = "ok"
              /\ Check(b, 1).next = Parse(b, 1).next
              /\ ParseFrame(b) = [result |-> "frame", frame |-> Parse(b, 1).frame,
                                  length |-> Check(b, 1).next - 1]
           \/ /\ Check(b, 1).status = "ok" /\ Parse(b, 1).status # "ok"
              /\ Parse(b, 1).status # "panic"
              /\ ParseFrame(b) = [result |-> "error"]
<1>1. 1 \in 1..Len(b) + 1 /\ 2 \in Nat
  BY LenProperties
<1>2. Agrees(Check(b, 1), Parse(b, 1)) /\ Check(b, 1) \in Found(b, 1 + 1)
  BY <1>1, CheckAgreesWithParse
<1> DEFINE checked == Check(b, 1)
           parsed == Parse(b, 1)
           none == [result |-> "none"]
           error == [result |-> "error"]
           panic == [result |-> "panic"]
           found == [result |-> "frame", frame |-> parsed.frame, length |-> checked.next - 1]
<1>3. checked.status \in {"ok", "incomplete", "invalid"}
  <2>1. checked \in Found(b, 2)
    BY <1>2
  <2> HIDE DEF checked
  <2> QED  BY <1>1, <2>1, FoundIs
<1>4. ParseFrame(b) =
        IF checked.status = "incomplete" THEN none
        ELSE IF checked.status = "invalid" THEN error
        ELSE CASE parsed.status = "ok" -> found
               [] parsed.status = "panic" -> panic
               [] OTHER -> error
  BY DEF ParseFrame
<1>5. checked.status = "ok" =>
        /\ parsed.status # "panic"
        /\ parsed.status = "ok" => parsed.next = checked.next
  BY <1>2 DEF Agrees
<1> HIDE DEF checked, parsed, none, error, panic, found
<1>6. CASE checked.status = "incomplete"
  <2>1. ParseFrame(b) = none
    BY <1>4, <1>6
  <2> QED  BY <1>6, <2>1 DEF checked, none
<1>7. CASE checked.status = "invalid"
  <2>1. ParseFrame(b) = error
    BY <1>4, <1>7
  <2> QED  BY <1>7, <2>1 DEF checked, error
<1>8. CASE checked.status = "ok" /\ parsed.status = "ok"
  <2>1. ParseFrame(b) = found
    BY <1>4, <1>8
  <2> QED  BY <1>5, <1>8, <2>1 DEF checked, parsed, found
<1>9. CASE checked.status = "ok" /\ parsed.status # "ok"
  <2>1. ParseFrame(b) = error
    BY <1>4, <1>5, <1>9
  <2> QED  BY <1>5, <1>9, <2>1 DEF checked, parsed, error
<1> QED  BY <1>3, <1>6, <1>7, <1>8, <1>9

LEMMA CheckStays ==
    ASSUME NEW b \in Seq(Bytes), NEW x \in Bytes
    PROVE  /\ Stays(Check(b, 1), Check(Append(b, x), 1))
           /\ Check(b, 1).status = "ok" => Same(Parse(b, 1), Parse(Append(b, x), 1))
<1>0. 1 \in 1..Len(b) + 1
  BY LenProperties
<1>1. Stays(Check(b, 1), Check(Append(b, x), 1))
  <2>1. \A q \in 1 + 1..Len(b) + 1, n \in Nat :
          Stays(CheckEntries(b)[q][n], CheckEntries(Append(b, x))[q][n])
    BY EntriesStay
  <2> QED  BY <1>0, <2>1, EntryStays DEF Check
<1>2. ASSUME Check(b, 1).status = "ok"
      PROVE  Same(Parse(b, 1), Parse(Append(b, x), 1))
  <2>1. \A q \in 1 + 1..Len(b) + 1, n \in Nat :
          CheckEntries(b)[q][n].status = "ok" =>
            Same(ParseEntries(b)[q][n], ParseEntries(Append(b, x))[q][n])
    BY ParsedEntriesStay
  <2>2. CheckEntry(b, 1, CheckEntries(b)).status = "ok"
    BY <1>2 DEF Check
  <2> QED  BY <1>0, <2>1, <2>2, ParsedEntryStays DEF Parse
<1> QED  BY <1>1, <1>2

LEMMA ParseFrameStays ==
    ASSUME NEW b \in Seq(Bytes), NEW x \in Bytes
    PROVE  Undecided(b) \/ ParseFrame(Append(b, x)) = ParseFrame(b)
<1> DEFINE c == Append(b, x)
<1>1. c \in Seq(Bytes)
  BY AppendIs
<1>2. /\ Stays(Check(b, 1), Check(c, 1))
      /\ Check(b, 1).status = "ok" => Same(Parse(b, 1), Parse(c, 1))
  BY CheckStays
<1> HIDE DEF c
<1>3. CASE Check(b, 1).status = "incomplete"
  <2>1. ParseFrame(b) = [result |-> "none"]
    BY <1>3, ParseFrameIs
  <2> QED  BY <2>1 DEF Undecided
<1>4. CASE Check(b, 1).status = "invalid"
  <2>1. ParseFrame(b) = [result |-> "error"]
    BY <1>4, ParseFrameIs
  <2>2. Check(c, 1) = Check(b, 1)
    BY <1>2, <1>4 DEF Stays
  <2>3. ParseFrame(c) = [result |-> "error"]
    BY <1>1, <1>4, <2>2, ParseFrameIs
  <2> QED  BY <2>1, <2>3 DEF c
<1>5. CASE Check(b, 1).status = "ok" /\ Parse(b, 1).status = "ok"
  <2>1. Check(c, 1) = Check(b, 1) /\ Parse(c, 1) = Parse(b, 1)
    BY <1>2, <1>5 DEF Stays, Same
  <2>2. ParseFrame(b) = [result |-> "frame", frame |-> Parse(b, 1).frame, length |-> Check(b, 1).next - 1]
    BY <1>5, ParseFrameIs
  <2>3. Check(c, 1).status = "ok" /\ Parse(c, 1).status = "ok"
    BY <1>5, <2>1
  <2>4. ParseFrame(c) = [result |-> "frame", frame |-> Parse(c, 1).frame, length |-> Check(c, 1).next - 1]
    BY <1>1, <2>3, ParseFrameIs
  <2> QED  BY <2>1, <2>2, <2>4 DEF c
<1>6. CASE Check(b, 1).status = "ok" /\ Parse(b, 1).status # "ok"
  <2>1. Check(c, 1) = Check(b, 1) /\ Parse(c, 1).status # "ok"
    BY <1>2, <1>6 DEF Stays, Same
  <2>2. ParseFrame(b) = [result |-> "error"]
    BY <1>6, ParseFrameIs
  <2>3. ParseFrame(c) = [result |-> "error"]
    BY <1>1, <1>6, <2>1, ParseFrameIs
  <2> QED  BY <2>2, <2>3 DEF c
<1> QED  BY <1>3, <1>4, <1>5, <1>6, ParseFrameIs

-----------------------------------------------------------------------------
(***************************************************************************)
(* The reader.                                                             *)
(***************************************************************************)

InputIsBytes == input \in Seq(Bytes)

LEMMA InputStays == ASSUME InputIsBytes, [Receives]_input PROVE InputIsBytes'
<1>1. CASE Receives
  <2>1. PICK byte \in Sent : input' = Append(input, byte)
    BY <1>1 DEF Receives, Receive
  <2>2. byte \in Bytes
    BY <2>1, SentAssumption
  <2> QED  BY <2>1, <2>2, AppendIs DEF InputIsBytes
<1>2. CASE UNCHANGED input
  BY <1>2 DEF InputIsBytes
<1> QED  BY <1>1, <1>2

LEMMA InputInvariant == ReaderSpec => []InputIsBytes
<1>1. Unread => InputIsBytes
  BY EmptySeq DEF Unread, InputIsBytes
<1> QED  BY <1>1, InputStays, PTL DEF ReaderSpec

LEMMA MeasuresParse == ASSUME InputIsBytes PROVE CheckMeasuresParse /\ NeverUnimplemented
<1>1. input \in Seq(Bytes)
  BY DEF InputIsBytes
<1>2. CheckMeasuresParse
  BY <1>1, ParseFrameIs DEF CheckMeasuresParse
<1>3. NeverUnimplemented
  BY <1>1, ParseFrameIs DEF NeverUnimplemented
<1> QED  BY <1>2, <1>3

\* Whatever has arrived, parse uses exactly the bytes that check has counted
\* and parse_frame discards (connection.rs:103-130; frame.rs:66-164).
THEOREM CheckIsMeasure == ReaderSpec => []CheckMeasuresParse
  BY InputInvariant, MeasuresParse, PTL

\* Whatever has arrived, parse does not meet its unimplemented!()
\* (frame.rs:101, 167).
THEOREM Implemented == ReaderSpec => []NeverUnimplemented
  BY InputInvariant, MeasuresParse, PTL

\* Once parse_frame has decided, nothing that arrives later changes its
\* decision: the pieces in which the bytes arrive make no difference
\* (connection.rs:88-143).
THEOREM Final == ReaderSpec => DecisionIsFinal
<1>1. ASSUME InputIsBytes, [Receives]_input
      PROVE  [Undecided(input) \/ ParseFrame(input') = ParseFrame(input)]_input
  <2>1. CASE Receives
    <3>1. PICK byte \in Sent : input' = Append(input, byte)
      BY <2>1 DEF Receives, Receive
    <3>2. byte \in Bytes
      BY <3>1, SentAssumption
    <3>3. Undecided(input) \/ ParseFrame(Append(input, byte)) = ParseFrame(input)
      BY <1>1, <3>2, ParseFrameStays DEF InputIsBytes
    <3> QED  BY <3>1, <3>3
  <2>2. CASE UNCHANGED input
    BY <2>2
  <2> QED  BY <1>1, <2>1, <2>2
<1> QED  BY <1>1, InputInvariant, PTL DEF ReaderSpec, DecisionIsFinal

-----------------------------------------------------------------------------
(***************************************************************************)
(* What write_frame writes, parse_frame reads.                             *)
(***************************************************************************)

LEMMA EncodeIs ==
    /\ \A frame \in Literal : Encode(frame) = EncodeValue(frame)
    /\ \A es : Encode(Array(es)) =
                 <<"*">> \o EncodeDecimal(Len(es))
                   \o FlattenSeq([i \in DOMAIN es |-> EncodeValue(es[i])])
<1>1. ASSUME NEW frame \in Literal PROVE Encode(frame) = EncodeValue(frame)
  <2>1. frame.kind # "array"
    BY LiteralCases DEF Simple, Error, Integer, Bulk, Null
  <2> QED  BY <2>1 DEF Encode
<1>2. ASSUME NEW es
      PROVE  Encode(Array(es)) =
                 <<"*">> \o EncodeDecimal(Len(es))
                   \o FlattenSeq([i \in DOMAIN es |-> EncodeValue(es[i])])
  <2>1. Array(es).kind = "array" /\ Array(es).value = es
    BY DEF Array
  <2> QED  BY <2>1 DEF Encode
<1> QED  BY <1>1, <1>2

LEMMA WritableCases ==
    ASSUME NEW frame \in Writable
    PROVE  frame \in Literal \/ \E es \in Seq(Literal) : frame = Array(es)
<1>1. ASSUME frame \in [kind : {"array"}, value : Seq(Literal)]
      PROVE  \E es \in Seq(Literal) : frame = Array(es)
  <2>1. frame = [kind |-> "array", value |-> frame.value] /\ frame.value \in Seq(Literal)
    BY <1>1
  <2> QED  BY <2>1 DEF Array
<1> QED  BY <1>1 DEF Writable

LEMMA EntriesEncoded ==
    ASSUME NEW es \in Seq(Literal)
    PROVE  /\ EncodeDecimal(Len(es)) \in Seq(Bytes)
           /\ FlattenSeq([i \in DOMAIN es |-> EncodeValue(es[i])]) \in Seq(Bytes)
<1> DEFINE n == Len(es)
           ss == [i \in DOMAIN es |-> EncodeValue(es[i])]
<1>1. n \in Nat /\ DOMAIN es = 1..n /\ \A i \in 1..n : es[i] \in Literal
  BY LenProperties, ElementOfSeq
<1>2. ss \in Seq(Seq(Bytes))
  <2>1. \A i \in 1..n : EncodeValue(es[i]) \in Seq(Bytes)
    BY <1>1, LiteralEncoded
  <2>2. ss = [i \in 1..n |-> EncodeValue(es[i])]
    BY <1>1
  <2>3. ss \in [1..n -> Seq(Bytes)]
    BY <2>1, <2>2
  <2> HIDE DEF ss, n
  <2> QED  BY <1>1, <2>3
<1>3. FlattenSeq(ss) \in Seq(Bytes)
  <2> HIDE DEF ss
  <2> QED  BY <1>2, FlattenType
<1> QED  BY <1>1, <1>3, EncodeDecimalIs

LEMMA Encoded ==
    ASSUME NEW frame \in Writable
    PROVE  Encode(frame) \in Seq(Bytes)
<1>1. CASE frame \in Literal
  BY <1>1, EncodeIs, LiteralEncoded
<1>2. ASSUME NEW es \in Seq(Literal), frame = Array(es)
      PROVE  Encode(frame) \in Seq(Bytes)
  <2> DEFINE s == EncodeDecimal(Len(es))
             t == FlattenSeq([i \in DOMAIN es |-> EncodeValue(es[i])])
  <2>1. Encode(frame) = <<"*">> \o s \o t
    BY <1>2, EncodeIs
  <2>2. s \in Seq(Bytes) /\ t \in Seq(Bytes)
    BY EntriesEncoded
  <2> HIDE DEF s, t
  <2>3. <<"*">> \o s \o t \in Seq(Bytes)
    BY <2>2, BytesAre, TwoParts
  <2> QED  BY <2>1, <2>3
<1> QED  BY <1>1, <1>2, WritableCases

LEMMA ArrayAt ==
    ASSUME NEW b \in Seq(Bytes), NEW p \in Nat \ {0}, NEW es \in Seq(Literal),
           At(b, p, Encode(Array(es)))
    PROVE  /\ Check(b, p) = Ok(p + Len(Encode(Array(es))))
           /\ Parse(b, p) = Parsed(p + Len(Encode(Array(es))), Array(es))
<1> DEFINE n == Len(es)
           s == EncodeDecimal(n)
           ss == [i \in DOMAIN es |-> EncodeValue(es[i])]
           t == FlattenSeq(ss)
           e == Encode(Array(es))
           q == p + 1 + Len(s)
           last == q + Len(t)
<1>0. n \in Nat
  OBVIOUS
<1>1. e = <<"*">> \o s \o t
  BY EncodeIs
<1>2. s \in Seq(Bytes) /\ t \in Seq(Bytes)
  BY EntriesEncoded
<1>3. At(b, p, <<"*">> \o s \o t)
  BY <1>1
<1> HIDE DEF t
<1>4. e = <<"*">> \o (s \o t) /\ Len(e) = 1 + Len(s) + Len(t) /\ s \o t \in Seq(Bytes)
      /\ Len(s) \in Nat /\ Len(t) \in Nat
  <2> HIDE DEF s, e
  <2>1. <<"*">> \o s \o t = <<"*">> \o (s \o t) /\ Len(<<"*">> \o s \o t) = 1 + Len(s) + Len(t)
    BY <1>2, BytesAre, TwoParts
  <2>2. s \o t \in Seq(Bytes) /\ Len(s) \in Nat /\ Len(t) \in Nat
    BY <1>2, ConcatIs
  <2> QED  BY <1>1, <2>1, <2>2
<1>5. At(b, p, <<"*">> \o (s \o t))
  <2> HIDE DEF s, e
  <2> QED  BY <1>1, <1>3, <1>4
<1>6. p <= Len(b) /\ b[p] = "*" /\ At(b, p + 1, s \o t)
  <2> DEFINE u == s \o t
  <2>1. u \in Seq(Bytes) /\ At(b, p, <<"*">> \o u)
    BY <1>4, <1>5
  <2> HIDE DEF u
  <2>2. p <= Len(b) /\ b[p] = "*" /\ At(b, p + 1, u)
    BY <2>1, BytesAre, ByteAt
  <2> QED  BY <2>2 DEF u
<1>7. At(b, p + 1, s) /\ At(b, q, t)
  <2>0. p + 1 \in Nat \ {0}
    OBVIOUS
  <2> HIDE DEF s
  <2> QED  BY <1>2, <1>6, <2>0, AtConcat
<1>8. CheckDecimal(b, p + 1) = Ok(q) /\ Decimal(b, p + 1) = n
  <2>0. p + 1 \in Nat \ {0}
    OBVIOUS
  <2> HIDE DEF n
  <2> QED  BY <1>0, <1>7, <2>0, DecimalAt
<1>9. q \in Nat \ {0}
  <2> HIDE DEF s
  <2> QED  BY <1>4
<1>10. CheckEntries(b)[q][n] = Ok(last) /\ ParseEntries(b)[q][n] = Parsed(last, Array(es))
  <2>1. At(b, q, FlattenSeq([i \in DOMAIN es |-> EncodeValue(es[i])]))
    BY <1>7 DEF t
  <2> HIDE DEF q
  <2>2. /\ CheckEntries(b)[q][Len(es)] = Ok(q + Len(FlattenSeq([i \in DOMAIN es |-> EncodeValue(es[i])])))
        /\ ParseEntries(b)[q][Len(es)] = Parsed(q + Len(FlattenSeq([i \in DOMAIN es |-> EncodeValue(es[i])])), Array(es))
    BY <1>9, <2>1, EntriesAt
  <2> QED  BY <2>2 DEF t
<1>11. last = p + Len(e)
  <2> HIDE DEF s, e
  <2> QED  BY <1>4
<1>12. ~ (p > Len(b))
  BY <1>6
<1>13. Ok(q).status = "ok" /\ Ok(q).next = q
  BY StatusIs
<1> HIDE DEF e, s, q, last, n
<1>14. Check(b, p) = Ok(last)
  BY <1>6, <1>8, <1>10, <1>12, <1>13 DEF Check, CheckEntry
<1>15. Parse(b, p) = Parsed(last, Array(es))
  BY <1>6, <1>8, <1>10, <1>12, <1>13 DEF Parse, ParseEntry
<1>16. Check(b, p) = Ok(p + Len(e)) /\ Parse(b, p) = Parsed(p + Len(e), Array(es))
  BY <1>11, <1>14, <1>15
<1> QED  BY <1>16 DEF e

LEMMA FrameAt ==
    ASSUME NEW b \in Seq(Bytes), NEW p \in Nat \ {0}, NEW frame \in Writable,
           At(b, p, Encode(frame))
    PROVE  /\ Check(b, p) = Ok(p + Len(Encode(frame)))
           /\ Parse(b, p) = Parsed(p + Len(Encode(frame)), frame)
<1>1. CASE frame \in Literal
  <2>1. Encode(frame) = EncodeValue(frame)
    BY <1>1, EncodeIs
  <2>2. Stands(b, p, p + Len(EncodeValue(frame)), frame)
    BY <1>1, <2>1, LiteralAt
  <2> QED  BY <2>1, <2>2 DEF Stands, Check, Parse
<1>2. ASSUME NEW es \in Seq(Literal), frame = Array(es)
      PROVE  /\ Check(b, p) = Ok(p + Len(Encode(frame)))
             /\ Parse(b, p) = Parsed(p + Len(Encode(frame)), frame)
  BY <1>2, ArrayAt
<1> QED  BY <1>1, <1>2, WritableCases

\* What is written before a buffer comes out of it again, whatever is behind.
LEMMA Reread ==
    ASSUME NEW frame \in Writable, NEW rest \in Seq(Bytes)
    PROVE  ParseFrame(Encode(frame) \o rest) =
             [result |-> "frame", frame |-> frame, length |-> Len(Encode(frame))]
<1> DEFINE e == Encode(frame)
           b == e \o rest
<1>1. e \in Seq(Bytes)
  BY Encoded
<1>2. b \in Seq(Bytes) /\ At(b, 1, e) /\ Len(e) \in Nat
  <2> HIDE DEF e
  <2>1. b \in Seq(Bytes) /\ Len(b) = Len(e) + Len(rest) /\ Len(e) \in Nat /\ Len(rest) \in Nat
        /\ \A i \in 1..Len(e) : b[i] = e[i]
    BY <1>1, ConcatIs
  <2> HIDE DEF b
  <2>2. \A i \in 1..Len(e) : b[1 + i - 1] = e[i]
    <3> SUFFICES ASSUME NEW i \in 1..Len(e) PROVE b[1 + i - 1] = e[i]
      OBVIOUS
    <3>1. 1 + i - 1 = i
      BY <2>1
    <3> QED  BY <2>1, <3>1
  <2> QED  BY <2>1, <2>2 DEF At
<1> HIDE DEF b
<1>3. Check(b, 1) = Ok(1 + Len(e)) /\ Parse(b, 1) = Parsed(1 + Len(e), frame)
  BY <1>2, FrameAt
<1>4. Ok(1 + Len(e)).status = "ok" /\ Ok(1 + Len(e)).next = 1 + Len(e)
      /\ Parsed(1 + Len(e), frame).status = "ok" /\ Parsed(1 + Len(e), frame).frame = frame
  BY StatusIs
<1>5. (1 + Len(e)) - 1 = Len(e)
  BY <1>2
<1>6. ParseFrame(b) = [result |-> "frame", frame |-> Parse(b, 1).frame, length |-> Check(b, 1).next - 1]
  <2> HIDE DEF e
  <2> QED  BY <1>2, <1>3, <1>4, ParseFrameIs
<1>7. ParseFrame(b) = [result |-> "frame", frame |-> frame, length |-> Len(e)]
  <2> HIDE DEF e
  <2> QED  BY <1>3, <1>4, <1>5, <1>6
<1> QED  BY <1>7 DEF b

-----------------------------------------------------------------------------
(***************************************************************************)
(* What parse reads can be written, arrays in arrays apart.                *)
(***************************************************************************)

Entry(frame) == frame.kind # "array" => frame \in Literal

ArrayOfEntries(frame) ==
    \E S : (\A s \in S : Entry(s)) /\ \E es \in Seq(S) : frame = Array(es)

Readable(frame) == frame \in Literal \/ ArrayOfEntries(frame)

Reads(r) == r.status = "ok" => Readable(r.frame)

LEMMA ReadableIsEntry == ASSUME NEW frame, Readable(frame) PROVE Entry(frame)
<1>1. ArrayOfEntries(frame) => frame.kind = "array"
  BY DEF ArrayOfEntries, Array
<1> QED  BY <1>1 DEF Readable, Entry

LEMMA LiteralsAre ==
    /\ \A text \in Texts : /\ [kind |-> "simple", value |-> text] \in Literal
                           /\ [kind |-> "error", value |-> text] \in Literal
    /\ \A n \in Nat : Integer(n) \in Literal
    /\ \A bytes \in Seq(Bytes) : Bulk(bytes) \in Literal
    /\ Null \in Literal
<1>1. ASSUME NEW text \in Texts, NEW kind \in {"simple", "error"}
      PROVE  [kind |-> kind, value |-> text] \in Literal
  <2>1. [kind |-> kind, value |-> text] \in [kind : {"simple", "error"}, value : Texts]
    OBVIOUS
  <2> QED  BY <2>1 DEF Literal, Texts
<1>2. ASSUME NEW n \in Nat PROVE Integer(n) \in Literal
  <2>1. <<n>> \in [1..1 -> Nat]
    OBVIOUS
  <2>2. Integer(n) \in [kind : {"integer"}, value : [1..1 -> Nat]]
    BY <2>1 DEF Integer
  <2> QED  BY <2>2 DEF Literal
<1>3. ASSUME NEW bytes \in Seq(Bytes) PROVE Bulk(bytes) \in Literal
  <2>1. Bulk(bytes) \in [kind : {"bulk"}, value : Seq(Bytes)]
    BY DEF Bulk
  <2> QED  BY <2>1 DEF Literal
<1>4. Null \in Literal
  BY DEF Literal
<1> QED  BY <1>1, <1>2, <1>3, <1>4

LEMMA LineIsText ==
    ASSUME NEW b \in Seq(Bytes), NEW p \in Nat \ {0}, LineEnds(b, p) # {},
           "ff" \notin Range(Line(b, p))
    PROVE  Line(b, p) \in Texts
<1> DEFINE line == Line(b, p)
           e == LineEnd(b, p)
<1>1. line \in Seq(Bytes) /\ Len(line) = e - p /\ \A i \in 1..e - p : line[i] = b[p + i - 1]
  BY LineIs
<1>2. e \in p..Len(b) - 1 /\ \A k \in LineEnds(b, p) : e <= k
  <2>1. e \in LineEnds(b, p)
    BY LineEndIs
  <2> HIDE DEF e
  <2>2. e \in p..Len(b) - 1
    BY <2>1 DEF LineEnds
  <2> QED  BY <2>2, LineEndIs DEF e
<1> HIDE DEF e, line
<1>3. ASSUME NEW i \in 1..Len(line) - 1, line[i] = "cr", line[i + 1] = "lf"
      PROVE  FALSE
  <2> DEFINE k == p + i - 1
  <2>1. i \in 1..e - p /\ i + 1 \in 1..e - p /\ p + (i + 1) - 1 = k + 1
    BY <1>1, <1>2
  <2>2. b[k] = "cr"
    BY <1>1, <1>3, <2>1
  <2>3. b[k + 1] = "lf"
    <3>1. line[i + 1] = b[p + (i + 1) - 1]
      BY <1>1, <2>1
    <3> QED  BY <1>3, <2>1, <3>1
  <2>4. k \in p..Len(b) - 1 /\ k < e
    BY <1>1, <1>2
  <2>5. k \in LineEnds(b, p)
    <3> HIDE DEF k
    <3> QED  BY <2>2, <2>3, <2>4 DEF LineEnds
  <2> HIDE DEF k
  <2> QED  BY <1>2, <2>4, <2>5
<1>4. IsLine(line)
  BY <1>3 DEF IsLine, line
<1> QED  BY <1>1, <1>4 DEF Texts, line

LEMMA TextReads ==
    ASSUME NEW b \in Seq(Bytes), NEW p \in Nat \ {0}, NEW kind \in {"simple", "error"}
    PROVE  Reads(ParseText(b, p, kind))
<1>1. CASE CheckLine(b, p).status # "ok"
  BY <1>1 DEF ParseText, Reads
<1>2. CASE CheckLine(b, p).status = "ok" /\ "ff" \in Range(Line(b, p))
  <2>1. ParseText(b, p, kind) = Invalid
    BY <1>2 DEF ParseText
  <2> QED  BY <2>1, StatusIs DEF Reads
<1>3. CASE CheckLine(b, p).status = "ok" /\ "ff" \notin Range(Line(b, p))
  <2> DEFINE frame == [kind |-> kind, value |-> Line(b, p)]
  <2>1. ParseText(b, p, kind) = Parsed(CheckLine(b, p).next, frame)
    BY <1>3 DEF ParseText
  <2>2. LineEnds(b, p) # {}
    BY <1>3, StatusIs DEF CheckLine
  <2>3. Line(b, p) \in Texts
    BY <1>3, <2>2, LineIsText
  <2>4. frame \in Literal
    BY <2>3, LiteralsAre
  <2> HIDE DEF frame
  <2> QED  BY <2>1, <2>4, StatusIs DEF Reads, Readable
<1> QED  BY <1>1, <1>2, <1>3

LEMMA IntegerReads ==
    ASSUME NEW b \in Seq(Bytes), NEW p \in Nat \ {0}
    PROVE  Reads(ParseInteger(b, p))
<1>1. CASE CheckDecimal(b, p).status # "ok"
  BY <1>1 DEF ParseInteger, Reads
<1>2. CASE CheckDecimal(b, p).status = "ok"
  <2>1. ParseInteger(b, p) = Parsed(CheckDecimal(b, p).next, Integer(Decimal(b, p)))
    BY <1>2 DEF ParseInteger
  <2>2. Decimal(b, p) \in Nat
    BY <1>2, CheckDecimalIs, DecimalIs
  <2>3. Integer(Decimal(b, p)) \in Literal
    BY <2>2, LiteralsAre
  <2> QED  BY <2>1, <2>3, StatusIs DEF Reads, Readable
<1> QED  BY <1>1, <1>2

LEMMA NullReads ==
    ASSUME NEW b \in Seq(Bytes), NEW p \in Nat \ {0}
    PROVE  Reads(ParseNull(b, p))
<1>1. CASE CheckLine(b, p).status # "ok"
  BY <1>1 DEF ParseNull, Reads
<1>2. CASE CheckLine(b, p).status = "ok" /\ Line(b, p) # <<"-", "1">>
  <2>1. ParseNull(b, p) = Invalid
    BY <1>2 DEF ParseNull
  <2> QED  BY <2>1, StatusIs DEF Reads
<1>3. CASE CheckLine(b, p).status = "ok" /\ Line(b, p) = <<"-", "1">>
  <2>1. ParseNull(b, p) = Parsed(CheckLine(b, p).next, Null)
    BY <1>3 DEF ParseNull
  <2> QED  BY <2>1, LiteralsAre, StatusIs DEF Reads, Readable
<1> QED  BY <1>1, <1>2, <1>3

LEMMA BytesRead ==
    ASSUME NEW b \in Seq(Bytes), NEW p \in Nat \ {0}
    PROVE  Reads(ParseBytes(b, p))
<1> DEFINE length == CheckDecimal(b, p)
           n == Decimal(b, p)
           bytes == Skip(b, length.next, n + 2)
           text == SubSeq(b, length.next, bytes.next - 3)
<1>0. ParseBytes(b, p) = IF length.status # "ok" THEN length
                         ELSE IF bytes.status # "ok" THEN bytes
                         ELSE Parsed(bytes.next, Bulk(text))
  BY DEF ParseBytes
<1>1. CASE length.status # "ok"
  BY <1>0, <1>1 DEF Reads
<1>2. CASE length.status = "ok" /\ bytes.status # "ok"
  <2> HIDE DEF length, bytes, text
  <2> QED  BY <1>0, <1>2 DEF Reads
<1>3. CASE length.status = "ok" /\ bytes.status = "ok"
  <2>1. n \in Nat
    BY <1>3, CheckDecimalIs, DecimalIs
  <2>2. length \in Found(b, p + 2) /\ p + 2 \in Nat
    BY CheckDecimalIs
  <2>3. length.next \in p + 2..Len(b) + 1
    <3> HIDE DEF length
    <3> QED  BY <1>3, <2>2, FoundIs
  <2>4. bytes \in Found(b, length.next + (n + 2)) /\ length.next + (n + 2) \in Nat
        /\ length.next \in Nat \ {0}
    <3> HIDE DEF length, n
    <3>1. length.next \in Nat \ {0} /\ n + 2 \in Nat /\ length.next + (n + 2) \in Nat
      BY <2>1, <2>3
    <3>2. Skip(b, length.next, n + 2) \in Found(b, length.next + (n + 2))
      BY <3>1, SkipIs
    <3> QED  BY <3>1, <3>2
  <2>5. bytes.next \in Nat /\ bytes.next <= Len(b) + 1
    <3> HIDE DEF length, n, bytes
    <3>1. bytes.next \in length.next + (n + 2)..Len(b) + 1
      BY <1>3, <2>4, FoundIs
    <3> QED  BY <2>4, <3>1
  <2>6. text \in Seq(Bytes)
    <3> DEFINE u == length.next
               v == bytes.next - 3
    <3>1. u \in Nat \ {0} /\ v \in Int /\ v <= Len(b)
      <4> HIDE DEF length, bytes
      <4> QED  BY <2>4, <2>5
    <3> HIDE DEF u, v
    <3>2. \A i \in u..v : i \in 1..Len(b)
      BY <3>1
    <3>3. \A i \in u..v : b[i] \in Bytes
      BY <3>2
    <3>4. SubSeq(b, u, v) \in Seq(Bytes)
      BY <3>1, <3>3, SubSeqProperties
    <3> QED  BY <3>4 DEF u, v
  <2>7. Bulk(text) \in Literal
    <3> HIDE DEF text
    <3> QED  BY <2>6, LiteralsAre
  <2> HIDE DEF length, bytes, text
  <2>8. ParseBytes(b, p) = Parsed(bytes.next, Bulk(text))
    BY <1>0, <1>3
  <2> QED  BY <2>7, <2>8, StatusIs DEF Reads, Readable
<1> QED  BY <1>1, <1>2, <1>3

LEMMA BulkReads ==
    ASSUME NEW b \in Seq(Bytes), NEW p \in Nat \ {0}
    PROVE  Reads(ParseBulk(b, p))
<1>1. CASE p > Len(b)
  BY <1>1, StatusIs DEF ParseBulk, Reads
<1>2. CASE ~ (p > Len(b)) /\ b[p] = "-"
  BY <1>2, NullReads DEF ParseBulk
<1>3. CASE ~ (p > Len(b)) /\ b[p] # "-"
  BY <1>3, BytesRead DEF ParseBulk
<1> QED  BY <1>1, <1>2, <1>3

LEMMA EntryReads ==
    ASSUME NEW b \in Seq(Bytes), NEW p \in 1..Len(b) + 1, NEW f,
           \A q \in p + 1..Len(b) + 1, n \in Nat : Reads(f[q][n])
    PROVE  Reads(ParseEntry(b, p, f))
<1>0. p \in Nat \ {0} /\ p + 1 \in Nat \ {0}
  OBVIOUS
<1>1. CASE p > Len(b)
  BY <1>1, StatusIs DEF ParseEntry, Reads
<1>2. CASE ~ (p > Len(b)) /\ b[p] = "+"
  <2>1. ParseEntry(b, p, f) = ParseText(b, p + 1, "simple")
    BY <1>2 DEF ParseEntry
  <2> QED  BY <1>0, <2>1, TextReads
<1>3. CASE ~ (p > Len(b)) /\ b[p] = "-"
  <2>1. ParseEntry(b, p, f) = ParseText(b, p + 1, "error")
    BY <1>3 DEF ParseEntry
  <2> QED  BY <1>0, <2>1, TextReads
<1>4. CASE ~ (p > Len(b)) /\ b[p] = ":"
  <2>1. ParseEntry(b, p, f) = ParseInteger(b, p + 1)
    BY <1>4 DEF ParseEntry
  <2> QED  BY <1>0, <2>1, IntegerReads
<1>5. CASE ~ (p > Len(b)) /\ b[p] = "$"
  <2>1. ParseEntry(b, p, f) = ParseBulk(b, p + 1)
    BY <1>5 DEF ParseEntry
  <2> QED  BY <1>0, <2>1, BulkReads
<1>6. CASE ~ (p > Len(b)) /\ b[p] = "*"
  <2> DEFINE length == CheckDecimal(b, p + 1)
             n == Decimal(b, p + 1)
  <2>1. ParseEntry(b, p, f) = IF length.status # "ok" THEN length ELSE f[length.next][n]
    BY <1>6 DEF ParseEntry
  <2>2. CASE length.status # "ok"
    BY <2>1, <2>2 DEF Reads
  <2>3. CASE length.status = "ok"
    <3>1. n \in Nat
      BY <1>0, <2>3, CheckDecimalIs, DecimalIs
    <3>2. length \in Found(b, (p + 1) + 2) /\ (p + 1) + 2 \in Nat
      BY <1>0, CheckDecimalIs
    <3>3. length.next \in (p + 1) + 2..Len(b) + 1
      <4> HIDE DEF length
      <4> QED  BY <2>3, <3>2, FoundIs
    <3>4. length.next \in p + 1..Len(b) + 1
      <4> HIDE DEF length
      <4> QED  BY <1>0, <3>3
    <3> HIDE DEF length, n
    <3>5. Reads(f[length.next][n])
      BY <3>1, <3>4
    <3> QED  BY <2>1, <2>3, <3>5
  <2> QED  BY <2>2, <2>3
<1>7. CASE ~ (p > Len(b)) /\ b[p] \notin {"+", "-", ":", "$", "*"}
  <2>1. ParseEntry(b, p, f) = [status |-> "panic", next |-> 0]
    BY <1>7 DEF ParseEntry
  <2> QED  BY <2>1 DEF Reads
<1> QED  BY <1>1, <1>2, <1>3, <1>4, <1>5, <1>6, <1>7

LEMMA BeforeReads ==
    ASSUME NEW entry, NEW rest, Readable(entry.frame),
           rest.status = "ok" => ArrayOfEntries(rest.frame)
    PROVE  Before(entry, rest).status = "ok" => ArrayOfEntries(Before(entry, rest).frame)
<1> SUFFICES ASSUME Before(entry, rest).status = "ok"
             PROVE  ArrayOfEntries(Before(entry, rest).frame)
  OBVIOUS
<1>1. rest.status = "ok"
  BY BeforeIs
<1> DEFINE x == entry.frame
           frame == Array(<<x>> \o rest.frame.value)
<1>2. Before(entry, rest) = Parsed(rest.next, frame)
  BY <1>1, BeforeIs
<1>3. Before(entry, rest).frame = frame
  <2> HIDE DEF frame
  <2> QED  BY <1>2, StatusIs
<1>4. PICK S : (\A s \in S : Entry(s)) /\ \E es \in Seq(S) : rest.frame = Array(es)
  BY <1>1 DEF ArrayOfEntries
<1>5. PICK es \in Seq(S) : rest.frame = Array(es)
  BY <1>4
<1>6. rest.frame.value = es
  BY <1>5 DEF Array
<1> DEFINE T == S \cup {x}
<1>7. Entry(x)
  BY ReadableIsEntry
<1>8. \A s \in T : Entry(s)
  BY <1>4, <1>7
<1>9. <<x>> \o es \in Seq(T)
  <2> HIDE DEF x
  <2>1. S \subseteq T /\ x \in T
    OBVIOUS
  <2> HIDE DEF T
  <2>2. es \in Seq(T)
    <3>1. \A i \in 1..Len(es) : es[i] \in T
      BY <2>1, ElementOfSeq
    <3> QED  BY <3>1
  <2>3. <<x>> \in Seq(T)
    BY <2>1
  <2> DEFINE u == <<x>>
  <2> HIDE DEF u
  <2>4. u \o es \in Seq(T)
    BY <2>2, <2>3, ConcatIs DEF u
  <2> QED  BY <2>4 DEF u
<1>10. frame = Array(<<x>> \o es)
  BY <1>6
<1> HIDE DEF x, T, frame
<1>11. ArrayOfEntries(frame)
  BY <1>8, <1>9, <1>10 DEF ArrayOfEntries
<1> QED  BY <1>3, <1>11

LEMMA EntriesRead ==
    ASSUME NEW b \in Seq(Bytes)
    PROVE  \A p \in 1..Len(b) + 1, n \in Nat :
             ParseEntries(b)[p][n].status = "ok" => ArrayOfEntries(ParseEntries(b)[p][n].frame)
<1> DEFINE m == Len(b) + 1
           parse == ParseEntries(b)
           ReadsArray(r) == r.status = "ok" => ArrayOfEntries(r.frame)
           N == {p \in 1..m : \A n \in Nat : ReadsArray(parse[p][n])}
<1>1. ASSUME NEW p \in 1..m, (p + 1)..m \subseteq N
      PROVE  p \in N
  <2>1. \A q \in p + 1..Len(b) + 1, n \in Nat : ReadsArray(parse[q][n])
    BY <1>1
  <2>2. parse[p] = ParsedRow(b, p, parse)
    BY ParseEntriesIs
  <2>3. \A q \in p + 1..Len(b) + 1, n \in Nat : Reads(parse[q][n])
    BY <2>1 DEF Reads, Readable
  <2>4. \A q \in p + 1..Len(b) + 1 :
          parse[q] = parse[q] /\ \A n \in Nat : Onward(b, q, parse[q][n])
    BY ParseEntriesIs
  <2> HIDE DEF parse
  <2> DEFINE entry == ParseEntry(b, p, parse)
  <2>5. Reads(entry)
    BY <2>3, EntryReads
  <2>6. Onward(b, p + 1, entry)
    BY <2>4, ParseEntryIs
  <2>7. \A n \in Nat : parse[p][n] = IF n = 0 THEN Parsed(p, Array(<<>>))
                                     ELSE IF entry.status # "ok" THEN entry
                                     ELSE Before(entry, parse[entry.next][n - 1])
    BY <2>2 DEF ParsedRow
  <2> HIDE DEF entry
  <2>8. ASSUME NEW n \in Nat
        PROVE  ReadsArray(parse[p][n])
    <3>1. CASE n = 0
      <4>1. parse[p][n] = Parsed(p, Array(<<>>))
        BY <2>7, <3>1
      <4>2. ArrayOfEntries(Array(<<>>))
        <5>1. <<>> \in Seq({}) /\ \A s \in {} : Entry(s)
          OBVIOUS
        <5> QED  BY <5>1 DEF ArrayOfEntries
      <4> QED  BY <4>1, <4>2, StatusIs
    <3>2. CASE n # 0 /\ entry.status # "ok"
      <4>1. parse[p][n] = entry
        BY <2>7, <3>2
      <4> QED  BY <3>2, <4>1
    <3>3. CASE n # 0 /\ entry.status = "ok"
      <4>1. n - 1 \in Nat /\ entry.next \in p + 1..Len(b) + 1
        BY <2>6, <3>3 DEF Onward
      <4> DEFINE rest == parse[entry.next][n - 1]
      <4>2. ReadsArray(rest)
        BY <2>1, <4>1
      <4>3. parse[p][n] = Before(entry, rest)
        BY <2>7, <3>3
      <4>4. Readable(entry.frame)
        BY <2>5, <3>3 DEF Reads
      <4> HIDE DEF rest
      <4>5. ReadsArray(Before(entry, rest))
        BY <4>2, <4>4, BeforeReads
      <4> QED  BY <4>3, <4>5
    <3> QED  BY <3>1, <3>2, <3>3
  <2> QED  BY <2>8 DEF parse
<1>2. N = 1..m
  <2>1. N \in SUBSET (1..m) /\ m \in Nat
    OBVIOUS
  <2> HIDE DEF N, m
  <2> QED  BY <1>1, <2>1, DownInduct
<1> QED  BY <1>2

LEMMA EncodableIsWritable ==
    ASSUME NEW frame, Readable(frame), Encodable(frame)
    PROVE  frame \in Writable
<1>1. CASE frame \in Literal
  BY <1>1 DEF Writable
<1>2. CASE ArrayOfEntries(frame)
  <2>1. PICK S : (\A s \in S : Entry(s)) /\ \E es \in Seq(S) : frame = Array(es)
    BY <1>2 DEF ArrayOfEntries
  <2>2. PICK es \in Seq(S) : frame = Array(es)
    BY <2>1
  <2>3. frame.kind = "array" /\ frame.value = es
    BY <2>2 DEF Array
  <2>4. \A entry \in Range(es) : entry.kind # "array"
    BY <2>3 DEF Encodable
  <2>5. \A i \in 1..Len(es) : es[i] \in Literal
    <3> SUFFICES ASSUME NEW i \in 1..Len(es) PROVE es[i] \in Literal
      OBVIOUS
    <3>1. es[i] \in S /\ es[i] \in Range(es)
      BY ElementOfSeq DEF Range
    <3> QED  BY <2>1, <2>4, <3>1 DEF Entry
  <2>6. es \in Seq(Literal)
    BY <2>5
  <2>7. Array(es) \in [kind : {"array"}, value : Seq(Literal)]
    BY <2>6 DEF Array
  <2> QED  BY <2>2, <2>7 DEF Writable
<1> QED  BY <1>1, <1>2 DEF Readable

LEMMA ParseReads == ASSUME NEW b \in Seq(Bytes) PROVE Reads(Parse(b, 1))
<1>1. 1 \in 1..Len(b) + 1
  BY LenProperties
<1>2. \A q \in 1 + 1..Len(b) + 1, n \in Nat : Reads(ParseEntries(b)[q][n])
  <2> SUFFICES ASSUME NEW q \in 1 + 1..Len(b) + 1, NEW n \in Nat
               PROVE  Reads(ParseEntries(b)[q][n])
    OBVIOUS
  <2>1. q \in 1..Len(b) + 1
    OBVIOUS
  <2> QED  BY <2>1, EntriesRead DEF Reads, Readable
<1> QED  BY <1>1, <1>2, EntryReads DEF Parse

\* A frame that was read, when written, is read again as the same frame and
\* to its last byte (frame.rs:106-169; connection.rs:157-237).
THEOREM ReadFramesRoundTrip == ReaderSpec => []RoundTrip
<1>1. ASSUME InputIsBytes PROVE RoundTrip
  <2> DEFINE read == ParseFrame(input)
             frame == read.frame
             e == Encode(frame)
  <2> SUFFICES ASSUME read.result = "frame", Encodable(frame)
               PROVE  /\ ParseFrame(e).result = "frame"
                      /\ ParseFrame(e).frame = frame
                      /\ ParseFrame(e).length = Len(e)
    BY DEF RoundTrip
  <2>1. input \in Seq(Bytes)
    BY <1>1 DEF InputIsBytes
  <2>2. Parse(input, 1).status = "ok" /\ frame = Parse(input, 1).frame
    BY <2>1, ParseFrameIs
  <2>3. Readable(frame)
    BY <2>1, <2>2, ParseReads DEF Reads
  <2> HIDE DEF frame
  <2>4. frame \in Writable
    BY <2>3, EncodableIsWritable
  <2>5. e \in Seq(Bytes) /\ <<>> \in Seq(Bytes)
    BY <2>4, Encoded
  <2>6. e \o <<>> = e
    <3> HIDE DEF e
    <3> QED  BY <2>5, ConcatEmptySeq
  <2>7. ParseFrame(e \o <<>>) = [result |-> "frame", frame |-> frame, length |-> Len(e)]
    BY <2>4, <2>5, Reread
  <2>8. ParseFrame(e) = [result |-> "frame", frame |-> frame, length |-> Len(e)]
    BY <2>6, <2>7
  <2> QED  BY <2>8
<1> QED  BY <1>1, InputInvariant, PTL

-----------------------------------------------------------------------------
(***************************************************************************)
(* Sequences, cut and joined.                                              *)
(***************************************************************************)

LEMMA Split ==
    ASSUME NEW S, NEW s \in Seq(S), NEW n \in 0..Len(s)
    PROVE  /\ SubSeq(s, 1, n) \in Seq(S) /\ Len(SubSeq(s, 1, n)) = n
           /\ SubSeq(s, n + 1, Len(s)) \in Seq(S) /\ Len(SubSeq(s, n + 1, Len(s))) = Len(s) - n
           /\ SubSeq(s, 1, n) \o SubSeq(s, n + 1, Len(s)) = s
<1>0. Len(s) \in Nat /\ n \in Nat /\ n <= Len(s)
  BY LenProperties
<1>1. SubSeq(s, 1, n) \in Seq(S) /\ Len(SubSeq(s, 1, n)) = n
  <2>1. \A i \in 1..n : s[i] \in S
    BY <1>0, ElementOfSeq
  <2> QED  BY <1>0, <2>1, SubSeqProperties
<1>2. SubSeq(s, n + 1, Len(s)) \in Seq(S) /\ Len(SubSeq(s, n + 1, Len(s))) = Len(s) - n
  <2>1. \A i \in n + 1..Len(s) : s[i] \in S
    BY <1>0, ElementOfSeq
  <2>2. n + 1 \in Int /\ Len(s) \in Int
    BY <1>0
  <2>3. /\ SubSeq(s, n + 1, Len(s)) \in Seq(S)
        /\ Len(SubSeq(s, n + 1, Len(s))) = IF n + 1 <= Len(s) THEN Len(s) - (n + 1) + 1 ELSE 0
    BY <2>1, <2>2, SubSeqProperties
  <2> QED  BY <1>0, <2>3
<1>3. SubSeq(s, 1, n) \o SubSeq(s, n + 1, Len(s)) = SubSeq(s, 1, Len(s))
  <2>1. 1 \in 1..Len(s) + 1 /\ n \in 1 - 1..Len(s) /\ Len(s) \in n..Len(s)
    BY <1>0
  <2> QED  BY <2>1, ConcatAdjacentSubSeq
<1>4. SubSeq(s, 1, Len(s)) = s
  BY SubSeqFull
<1> QED  BY <1>1, <1>2, <1>3, <1>4

LEMMA TakeFirst ==
    ASSUME NEW S, NEW s \in Seq(S), NEW t \in Seq(S)
    PROVE  SubSeq(s \o t, 1, Len(s)) = s
<1>1. CASE s = <<>>
  <2>1. Len(s) = 0
    BY <1>1, EmptySeq
  <2>2. SubSeq(s \o t, 1, 0) = <<>>
    BY SubSeqEmpty
  <2> QED  BY <1>1, <2>1, <2>2
<1>2. CASE s # <<>>
  <2>1. Len(s) \in Nat \ {0}
    BY <1>2, EmptySeq
  <2>2. 1 \in 1..Len(s) /\ Len(s) \in 1..Len(s)
    BY <2>1
  <2>3. SubSeq(s \o t, 1, Len(s)) = SubSeq(s, 1, Len(s))
    BY <2>2, SubSeqOfConcat1
  <2> QED  BY <2>3, SubSeqFull
<1> QED  BY <1>1, <1>2

LEMMA AppendWithin ==
    ASSUME NEW S, NEW s \in Seq(S), NEW k \in Nat, k + 1 <= Len(s)
    PROVE  /\ SubSeq(s, 1, k) \in Seq(S) /\ SubSeq(s, 1, k + 1) \in Seq(S)
           /\ s[k + 1] \in S
           /\ SubSeq(s, 1, k + 1) = Append(SubSeq(s, 1, k), s[k + 1])
<1>0. Len(s) \in Nat /\ k \in 0..Len(s) /\ k + 1 \in 0..Len(s) /\ k + 1 \in 1..Len(s)
  BY LenProperties
<1>1. SubSeq(s, 1, k) \in Seq(S) /\ SubSeq(s, 1, k + 1) \in Seq(S)
  BY <1>0, Split
<1>2. s[k + 1] \in S
  BY <1>0, ElementOfSeq
<1>3. SubSeq(s, 1, k + 1) = SubSeq(s, 1, (k + 1) - 1) \o <<s[k + 1]>>
  <2>1. 1 \in 1..Len(s) /\ k + 1 \in 1..Len(s)
    BY <1>0
  <2> QED  BY <2>1, SubSeqRecursiveSecond
<1>4. (k + 1) - 1 = k
  OBVIOUS
<1>5. SubSeq(s, 1, k + 1) = SubSeq(s, 1, k) \o <<s[k + 1]>>
  BY <1>3, <1>4
<1>6. Append(SubSeq(s, 1, k), s[k + 1]) = SubSeq(s, 1, k) \o <<s[k + 1]>>
  BY <1>1, <1>2, AppendIsConcat
<1> QED  BY <1>1, <1>2, <1>5, <1>6

LEMMA AppendOfConcat ==
    ASSUME NEW S, NEW s \in Seq(S), NEW t \in Seq(S), NEW x \in S
    PROVE  s \o Append(t, x) = Append(s \o t, x)
<1> DEFINE u == <<x>>
<1>1. u \in Seq(S)
  OBVIOUS
<1>2. Append(t, x) = t \o u /\ s \o t \in Seq(S)
  BY AppendIsConcat, ConcatIs
<1>3. Append(s \o t, x) = (s \o t) \o u
  BY <1>2, AppendIsConcat
<1> HIDE DEF u
<1>4. (s \o t) \o u = s \o (t \o u)
  BY <1>1, ConcatAssociative
<1> QED  BY <1>2, <1>3, <1>4

-----------------------------------------------------------------------------
(***************************************************************************)
(* What is behind a frame, or what is in front of its end.                 *)
(***************************************************************************)

LEMMA Extends ==
    ASSUME NEW b \in Seq(Bytes), NEW t \in Seq(Bytes), ~ Undecided(b)
    PROVE  ParseFrame(b \o t) = ParseFrame(b)
<1> DEFINE n == Len(t)
           N == {k \in Nat : k <= n => ParseFrame(b \o SubSeq(t, 1, k)) = ParseFrame(b)}
<1>0. n \in Nat
  BY LenProperties
<1>1. 0 \in N
  <2>1. SubSeq(t, 1, 0) = <<>> /\ b \o <<>> = b
    BY SubSeqEmpty, ConcatEmptySeq
  <2> QED  BY <2>1
<1>2. ASSUME NEW k \in N PROVE k + 1 \in N
  <2>1. CASE k + 1 <= n
    <3> DEFINE s == SubSeq(t, 1, k)
               x == t[k + 1]
    <3>1. k \in Nat /\ k <= n
      BY <1>0, <2>1
    <3>2. ParseFrame(b \o s) = ParseFrame(b)
      BY <3>1
    <3> HIDE DEF N
    <3>3. s \in Seq(Bytes) /\ x \in Bytes /\ SubSeq(t, 1, k + 1) = Append(s, x)
      BY <2>1, <3>1, AppendWithin
    <3> HIDE DEF s, x
    <3> DEFINE c == b \o s
    <3>4. c \in Seq(Bytes) /\ b \o Append(s, x) = Append(c, x)
      BY <3>3, ConcatIs, AppendOfConcat
    <3> HIDE DEF c
    <3>5. ParseFrame(c) = ParseFrame(b) /\ ~ Undecided(c)
      BY <3>2 DEF c, Undecided
    <3>6. ParseFrame(Append(c, x)) = ParseFrame(c)
      BY <3>3, <3>4, <3>5, ParseFrameStays
    <3>7. ParseFrame(b \o SubSeq(t, 1, k + 1)) = ParseFrame(b)
      BY <3>3, <3>4, <3>5, <3>6
    <3> QED  BY <3>1, <3>7 DEF N
  <2>2. CASE ~ (k + 1 <= n)
    BY <2>2
  <2> QED  BY <2>1, <2>2
<1>3. N = Nat
  <2>1. N \in SUBSET Nat
    OBVIOUS
  <2> HIDE DEF N
  <2> QED  BY <1>1, <1>2, <2>1, NatInduct
<1>4. n \in N /\ n <= n
  <2> HIDE DEF N
  <2> QED  BY <1>0, <1>3
<1>5. ParseFrame(b \o SubSeq(t, 1, n)) = ParseFrame(b)
  BY <1>4
<1> QED  BY <1>5, SubSeqFull

LEMMA EmptyUndecided == Undecided(<<>>)
<1>1. <<>> \in Seq(Bytes) /\ Len(<<>>) = 0
  BY EmptySeq
<1>2. Check(<<>>, 1) = Incomplete
  BY <1>1 DEF Check, CheckEntry
<1>3. ParseFrame(<<>>) = [result |-> "none"]
  BY <1>1, <1>2, StatusIs, ParseFrameIs
<1> QED  BY <1>3 DEF Undecided

LEMMA MalformedIs ==
    /\ Malformed \in Seq(Bytes) /\ Malformed # <<>>
    /\ ParseFrame(Malformed).result = "error"
<1>1. Malformed \in Seq(Bytes) /\ Len(Malformed) = 1 /\ Malformed[1] = "?"
  BY FramesAssumption DEF Malformed
<1>2. Check(Malformed, 1) = Invalid
  <2>1. ~ (1 > Len(Malformed))
    BY <1>1
  <2> QED  BY <1>1, <2>1 DEF Check, CheckEntry
<1>3. ParseFrame(Malformed) = [result |-> "error"]
  BY <1>1, <1>2, StatusIs, ParseFrameIs
<1>4. Malformed # <<>>
  <2>1. Len(<<>>) = 0
    OBVIOUS
  <2> QED  BY <1>1, <2>1
<1>5. ParseFrame(Malformed).result = "error"
  BY <1>3
<1> QED  BY <1>1, <1>4, <1>5

LEMMA FrameLength ==
    ASSUME NEW b \in Seq(Bytes), ParseFrame(b).result = "frame"
    PROVE  ParseFrame(b).length \in Nat /\ ParseFrame(b).length <= Len(b)
<1>1. /\ Check(b, 1).status = "ok"
      /\ ParseFrame(b).length = Check(b, 1).next - 1
  BY ParseFrameIs
<1>2. 1 \in 1..Len(b) + 1 /\ 1 + 1 \in Nat /\ Len(b) \in Nat
  BY LenProperties
<1>3. Check(b, 1) \in Found(b, 1 + 1)
  BY <1>2, CheckAgreesWithParse
<1>4. Check(b, 1).next \in 1 + 1..Len(b) + 1
  BY <1>1, <1>2, <1>3, FoundIs
<1> QED  BY <1>1, <1>2, <1>4

\* The beginning of a frame is not a frame, nor an error.
LEMMA PartUndecided ==
    ASSUME NEW frame \in Writable, NEW b \in Seq(Bytes), NEW t \in Seq(Bytes),
           t # <<>>, b \o t = Encode(frame)
    PROVE  Undecided(b)
<1> SUFFICES ASSUME ~ Undecided(b)
             PROVE  FALSE
  OBVIOUS
<1> DEFINE e == Encode(frame)
<1>1. e \in Seq(Bytes) /\ <<>> \in Seq(Bytes)
  BY Encoded, EmptySeq
<1>2. e \o <<>> = e
  BY <1>1, ConcatEmptySeq
<1>3. ParseFrame(e) = [result |-> "frame", frame |-> frame, length |-> Len(e)]
  BY <1>1, <1>2, Reread
<1>4. ParseFrame(b) = ParseFrame(e)
  BY Extends
<1>5. Len(e) <= Len(b)
  BY <1>3, <1>4, FrameLength
<1>6. Len(e) = Len(b) + Len(t) /\ Len(t) \in Nat \ {0} /\ Len(b) \in Nat
  BY ConcatIs, EmptySeq
<1> QED  BY <1>5, <1>6

-----------------------------------------------------------------------------
(***************************************************************************)
(* The encoding of several frames.                                         *)
(***************************************************************************)

LEMMA EncodingType ==
    ASSUME NEW fs \in Seq(Writable)
    PROVE  [i \in DOMAIN fs |-> Encode(fs[i])] \in Seq(Seq(Bytes)) /\ Encoding(fs) \in Seq(Bytes)
<1> DEFINE n == Len(fs)
           ss == [i \in DOMAIN fs |-> Encode(fs[i])]
<1>1. n \in Nat /\ DOMAIN fs = 1..n /\ \A i \in 1..n : fs[i] \in Writable
  BY LenProperties, ElementOfSeq
<1>2. ss \in Seq(Seq(Bytes))
  <2>1. \A i \in 1..n : Encode(fs[i]) \in Seq(Bytes)
    BY <1>1, Encoded
  <2>2. ss = [i \in 1..n |-> Encode(fs[i])]
    BY <1>1
  <2>3. ss \in [1..n -> Seq(Bytes)]
    BY <2>1, <2>2
  <2> HIDE DEF ss, n
  <2> QED  BY <1>1, <2>3
<1>3. FlattenSeq(ss) \in Seq(Bytes)
  <2> HIDE DEF ss
  <2> QED  BY <1>2, FlattenType
<1> QED  BY <1>2, <1>3 DEF Encoding

LEMMA EncodingEmpty == Encoding(<<>>) = <<>>
<1>1. [i \in DOMAIN <<>> |-> Encode(<<>>[i])] = <<>>
  OBVIOUS
<1> QED  BY <1>1, FlattenEmpty DEF Encoding

LEMMA EncodingAppend ==
    ASSUME NEW fs \in Seq(Writable), NEW frame \in Writable
    PROVE  Encoding(Append(fs, frame)) = Encoding(fs) \o Encode(frame)
<1> DEFINE n == Len(fs)
           gs == Append(fs, frame)
           ss == [i \in DOMAIN fs |-> Encode(fs[i])]
           tt == [i \in DOMAIN gs |-> Encode(gs[i])]
           e == Encode(frame)
<1>1. n \in Nat /\ DOMAIN fs = 1..n
  BY LenProperties
<1>2. gs \in Seq(Writable) /\ Len(gs) = n + 1 /\ DOMAIN gs = 1..n + 1
      /\ (\A i \in 1..n : gs[i] = fs[i]) /\ gs[n + 1] = frame
  <2>1. gs \in Seq(Writable) /\ Len(gs) = n + 1
        /\ (\A i \in 1..n : gs[i] = fs[i]) /\ gs[n + 1] = frame
    BY AppendProperties
  <2> HIDE DEF gs
  <2> QED  BY <2>1, LenProperties
<1>3. ss \in Seq(Seq(Bytes)) /\ tt \in Seq(Seq(Bytes)) /\ e \in Seq(Bytes)
  <2>1. ss \in Seq(Seq(Bytes)) /\ e \in Seq(Bytes)
    BY EncodingType, Encoded
  <2> HIDE DEF gs
  <2>2. tt \in Seq(Seq(Bytes))
    BY <1>2, EncodingType
  <2> QED  BY <2>1, <2>2
<1>4. Len(ss) = n /\ Len(tt) = n + 1
  <2>1. DOMAIN ss = 1..n /\ DOMAIN tt = 1..n + 1
    BY <1>1, <1>2
  <2> HIDE DEF ss, tt, n
  <2> QED  BY <1>1, <1>3, <2>1, LenProperties
<1>5. \A i \in 1..n : tt[i] = ss[i]
  <2> HIDE DEF gs
  <2> QED  BY <1>1, <1>2
<1>6. tt[n + 1] = e
  <2> HIDE DEF gs
  <2> QED  BY <1>1, <1>2
<1> HIDE DEF ss, tt, e, gs, n
<1>7. Append(ss, e) \in Seq(Seq(Bytes)) /\ Len(Append(ss, e)) = n + 1
      /\ (\A i \in 1..n : Append(ss, e)[i] = ss[i]) /\ Append(ss, e)[n + 1] = e
  BY <1>3, <1>4, AppendProperties
<1>8. tt = Append(ss, e)
  <2>1. \A i \in 1..n + 1 : tt[i] = Append(ss, e)[i]
    <3> SUFFICES ASSUME NEW i \in 1..n + 1 PROVE tt[i] = Append(ss, e)[i]
      OBVIOUS
    <3>1. i \in 1..n \/ i = n + 1
      BY <1>1
    <3> QED  BY <1>5, <1>6, <1>7, <3>1
  <2> QED  BY <1>3, <1>4, <1>7, <2>1, SeqEqual
<1>9. FlattenSeq(tt) = FlattenSeq(ss) \o e
  BY <1>3, <1>8, FlattenAppend
<1> QED  BY <1>9 DEF Encoding, ss, tt, e, gs

LEMMA EncodingConcat ==
    ASSUME NEW s \in Seq(Writable), NEW t \in Seq(Writable)
    PROVE  Encoding(s \o t) = Encoding(s) \o Encoding(t)
<1> DEFINE n == Len(t)
           Take(k) == SubSeq(t, 1, k)
           N == {k \in Nat : k <= n => Encoding(s \o Take(k)) = Encoding(s) \o Encoding(Take(k))}
<1>0. n \in Nat /\ Encoding(s) \in Seq(Bytes)
  BY LenProperties, EncodingType
<1>1. 0 \in N
  <2>1. Take(0) = <<>> /\ s \o <<>> = s /\ Encoding(s) \o <<>> = Encoding(s)
    BY <1>0, SubSeqEmpty, ConcatEmptySeq
  <2> QED  BY <2>1, EncodingEmpty
<1>2. ASSUME NEW k \in N PROVE k + 1 \in N
  <2>1. CASE k + 1 <= n
    <3> DEFINE u == Take(k)
               x == t[k + 1]
    <3>1. k \in Nat /\ k <= n
      BY <1>0, <2>1
    <3>2. Encoding(s \o u) = Encoding(s) \o Encoding(u)
      BY <3>1
    <3> HIDE DEF N
    <3>3. u \in Seq(Writable) /\ x \in Writable /\ Take(k + 1) = Append(u, x)
      BY <2>1, <3>1, AppendWithin
    <3> HIDE DEF Take, u, x
    <3>4. s \o Append(u, x) = Append(s \o u, x) /\ s \o u \in Seq(Writable)
      BY <3>3, AppendOfConcat, ConcatIs
    <3>5. Encoding(Append(s \o u, x)) = Encoding(s \o u) \o Encode(x)
      BY <3>3, <3>4, EncodingAppend
    <3>6. Encoding(Append(u, x)) = Encoding(u) \o Encode(x)
      BY <3>3, EncodingAppend
    <3>7. (Encoding(s) \o Encoding(u)) \o Encode(x) = Encoding(s) \o (Encoding(u) \o Encode(x))
      <4>1. Encoding(u) \in Seq(Bytes) /\ Encode(x) \in Seq(Bytes)
        BY <3>3, EncodingType, Encoded
      <4> QED  BY <1>0, <4>1, ConcatAssociative
    <3>8. Encoding(s \o Take(k + 1)) = Encoding(s) \o Encoding(Take(k + 1))
      BY <3>2, <3>3, <3>4, <3>5, <3>6, <3>7
    <3> QED  BY <3>1, <3>8 DEF N
  <2>2. CASE ~ (k + 1 <= n)
    BY <2>2
  <2> QED  BY <2>1, <2>2
<1>3. N = Nat
  <2>1. N \in SUBSET Nat
    OBVIOUS
  <2> HIDE DEF N
  <2> QED  BY <1>1, <1>2, <2>1, NatInduct
<1>4. n \in N /\ n <= n
  <2> HIDE DEF N
  <2> QED  BY <1>0, <1>3
<1>5. Encoding(s \o Take(n)) = Encoding(s) \o Encoding(Take(n))
  BY <1>4
<1> QED  BY <1>5, SubSeqFull

LEMMA EncodingOne ==
    ASSUME NEW frame \in Writable
    PROVE  Encoding(<<frame>>) = Encode(frame)
<1>1. <<>> \in Seq(Writable) /\ Append(<<>>, frame) = <<frame>> /\ Encode(frame) \in Seq(Bytes)
  BY EmptySeq, Encoded
<1>2. Encoding(<<frame>>) = <<>> \o Encode(frame)
  BY <1>1, EncodingAppend, EncodingEmpty
<1> QED  BY <1>1, <1>2, ConcatEmptySeq

LEMMA EncodingFirst ==
    ASSUME NEW fs \in Seq(Writable), fs # <<>>
    PROVE  /\ fs[1] \in Writable
           /\ Tail(fs) \in Seq(Writable)
           /\ Encoding(fs) = Encode(fs[1]) \o Encoding(Tail(fs))
<1>1. Len(fs) \in Nat \ {0}
  BY EmptySeq
<1>2. fs[1] \in Writable /\ Tail(fs) \in Seq(Writable)
  <2>1. 1 \in 1..Len(fs)
    BY <1>1
  <2> QED  BY <2>1, ElementOfSeq, HeadTailProperties
<1>3. fs = <<fs[1]>> \o Tail(fs)
  <2>1. 1 \in 1..Len(fs) /\ Len(fs) \in 1..Len(fs)
    BY <1>1
  <2>2. SubSeq(fs, 1, Len(fs)) = <<fs[1]>> \o SubSeq(fs, 1 + 1, Len(fs))
    BY <2>1, SubSeqRecursiveFirst
  <2>3. Tail(fs) = SubSeq(fs, 2, Len(fs)) /\ SubSeq(fs, 1, Len(fs)) = fs
    BY TailIsSubSeq, SubSeqFull
  <2> QED  BY <2>2, <2>3
<1> DEFINE x == <<fs[1]>>
           t == Tail(fs)
<1>4. x \in Seq(Writable)
  BY <1>2
<1>5. Encoding(x) = Encode(fs[1])
  BY <1>2, EncodingOne
<1>6. Encoding(x \o t) = Encoding(x) \o Encoding(t)
  <2> HIDE DEF x, t
  <2>1. t \in Seq(Writable)
    BY <1>2 DEF t
  <2> QED  BY <1>4, <2>1, EncodingConcat
<1> QED  BY <1>2, <1>3, <1>5, <1>6

\* What is left of an encoding when it is cut anywhere: whole frames, and the
\* beginning of the next one.
PartOf(rest, frame) ==
    /\ rest \in Seq(Bytes) /\ rest # <<>>
    /\ \E t \in Seq(Bytes) : t # <<>> /\ rest \o t = Encode(frame)

LEMMA WholeWithinIs ==
    ASSUME NEW fs \in Seq(Writable), NEW m \in Nat
    PROVE  /\ WholeWithin(fs, m) \in 0..Len(fs)
           /\ Len(Encoding(SubSeq(fs, 1, WholeWithin(fs, m)))) <= m
           /\ \A k \in 0..Len(fs) : Len(Encoding(SubSeq(fs, 1, k))) <= m => k <= WholeWithin(fs, m)
<1> DEFINE K == {k \in 0..Len(fs) : Len(Encoding(SubSeq(fs, 1, k))) <= m}
<1>1. Len(fs) \in Nat
  BY LenProperties
<1>2. 0 \in K
  <2>1. SubSeq(fs, 1, 0) = <<>>
    BY SubSeqEmpty
  <2>2. Len(Encoding(SubSeq(fs, 1, 0))) = 0
    BY <2>1, EncodingEmpty, EmptySeq
  <2> QED  BY <1>1, <2>2
<1>3. K \in SUBSET (0..Len(fs)) /\ K # {}
  BY <1>2
<1>4. Max(K) \in K /\ \A k \in K : k <= Max(K)
  <2> HIDE DEF K
  <2> QED  BY <1>1, <1>3, NatMax
<1>5. WholeWithin(fs, m) = Max(K)
  BY DEF WholeWithin
<1> QED  BY <1>4, <1>5

LEMMA Associative ==
    \A s, t, u \in Seq(Bytes) : (s \o t) \o u = s \o (t \o u)
  BY ConcatAssociative

LEMMA CutIs ==
    ASSUME NEW fs \in Seq(Writable), NEW b \in Seq(Bytes), NEW t \in Seq(Bytes),
           b \o t = Encoding(fs)
    PROVE  LET k == WholeWithin(fs, Len(b))
               e == Encoding(SubSeq(fs, 1, k))
           IN  /\ k \in 0..Len(fs)
               /\ ~ (Len(e) < Len(b)) => b = e
               /\ Len(e) < Len(b) => /\ k < Len(fs)
                                     /\ \E rest : b = e \o rest /\ PartOf(rest, fs[k + 1])
<1> DEFINE m == Len(b)
           n == Len(fs)
           k == WholeWithin(fs, m)
           front == SubSeq(fs, 1, k)
           back == SubSeq(fs, k + 1, n)
           e == Encoding(front)
           f == Encoding(back)
<1>0. m \in Nat /\ n \in Nat
  BY LenProperties
<1>1. k \in 0..n /\ Len(e) <= m /\ \A j \in 0..n : Len(Encoding(SubSeq(fs, 1, j))) <= m => j <= k
  BY <1>0, WholeWithinIs
<1> HIDE DEF k
<1>2. front \in Seq(Writable) /\ back \in Seq(Writable) /\ front \o back = fs
      /\ Len(front) = k /\ Len(back) = n - k
  BY <1>1, Split
<1> HIDE DEF front, back
<1>3. e \in Seq(Bytes) /\ f \in Seq(Bytes) /\ e \o f = b \o t
  BY <1>2, EncodingType, EncodingConcat
<1> HIDE DEF e, f
<1>4. Len(e) \in Nat /\ Len(f) \in Nat /\ Len(t) \in Nat /\ Len(e) + Len(f) = m + Len(t)
  <2>1. Len(e \o f) = Len(e) + Len(f) /\ Len(b \o t) = Len(b) + Len(t)
    BY <1>3, ConcatIs
  <2>2. Len(e) \in Nat /\ Len(f) \in Nat /\ Len(t) \in Nat
    BY <1>3, LenProperties
  <2> QED  BY <1>3, <2>1, <2>2
<1>5. SubSeq(e \o f, 1, m) = b
  BY <1>3, TakeFirst
<1>6. ASSUME ~ (Len(e) < m) PROVE b = e
  <2>1. Len(e) = m
    BY <1>0, <1>1, <1>4, <1>6
  <2>2. SubSeq(e \o f, 1, Len(e)) = e
    BY <1>3, TakeFirst
  <2> QED  BY <1>5, <2>1, <2>2
<1>7. ASSUME Len(e) < m
      PROVE  k < n /\ \E rest : b = e \o rest /\ PartOf(rest, fs[k + 1])
  <2>1. k < n
    <3> SUFFICES ASSUME k = n PROVE FALSE
      BY <1>0, <1>1
    <3>1. back = <<>>
      BY <1>0, SubSeqEmpty DEF back
    <3>2. Len(f) = 0
      BY <3>1, EncodingEmpty, EmptySeq DEF f
    <3> QED  BY <1>0, <1>4, <1>7, <3>2
  <2> DEFINE frame == fs[k + 1]
             x == Encode(frame)
             y == Encoding(Tail(back))
  <2>2. frame \in Writable /\ back # <<>> /\ back[1] = frame
    <3>1. k + 1 \in 1..n
      BY <1>0, <1>1, <2>1
    <3>2. frame \in Writable
      BY <3>1, ElementOfSeq
    <3>3. Len(back) # 0
      BY <1>0, <1>1, <1>2, <2>1
    <3>4. back[1] = frame
      <4>1. k + 1 \in Int /\ n \in Int /\ \A i \in k + 1..n : fs[i] \in Writable
        BY <1>0, <1>1, ElementOfSeq
      <4>2. 1 \in 1..n - (k + 1) + 1 /\ (k + 1) + 1 - 1 = k + 1
        BY <1>0, <1>1, <2>1
      <4>3. \A i \in 1..n - (k + 1) + 1 : SubSeq(fs, k + 1, n)[i] = fs[(k + 1) + i - 1]
        BY <4>1, SubSeqProperties
      <4> QED  BY <4>2, <4>3 DEF back
    <3>5. back # <<>>
      BY <3>3, EmptySeq
    <3> QED  BY <3>2, <3>4, <3>5
  <2>3. x \in Seq(Bytes) /\ y \in Seq(Bytes) /\ f = x \o y
    <3>1. Tail(back) \in Seq(Writable) /\ Encoding(back) = Encode(back[1]) \o Encoding(Tail(back))
      BY <1>2, <2>2, EncodingFirst
    <3>2. Encoding(Tail(back)) \in Seq(Bytes)
      BY <3>1, EncodingType
    <3> QED  BY <2>2, <3>1, <3>2, Encoded DEF f
  <2>4. Len(e) + Len(x) > m
    <3> SUFFICES ASSUME Len(e) + Len(x) <= m PROVE FALSE
      <4>1. Len(x) \in Nat
        BY <2>3, LenProperties
      <4> HIDE DEF x
      <4> QED  BY <1>0, <1>4, <4>1
    <3>1. k \in Nat /\ k + 1 <= Len(fs) /\ k + 1 \in 0..n
      BY <1>0, <1>1, <2>1
    <3>2. SubSeq(fs, 1, k + 1) = Append(front, frame)
      BY <3>1, AppendWithin DEF front
    <3>3. Encoding(SubSeq(fs, 1, k + 1)) = e \o x
      BY <1>2, <2>2, <3>2, EncodingAppend DEF e
    <3>4. Len(e \o x) = Len(e) + Len(x)
      BY <1>3, <2>3, ConcatIs
    <3>5. k + 1 <= k
      BY <1>1, <3>1, <3>3, <3>4
    <3> QED  BY <3>1, <3>5
  <2> HIDE DEF x, y, frame
  <2> DEFINE j == m - Len(e)
             rest == SubSeq(x, 1, j)
             s == SubSeq(x, j + 1, Len(x))
  <2>5. Len(x) \in Nat /\ j \in 0..Len(x) /\ j # 0 /\ Len(x) - j # 0
    <3>1. Len(x) \in Nat
      BY <2>3, LenProperties
    <3> QED  BY <1>0, <1>4, <1>7, <2>4, <3>1
  <2> HIDE DEF j
  <2>6. rest \in Seq(Bytes) /\ Len(rest) = j /\ s \in Seq(Bytes) /\ Len(s) = Len(x) - j
        /\ rest \o s = x
    BY <2>3, <2>5, Split
  <2> HIDE DEF rest, s
  <2>7. rest # <<>> /\ s # <<>>
    BY <2>5, <2>6, EmptySeq
  <2> DEFINE u == e \o rest
  <2>8. u \in Seq(Bytes) /\ Len(u) = m
    <3>1. u \in Seq(Bytes) /\ Len(u) = Len(e) + Len(rest)
      BY <1>3, <2>6, ConcatIs
    <3> QED  BY <1>0, <1>4, <2>6, <3>1 DEF j
  <2> HIDE DEF u
  <2>9. e \o f = u \o (s \o y)
    <3>0. e \in Seq(Bytes) /\ rest \in Seq(Bytes) /\ s \in Seq(Bytes) /\ y \in Seq(Bytes)
      BY <1>3, <2>3, <2>6
    <3>1. (rest \o s) \o y = rest \o (s \o y)
      BY <3>0, Associative
    <3>2. f = rest \o (s \o y)
      BY <2>3, <2>6, <3>1
    <3> DEFINE v == s \o y
    <3>3. v \in Seq(Bytes)
      BY <2>3, <2>6, ConcatIs
    <3> HIDE DEF v
    <3>4. (e \o rest) \o v = e \o (rest \o v)
      <4>1. \A c, d \in Seq(Bytes) : (e \o c) \o d = e \o (c \o d)
        BY <3>0, Associative
      <4>2. \A d \in Seq(Bytes) : (e \o rest) \o d = e \o (rest \o d)
        BY <3>0, <4>1
      <4> QED  BY <3>3, <4>2
    <3> QED  BY <3>2, <3>4 DEF v, u
  <2>10. b = u
    <3>1. s \o y \in Seq(Bytes)
      BY <2>3, <2>6, ConcatIs
    <3>2. SubSeq(u \o (s \o y), 1, Len(u)) = u
      BY <2>8, <3>1, TakeFirst
    <3> QED  BY <1>5, <2>8, <2>9, <3>2
  <2>11. PartOf(rest, frame)
    BY <2>6, <2>7 DEF PartOf, x
  <2> QED  BY <2>1, <2>10, <2>11 DEF u, frame
<1> QED  BY <1>1, <1>6, <1>7 DEF k, e, front

-----------------------------------------------------------------------------
(***************************************************************************)
(* The bytes x on their way, when of the frames sent n were returned and k *)
(* have got through, the peer is in state w, and c says whether it broke   *)
(* off within a frame.                                                     *)
(***************************************************************************)

Trailing(sent, k, c, rest) ==
    \/ c = FALSE /\ rest = <<>>
    \/ c = TRUE /\ k = Len(sent) /\ rest = Malformed
    \/ c = TRUE /\ k < Len(sent) /\ PartOf(rest, sent[k + 1])

OnTheWay(w, x, sent, n, k, c) ==
    /\ sent \in Seq(Writable) /\ n \in Nat /\ k \in Nat /\ n <= k /\ k <= Len(sent)
    /\ w # "dead" => k = Len(sent) /\ c = FALSE
    /\ \E rest \in Seq(Bytes) :
         Trailing(sent, k, c, rest) /\ x = Encoding(SubSeq(sent, n + 1, k)) \o rest

LEMMA QueueIs ==
    ASSUME NEW S, NEW s \in Seq(S), NEW n \in Nat, NEW k \in Nat, n <= k, k <= Len(s)
    PROVE  /\ SubSeq(s, n + 1, k) \in Seq(S)
           /\ Len(SubSeq(s, n + 1, k)) = k - n
           /\ \A i \in 1..k - n : SubSeq(s, n + 1, k)[i] = s[n + i]
<1>0. Len(s) \in Nat
  BY LenProperties
<1>1. n + 1 \in Int /\ k \in Int /\ \A i \in n + 1..k : s[i] \in S
  BY <1>0, ElementOfSeq
<1>2. /\ SubSeq(s, n + 1, k) \in Seq(S)
      /\ Len(SubSeq(s, n + 1, k)) = IF n + 1 <= k THEN k - (n + 1) + 1 ELSE 0
      /\ \A i \in 1..k - (n + 1) + 1 : SubSeq(s, n + 1, k)[i] = s[(n + 1) + i - 1]
  BY <1>1, SubSeqProperties
<1>3. k - (n + 1) + 1 = k - n /\ \A i \in 1..k - n : (n + 1) + i - 1 = n + i
  OBVIOUS
<1> QED  BY <1>2, <1>3

LEMMA QueueAppend ==
    ASSUME NEW S, NEW s \in Seq(S), NEW x \in S, NEW n \in Nat, n <= Len(s)
    PROVE  SubSeq(Append(s, x), n + 1, Len(s) + 1) = Append(SubSeq(s, n + 1, Len(s)), x)
<1> DEFINE m == Len(s)
           t == Append(s, x)
           q == SubSeq(s, n + 1, m)
           r == SubSeq(t, n + 1, m + 1)
<1>0. m \in Nat
  BY LenProperties
<1>1. /\ t \in Seq(S) /\ Len(t) = m + 1 /\ \A i \in 1..m : t[i] = s[i]
      /\ t[m + 1] = x
  BY AppendProperties
<1> HIDE DEF t
<1>2. q \in Seq(S) /\ Len(q) = m - n /\ \A i \in 1..m - n : q[i] = s[n + i]
  BY <1>0, QueueIs
<1>3. r \in Seq(S) /\ Len(r) = (m + 1) - n /\ \A i \in 1..(m + 1) - n : r[i] = t[n + i]
  BY <1>0, <1>1, QueueIs
<1> HIDE DEF q, r
<1>4. /\ Append(q, x) \in Seq(S) /\ Len(Append(q, x)) = (m - n) + 1
      /\ \A i \in 1..m - n : Append(q, x)[i] = q[i]
      /\ Append(q, x)[(m - n) + 1] = x
  BY <1>2, AppendProperties
<1>5. \A i \in 1..Len(r) : r[i] = Append(q, x)[i]
  <2> SUFFICES ASSUME NEW i \in 1..Len(r) PROVE r[i] = Append(q, x)[i]
    OBVIOUS
  <2>1. i \in 1..(m + 1) - n /\ r[i] = t[n + i]
    BY <1>3
  <2>2. CASE i \in 1..m - n
    <3>1. n + i \in 1..m
      BY <1>0, <2>2
    <3> QED  BY <1>1, <1>2, <1>4, <2>1, <2>2, <3>1
  <2>3. CASE i = (m - n) + 1
    <3>1. n + i = m + 1
      BY <1>0, <2>3
    <3> QED  BY <1>1, <1>4, <2>1, <2>3, <3>1
  <2>4. i \in 1..m - n \/ i = (m - n) + 1
    <3>1. i \in 1..(m + 1) - n /\ m - n \in Nat
      BY <1>0, <2>1
    <3> HIDE DEF m
    <3> QED  BY <1>0, <3>1
  <2> QED  BY <2>2, <2>3, <2>4
<1>6. Len(r) = Len(Append(q, x))
  BY <1>0, <1>3, <1>4
<1>7. r = Append(q, x)
  BY <1>3, <1>4, <1>5, <1>6, SeqEqual
<1> QED  BY <1>7 DEF r, q, t

LEMMA QueueFront ==
    ASSUME NEW S, NEW s \in Seq(S), NEW n \in Nat, NEW k \in Nat, n + k <= Len(s)
    PROVE  SubSeq(SubSeq(s, n + 1, Len(s)), 1, k) = SubSeq(s, n + 1, n + k)
<1> DEFINE m == Len(s)
           q == SubSeq(s, n + 1, m)
           u == SubSeq(q, 0 + 1, k)
           v == SubSeq(s, n + 1, n + k)
<1>0. m \in Nat /\ n <= m
  BY LenProperties
<1>1. q \in Seq(S) /\ Len(q) = m - n /\ \A i \in 1..m - n : q[i] = s[n + i]
  BY <1>0, QueueIs
<1> HIDE DEF q
<1>2. u \in Seq(S) /\ Len(u) = k - 0 /\ \A i \in 1..k - 0 : u[i] = q[0 + i]
  <2>1. 0 \in Nat /\ 0 <= k /\ k <= Len(q)
    BY <1>0, <1>1
  <2> QED  BY <1>1, <2>1, QueueIs
<1>3. v \in Seq(S) /\ Len(v) = (n + k) - n /\ \A i \in 1..(n + k) - n : v[i] = s[n + i]
  <2>1. n + k \in Nat /\ n <= n + k
    OBVIOUS
  <2> QED  BY <2>1, QueueIs
<1> HIDE DEF u, v
<1>4. \A i \in 1..Len(u) : u[i] = v[i]
  <2> SUFFICES ASSUME NEW i \in 1..Len(u) PROVE u[i] = v[i]
    OBVIOUS
  <2>1. i \in 1..k - 0 /\ i \in 1..(n + k) - n /\ i \in 1..m - n /\ 0 + i = i
    BY <1>0, <1>2
  <2> QED  BY <1>1, <1>2, <1>3, <2>1
<1>5. Len(u) = Len(v)
  BY <1>2, <1>3
<1>6. u = v
  BY <1>2, <1>3, <1>4, <1>5, SeqEqual
<1> QED  BY <1>6 DEF u, v, q

LEMMA WayType ==
    ASSUME NEW w, NEW x, NEW sent, NEW n, NEW k, NEW c, OnTheWay(w, x, sent, n, k, c)
    PROVE  /\ x \in Seq(Bytes)
           /\ SubSeq(sent, n + 1, k) \in Seq(Writable)
           /\ Encoding(SubSeq(sent, n + 1, k)) \in Seq(Bytes)
<1>1. SubSeq(sent, n + 1, k) \in Seq(Writable)
  BY QueueIs DEF OnTheWay
<1>2. Encoding(SubSeq(sent, n + 1, k)) \in Seq(Bytes)
  BY <1>1, EncodingType
<1> QED  BY <1>1, <1>2, ConcatIs DEF OnTheWay

\* All frames were returned: what is left is no frame.
LEMMA WayEmpty ==
    ASSUME NEW w, NEW x, NEW sent, NEW n, NEW c, OnTheWay(w, x, sent, n, n, c)
    PROVE  /\ Trailing(sent, n, c, x)
           /\ ParseFrame(x).result # "frame"
           /\ c = FALSE => Undecided(x)
           /\ c = TRUE => x # <<>> /\ w = "dead"
<1>1. PICK rest \in Seq(Bytes) :
        Trailing(sent, n, c, rest) /\ x = Encoding(SubSeq(sent, n + 1, n)) \o rest
  BY DEF OnTheWay
<1>2. sent \in Seq(Writable) /\ n \in Nat /\ n <= Len(sent) /\ (w # "dead" => c = FALSE)
      /\ Len(sent) \in Nat
  BY LenProperties DEF OnTheWay
<1>3. SubSeq(sent, n + 1, n) = <<>>
  BY <1>2, SubSeqEmpty
<1>4. x = rest
  BY <1>1, <1>3, EncodingEmpty, ConcatEmptySeq
<1>5. CASE c = FALSE /\ rest = <<>>
  <2>1. Undecided(x)
    BY <1>4, <1>5, EmptyUndecided
  <2>2. ParseFrame(x).result # "frame"
    BY <2>1 DEF Undecided
  <2> QED  BY <1>1, <1>4, <1>5, <2>1, <2>2
<1>6. CASE c = TRUE /\ rest = Malformed
  BY <1>1, <1>2, <1>4, <1>6, MalformedIs
<1>7. CASE c = TRUE /\ n < Len(sent) /\ PartOf(rest, sent[n + 1])
  <2>1. sent[n + 1] \in Writable
    <3>1. n + 1 \in 1..Len(sent)
      BY <1>2, <1>7
    <3> QED  BY <1>2, <3>1, ElementOfSeq
  <2>2. PICK t \in Seq(Bytes) : t # <<>> /\ rest \o t = Encode(sent[n + 1])
    BY <1>7 DEF PartOf
  <2>3. Undecided(rest)
    BY <2>1, <2>2, PartUndecided
  <2>4. ParseFrame(rest).result # "frame"
    BY <2>3 DEF Undecided
  <2>5. rest # <<>>
    BY <1>7 DEF PartOf
  <2> QED  BY <1>1, <1>2, <1>4, <1>7, <2>4, <2>5
<1> QED  BY <1>1, <1>5, <1>6, <1>7 DEF Trailing

\* The next frame comes first.
LEMMA WayNext ==
    ASSUME NEW w, NEW x, NEW sent, NEW n, NEW k, NEW c, OnTheWay(w, x, sent, n, k, c), n # k
    PROVE  /\ n + 1 <= k
           /\ sent[n + 1] \in Writable
           /\ \E u \in Seq(Bytes) : x = Encode(sent[n + 1]) \o u /\ OnTheWay(w, u, sent, n + 1, k, c)
<1>1. PICK rest \in Seq(Bytes) :
        Trailing(sent, k, c, rest) /\ x = Encoding(SubSeq(sent, n + 1, k)) \o rest
  BY DEF OnTheWay
<1>2. /\ sent \in Seq(Writable) /\ n \in Nat /\ k \in Nat /\ n + 1 <= k /\ k <= Len(sent)
      /\ n + 1 \in 1..Len(sent) /\ k \in n + 1..Len(sent) /\ Len(sent) \in Nat
  BY LenProperties DEF OnTheWay
<1> DEFINE frame == sent[n + 1]
           q == SubSeq(sent, n + 1, k)
           t == SubSeq(sent, (n + 1) + 1, k)
<1>3. frame \in Writable
  BY <1>2, ElementOfSeq
<1>4. q = <<frame>> \o t
  BY <1>2, SubSeqRecursiveFirst
<1>5. t \in Seq(Writable)
  <2>1. n + 1 \in Nat
    BY <1>2
  <2> QED  BY <1>2, <2>1, QueueIs
<1> HIDE DEF frame, q, t
<1>6. Encoding(q) = Encode(frame) \o Encoding(t)
  <2> DEFINE s == <<frame>>
  <2>1. s \in Seq(Writable) /\ Encoding(s) = Encode(frame)
    BY <1>3, EncodingOne
  <2> HIDE DEF s
  <2>2. Encoding(s \o t) = Encoding(s) \o Encoding(t)
    BY <1>5, <2>1, EncodingConcat
  <2> QED  BY <1>4, <2>1, <2>2 DEF s
<1> DEFINE u == Encoding(t) \o rest
<1>7. Encode(frame) \in Seq(Bytes) /\ Encoding(t) \in Seq(Bytes) /\ u \in Seq(Bytes)
  BY <1>3, <1>5, Encoded, EncodingType, ConcatIs
<1>8. x = Encode(frame) \o u
  <2>1. (Encode(frame) \o Encoding(t)) \o rest = Encode(frame) \o u
    BY <1>7, Associative
  <2> QED  BY <1>1, <1>6, <2>1 DEF q
<1>9. OnTheWay(w, u, sent, n + 1, k, c)
  <2>1. w # "dead" => k = Len(sent) /\ c = FALSE
    BY DEF OnTheWay
  <2>2. n + 1 \in Nat
    BY <1>2
  <2> QED  BY <1>1, <1>2, <2>1, <2>2 DEF OnTheWay, t
<1> QED  BY <1>2, <1>3, <1>7, <1>8, <1>9 DEF frame

LEMMA WayFirst ==
    ASSUME NEW w, NEW x, NEW sent, NEW n, NEW k, NEW c, OnTheWay(w, x, sent, n, k, c), n # k
    PROVE  ParseFrame(x) =
             [result |-> "frame", frame |-> sent[n + 1], length |-> Len(Encode(sent[n + 1]))]
<1>1. PICK u \in Seq(Bytes) : x = Encode(sent[n + 1]) \o u
  BY WayNext
<1>2. sent[n + 1] \in Writable
  BY WayNext
<1> QED  BY <1>1, <1>2, Reread

LEMMA FrontCancels ==
    \A s, t, u \in Seq(Bytes) : s \o t = s \o u => t = u
<1> SUFFICES ASSUME NEW s \in Seq(Bytes), NEW t \in Seq(Bytes), NEW u \in Seq(Bytes),
                    s \o t = s \o u
             PROVE  t = u
  OBVIOUS
<1> DEFINE v == s \o t
           w == s \o u
<1>1. /\ Len(v) = Len(s) + Len(t)
      /\ \A i \in 1..Len(t) : v[Len(s) + i] = t[i]
  BY ConcatIs
<1>2. /\ Len(w) = Len(s) + Len(u)
      /\ \A i \in 1..Len(u) : w[Len(s) + i] = u[i]
  BY ConcatIs
<1>3. v = w
  OBVIOUS
<1> HIDE DEF v, w
<1>4. Len(s) \in Nat /\ Len(t) \in Nat /\ Len(u) \in Nat
  BY LenProperties
<1>5. Len(t) = Len(u)
  BY <1>1, <1>2, <1>3, <1>4
<1>6. \A i \in 1..Len(t) : t[i] = u[i]
  BY <1>1, <1>2, <1>3, <1>5
<1> QED  BY <1>5, <1>6, SeqEqual

LEMMA WayStart ==
    OnTheWay("open", <<>>, <<>>, 0, 0, FALSE)
<1>1. <<>> \in Seq(Writable) /\ <<>> \in Seq(Bytes) /\ Len(<<>>) = 0
  BY EmptySeq
<1>2. SubSeq(<<>>, 0 + 1, 0) = <<>> /\ <<>> \o <<>> = <<>>
  BY <1>1, SubSeqEmpty, ConcatEmptySeq
<1>3. <<>> = Encoding(SubSeq(<<>>, 0 + 1, 0)) \o <<>>
  BY <1>2, EncodingEmpty
<1>4. Trailing(<<>>, 0, FALSE, <<>>)
  BY DEF Trailing
<1>5. 0 \in Nat /\ 0 <= 0 /\ 0 <= Len(<<>>) /\ 0 = Len(<<>>)
  BY <1>1
<1>6. \E rest \in Seq(Bytes) :
         Trailing(<<>>, 0, FALSE, rest) /\ <<>> = Encoding(SubSeq(<<>>, 0 + 1, 0)) \o rest
  BY <1>1, <1>3, <1>4, Zenon
<1> QED  BY <1>1, <1>5, <1>6, Zenon DEF OnTheWay

LEMMA WayWrite ==
    ASSUME NEW x, NEW sent, NEW n, NEW k, NEW c, OnTheWay("open", x, sent, n, k, c),
           NEW frame \in Writable
    PROVE  OnTheWay("open", x \o Encode(frame), Append(sent, frame), n, k + 1, c)
<1>1. /\ sent \in Seq(Writable) /\ n \in Nat /\ k = Len(sent) /\ n <= Len(sent) /\ c = FALSE
      /\ k \in Nat
  BY DEF OnTheWay
<1> DEFINE q == SubSeq(sent, n + 1, k)
           e == Encode(frame)
<1>2. PICK rest \in Seq(Bytes) : Trailing(sent, k, c, rest) /\ x = Encoding(q) \o rest
  BY DEF OnTheWay
<1>3. rest = <<>>
  BY <1>1, <1>2 DEF Trailing
<1>4. q \in Seq(Writable) /\ Encoding(q) \in Seq(Bytes) /\ e \in Seq(Bytes)
  BY WayType, Encoded
<1>5. SubSeq(Append(sent, frame), n + 1, k + 1) = Append(q, frame)
  BY <1>1, QueueAppend
<1>6. x = Encoding(q)
  <2> HIDE DEF q
  <2> QED  BY <1>2, <1>3, <1>4, ConcatEmptySeq
<1>7. Encoding(Append(q, frame)) = x \o e
  <2> HIDE DEF q
  <2> QED  BY <1>4, <1>6, EncodingAppend
<1>8. x \o e \in Seq(Bytes) /\ <<>> \in Seq(Bytes)
  <2> HIDE DEF q, e
  <2> QED  BY <1>4, <1>6, ConcatIs, EmptySeq
<1>9. x \o e = Encoding(Append(q, frame)) \o <<>>
  BY <1>7, <1>8, ConcatEmptySeq
<1>10. Append(sent, frame) \in Seq(Writable) /\ Len(Append(sent, frame)) = k + 1
  BY <1>1, AppendProperties
<1>11. Trailing(Append(sent, frame), k + 1, c, <<>>)
  BY <1>1 DEF Trailing
<1>12. k + 1 \in Nat /\ n <= k + 1 /\ k + 1 <= Len(Append(sent, frame))
  BY <1>1, <1>10
<1>13. OnTheWay("open", x \o e, Append(sent, frame), n, k + 1, c)
  <2> HIDE DEF e, q
  <2>1. x \o e = Encoding(SubSeq(Append(sent, frame), n + 1, k + 1)) \o <<>>
    BY <1>5, <1>9
  <2> QED  BY <1>1, <1>8, <1>10, <1>11, <1>12, <2>1 DEF OnTheWay
<1> QED  BY <1>13

LEMMA WayClose ==
    ASSUME NEW x, NEW sent, NEW n, NEW k, NEW c, OnTheWay("open", x, sent, n, k, c)
    PROVE  OnTheWay("closed", x, sent, n, k, c)
<1>1. k = Len(sent) /\ c = FALSE
  BY DEF OnTheWay
<1> QED  BY <1>1 DEF OnTheWay

LEMMA WayBreak ==
    ASSUME NEW x, NEW sent, NEW n, NEW k, NEW c, OnTheWay("open", x, sent, n, k, c)
    PROVE  OnTheWay("dead", x \o Malformed, sent, n, k, TRUE)
<1>1. k = Len(sent) /\ c = FALSE
  BY DEF OnTheWay
<1> DEFINE q == SubSeq(sent, n + 1, k)
<1>2. PICK rest \in Seq(Bytes) : Trailing(sent, k, c, rest) /\ x = Encoding(q) \o rest
  BY DEF OnTheWay
<1>3. rest = <<>>
  BY <1>1, <1>2 DEF Trailing
<1>4. Encoding(q) \in Seq(Bytes)
  BY WayType
<1>5. x = Encoding(q)
  <2> HIDE DEF q
  <2> QED  BY <1>2, <1>3, <1>4, ConcatEmptySeq
<1>6. Malformed \in Seq(Bytes) /\ Trailing(sent, k, TRUE, Malformed)
  BY <1>1, MalformedIs DEF Trailing
<1>7. x \o Malformed = Encoding(q) \o Malformed
  BY <1>5
<1> QED  BY <1>6, <1>7 DEF OnTheWay

LEMMA WayCut ==
    ASSUME NEW b \in Seq(Bytes), NEW t \in Seq(Bytes), NEW sent, NEW n, NEW k, NEW c,
           OnTheWay("open", b \o t, sent, n, k, c)
    PROVE  LET unread == SubSeq(sent, n + 1, Len(sent))
               j == WholeWithin(unread, Len(b))
               broken == Len(Encoding(SubSeq(unread, 1, j))) < Len(b)
           IN  /\ j \in 0..k - n
               /\ SubSeq(sent, n + 1, n + j) = SubSeq(SubSeq(sent, n + 1, k), 1, j)
               /\ broken \in BOOLEAN
               /\ OnTheWay("dead", b, sent, n, n + j, broken)
<1> DEFINE unread == SubSeq(sent, n + 1, Len(sent))
           j == WholeWithin(unread, Len(b))
           front == SubSeq(unread, 1, j)
           broken == Len(Encoding(front)) < Len(b)
<1>1. /\ sent \in Seq(Writable) /\ n \in Nat /\ k = Len(sent) /\ n <= Len(sent) /\ c = FALSE
      /\ Len(sent) \in Nat
  BY LenProperties DEF OnTheWay
<1>2. PICK rest \in Seq(Bytes) : Trailing(sent, k, c, rest) /\ b \o t = Encoding(unread) \o rest
  BY <1>1 DEF OnTheWay
<1>3. rest = <<>>
  BY <1>1, <1>2 DEF Trailing
<1>4. /\ unread \in Seq(Writable) /\ Len(unread) = Len(sent) - n
      /\ \A i \in 1..Len(sent) - n : unread[i] = sent[n + i]
  BY <1>1, QueueIs
<1>5. b \o t = Encoding(unread)
  <2> HIDE DEF unread
  <2>1. Encoding(unread) \in Seq(Bytes)
    BY <1>4, EncodingType
  <2> QED  BY <1>2, <1>3, <2>1, ConcatEmptySeq
<1>6. /\ j \in 0..Len(unread)
      /\ ~ (Len(Encoding(front)) < Len(b)) => b = Encoding(front)
      /\ Len(Encoding(front)) < Len(b) =>
           /\ j < Len(unread)
           /\ \E part : b = Encoding(front) \o part /\ PartOf(part, unread[j + 1])
  <2> HIDE DEF unread
  <2> QED  BY <1>4, <1>5, CutIs
<1> HIDE DEF j
<1>7. j \in 0..k - n /\ n + j \in Nat /\ n <= n + j /\ n + j <= Len(sent) /\ j \in Nat
  <2> HIDE DEF unread
  <2> QED  BY <1>1, <1>4, <1>6
<1>8. SubSeq(sent, n + 1, n + j) = front
  BY <1>1, <1>7, QueueFront
<1>9. ASSUME ~ (Len(Encoding(front)) < Len(b))
      PROVE  OnTheWay("dead", b, sent, n, n + j, FALSE)
  <2> DEFINE e == Encoding(front)
  <2>1. b = e
    BY <1>6, <1>9
  <2>2. b = e \o <<>> /\ <<>> \in Seq(Bytes)
    <3> HIDE DEF e
    <3> QED  BY <2>1, ConcatEmptySeq, EmptySeq
  <2>3. Trailing(sent, n + j, FALSE, <<>>)
    BY DEF Trailing
  <2>4. b = Encoding(SubSeq(sent, n + 1, n + j)) \o <<>>
    BY <1>8, <2>2
  <2> HIDE DEF unread, front
  <2> QED  BY <1>1, <1>7, <2>2, <2>3, <2>4 DEF OnTheWay
<1>10. ASSUME Len(Encoding(front)) < Len(b)
       PROVE  OnTheWay("dead", b, sent, n, n + j, TRUE)
  <2>1. PICK part : b = Encoding(front) \o part /\ PartOf(part, unread[j + 1])
    BY <1>6, <1>10
  <2>2. n + j < Len(sent) /\ unread[j + 1] = sent[(n + j) + 1]
    <3>1. j < Len(unread)
      BY <1>6, <1>10
    <3>2. j + 1 \in 1..Len(sent) - n /\ n + (j + 1) = (n + j) + 1
      BY <1>1, <1>4, <1>7, <3>1
    <3>3. n + j < Len(sent)
      BY <1>1, <1>4, <1>7, <3>1
    <3>4. unread[j + 1] = sent[n + (j + 1)]
      BY <1>4, <3>2
    <3> QED  BY <3>2, <3>3, <3>4
  <2> HIDE DEF unread, front
  <2>3. part \in Seq(Bytes) /\ Trailing(sent, n + j, TRUE, part)
    BY <2>1, <2>2 DEF Trailing, PartOf
  <2>4. b = Encoding(SubSeq(sent, n + 1, n + j)) \o part
    BY <1>8, <2>1
  <2> QED  BY <1>1, <1>7, <2>3, <2>4 DEF OnTheWay
<1>11. OnTheWay("dead", b, sent, n, n + j, broken)
  <2>1. CASE Len(Encoding(front)) < Len(b)
    <3>1. broken = TRUE
      BY <2>1
    <3> HIDE DEF broken
    <3> QED  BY <1>10, <2>1, <3>1
  <2>2. CASE ~ (Len(Encoding(front)) < Len(b))
    <3>1. broken = FALSE
      BY <2>2
    <3> HIDE DEF broken
    <3> QED  BY <1>9, <2>2, <3>1
  <2> QED  BY <2>1, <2>2
<1>12. broken \in BOOLEAN
  OBVIOUS
<1> HIDE DEF broken
<1>13. SubSeq(sent, n + 1, n + j) = SubSeq(SubSeq(sent, n + 1, k), 1, j)
  BY <1>1, <1>8
<1> QED  BY <1>7, <1>11, <1>12, <1>13 DEF j, unread, front, broken

\* parse_frame has found a frame at the beginning of the read buffer.
LEMMA WayReturn ==
    ASSUME NEW b \in Seq(Bytes), NEW t \in Seq(Bytes), NEW w, NEW sent, NEW n, NEW k, NEW c,
           OnTheWay(w, b \o t, sent, n, k, c), ParseFrame(b).result = "frame"
    PROVE  LET left == SubSeq(b, ParseFrame(b).length + 1, Len(b))
           IN  /\ n + 1 <= k
               /\ ParseFrame(b).frame = sent[n + 1]
               /\ left \in Seq(Bytes)
               /\ OnTheWay(w, left \o t, sent, n + 1, k, c)
<1> DEFINE x == b \o t
           frame == sent[n + 1]
           e == Encode(frame)
<1>1. ParseFrame(x) = ParseFrame(b)
  <2>1. ~ Undecided(b)
    BY DEF Undecided
  <2> QED  BY <2>1, Extends
<1>2. n # k
  <2> SUFFICES ASSUME n = k PROVE FALSE
    OBVIOUS
  <2>1. OnTheWay(w, x, sent, n, n, c)
    OBVIOUS
  <2> HIDE DEF x
  <2>2. ParseFrame(x).result # "frame"
    BY <2>1, WayEmpty
  <2> QED  BY <1>1, <2>2
<1>3. ParseFrame(b) = [result |-> "frame", frame |-> frame, length |-> Len(e)]
  <2>1. OnTheWay(w, x, sent, n, k, c)
    OBVIOUS
  <2> HIDE DEF x
  <2> QED  BY <1>1, <1>2, <2>1, WayFirst
<1>4. n + 1 <= k /\ frame \in Writable
      /\ \E u \in Seq(Bytes) : x = e \o u /\ OnTheWay(w, u, sent, n + 1, k, c)
  <2>1. OnTheWay(w, x, sent, n, k, c)
    OBVIOUS
  <2> HIDE DEF x
  <2> QED  BY <1>2, <2>1, WayNext
<1>5. PICK u \in Seq(Bytes) : x = e \o u /\ OnTheWay(w, u, sent, n + 1, k, c)
  BY <1>4
<1>6. e \in Seq(Bytes)
  BY <1>4, Encoded
<1> DEFINE m == Len(e)
           front == SubSeq(b, 1, m)
           left == SubSeq(b, m + 1, Len(b))
<1>7. m \in 0..Len(b)
  <2>1. ParseFrame(b).length = m
    BY <1>3
  <2>2. m \in Nat /\ m <= Len(b) /\ Len(b) \in Nat
    BY <2>1, FrameLength, LenProperties
  <2> HIDE DEF m
  <2> QED  BY <2>2
<1> HIDE DEF m
<1>8. /\ front \in Seq(Bytes) /\ Len(front) = m
      /\ left \in Seq(Bytes) /\ front \o left = b
  BY <1>7, Split
<1> HIDE DEF front, left, e
<1>9. left \o t \in Seq(Bytes)
  BY <1>8, ConcatIs
<1>10. x = front \o (left \o t)
  <2>1. (front \o left) \o t = front \o (left \o t)
    <3>1. \A c1, c2 \in Seq(Bytes) : (front \o c1) \o c2 = front \o (c1 \o c2)
      BY <1>8, Associative
    <3>2. \A c2 \in Seq(Bytes) : (front \o left) \o c2 = front \o (left \o c2)
      BY <1>8, <3>1
    <3> QED  BY <3>2
  <2> QED  BY <1>8, <2>1
<1> HIDE DEF x
<1>11. front = e
  <2> DEFINE v == left \o t
  <2>1. v \in Seq(Bytes) /\ x = front \o v
    BY <1>9, <1>10
  <2> HIDE DEF v
  <2>2. SubSeq(x, 1, Len(front)) = front
    BY <1>8, <2>1, TakeFirst
  <2>3. SubSeq(x, 1, Len(e)) = e
    BY <1>5, <1>6, TakeFirst
  <2> QED  BY <1>8, <2>2, <2>3 DEF m
<1>12. left \o t = u
  <2> DEFINE v == left \o t
  <2>1. v \in Seq(Bytes) /\ e \o v = e \o u
    BY <1>5, <1>9, <1>10, <1>11
  <2> HIDE DEF v
  <2>2. v = u
    <3>1. \A c1, c2 \in Seq(Bytes) : e \o c1 = e \o c2 => c1 = c2
      BY <1>6, FrontCancels
    <3> QED  BY <2>1, <3>1
  <2> QED  BY <2>2 DEF v
<1>13. ParseFrame(b).length = m /\ ParseFrame(b).frame = frame
  BY <1>3 DEF m, e
<1> HIDE DEF frame
<1>14. OnTheWay(w, left \o t, sent, n + 1, k, c)
  BY <1>5, <1>12
<1>15. left = SubSeq(b, ParseFrame(b).length + 1, Len(b))
  BY <1>13 DEF left
<1> QED  BY <1>4, <1>8, <1>13, <1>14, <1>15 DEF frame

\* parse_frame fails only where the peer broke off or sent no frame.
LEMMA WayError ==
    ASSUME NEW b \in Seq(Bytes), NEW t \in Seq(Bytes), NEW w, NEW sent, NEW n, NEW k, NEW c,
           OnTheWay(w, b \o t, sent, n, k, c), ParseFrame(b).result = "error"
    PROVE  w = "dead"
<1> DEFINE x == b \o t
<1>1. ParseFrame(x) = ParseFrame(b)
  <2>1. ~ Undecided(b)
    BY DEF Undecided
  <2> QED  BY <2>1, Extends
<1>2. OnTheWay(w, x, sent, n, k, c)
  OBVIOUS
<1> HIDE DEF x
<1>3. n = k
  <2> SUFFICES ASSUME n # k PROVE FALSE
    OBVIOUS
  <2>1. ParseFrame(x) = [result |-> "frame", frame |-> sent[n + 1], length |-> Len(Encode(sent[n + 1]))]
    BY <1>2, WayFirst
  <2> QED  BY <1>1, <2>1
<1>4. OnTheWay(w, x, sent, n, n, c)
  BY <1>2, <1>3
<1>5. Trailing(sent, n, c, x) /\ (c = FALSE => Undecided(x)) /\ (c = TRUE => w = "dead")
  BY <1>4, WayEmpty
<1>6. ~ Undecided(x)
  BY <1>1 DEF Undecided
<1> QED  BY <1>5, <1>6 DEF Trailing

\* At the end of the stream there is no frame left.
LEMMA WayEnd ==
    ASSUME NEW b, NEW w, NEW sent, NEW n, NEW k, NEW c,
           OnTheWay(w, b, sent, n, k, c), Undecided(b)
    PROVE  /\ n = k
           /\ b = <<>> => c = FALSE
           /\ b # <<>> => w = "dead"
<1>1. n = k
  <2> SUFFICES ASSUME n # k PROVE FALSE
    OBVIOUS
  <2>1. ParseFrame(b) = [result |-> "frame", frame |-> sent[n + 1], length |-> Len(Encode(sent[n + 1]))]
    BY WayFirst
  <2> QED  BY <2>1 DEF Undecided
<1>2. OnTheWay(w, b, sent, n, n, c)
  BY <1>1
<1>3. Trailing(sent, n, c, b) /\ (c = TRUE => b # <<>> /\ w = "dead")
  BY <1>2, WayEmpty
<1> QED  BY <1>1, <1>3 DEF Trailing

-----------------------------------------------------------------------------
(***************************************************************************)
(* The inductive invariant of a Connection.                                *)
(***************************************************************************)

Types ==
    /\ writer \in {"open", "closed", "dead"}
    /\ call \in {"idle", "parsing", "waiting"}
    /\ end \in {"open", "none", "error"}
    /\ stream \in Seq(Bytes)
    /\ buffer \in Seq(Bytes)
    /\ received \in Seq(Writable)

\* What was returned is the beginning of what was written.
Returned == received = SubSeq(written, 1, Len(received))

\* The read buffer and the stream hold what lies between.
InFlight == OnTheWay(writer, buffer \o stream, written, Len(received), whole, cut)

\* read_frame waits for the socket with no whole frame in the buffer.
Waits == call = "waiting" => Undecided(buffer)

Open == call # "idle" => end = "open"

Ended ==
    /\ end = "none" => writer # "open" /\ stream = <<>> /\ buffer = <<>>
    /\ end = "error" => writer = "dead"

ConnInv == Types /\ Returned /\ InFlight /\ Waits /\ Open /\ Ended

Queue == SubSeq(written, Len(received) + 1, whole)

LEMMA Starts == Init => ConnInv
<1> SUFFICES ASSUME Init PROVE ConnInv
  OBVIOUS
<1>1. <<>> \in Seq(Bytes) /\ <<>> \in Seq(Writable) /\ Len(<<>>) = 0 /\ <<>> \o <<>> = <<>>
  BY EmptySeq, ConcatEmptySeq
<1>2. Types
  BY <1>1 DEF Init, Types
<1>3. Returned
  <2>1. SubSeq(<<>>, 1, 0) = <<>>
    BY <1>1, SubSeqEmpty
  <2> QED  BY <1>1, <2>1 DEF Init, Returned
<1>4. InFlight
  BY <1>1, WayStart DEF Init, InFlight
<1>5. Waits /\ Open /\ Ended
  BY DEF Init, Waits, Open, Ended
<1> QED  BY <1>2, <1>3, <1>4, <1>5 DEF ConnInv

\* More was written: what was returned is still its beginning.
LEMMA ReturnedGrows ==
    ASSUME NEW s \in Seq(Writable), NEW frame \in Writable, NEW n \in Nat, n <= Len(s)
    PROVE  SubSeq(Append(s, frame), 1, n) = SubSeq(s, 1, n)
<1> DEFINE t == Append(s, frame)
           u == SubSeq(s, 0 + 1, n)
           v == SubSeq(t, 0 + 1, n)
<1>0. Len(s) \in Nat
  BY LenProperties
<1>1. t \in Seq(Writable) /\ Len(t) = Len(s) + 1 /\ \A i \in 1..Len(s) : t[i] = s[i]
  BY AppendProperties
<1> HIDE DEF t
<1>2. u \in Seq(Writable) /\ Len(u) = n - 0 /\ \A i \in 1..n - 0 : u[i] = s[0 + i]
  <2>1. 0 \in Nat /\ 0 <= n
    OBVIOUS
  <2> QED  BY <2>1, QueueIs
<1>3. v \in Seq(Writable) /\ Len(v) = n - 0 /\ \A i \in 1..n - 0 : v[i] = t[0 + i]
  <2>1. 0 \in Nat /\ 0 <= n /\ n <= Len(t)
    BY <1>0, <1>1
  <2> QED  BY <1>1, <2>1, QueueIs
<1> HIDE DEF u, v
<1>4. \A i \in 1..Len(u) : u[i] = v[i]
  <2> SUFFICES ASSUME NEW i \in 1..Len(u) PROVE u[i] = v[i]
    OBVIOUS
  <2>1. i \in 1..n - 0 /\ i \in 1..Len(s) /\ 0 + i = i
    BY <1>0, <1>2
  <2> QED  BY <1>1, <1>2, <1>3, <2>1
<1>5. Len(u) = Len(v)
  BY <1>2, <1>3
<1>6. u = v
  BY <1>2, <1>3, <1>4, <1>5, SeqEqual
<1> QED  BY <1>6 DEF u, v, t

\* The next frame was returned.
LEMMA ReturnedNext ==
    ASSUME NEW s \in Seq(Writable), NEW n \in Nat, n + 1 <= Len(s)
    PROVE  SubSeq(s, 1, n + 1) = Append(SubSeq(s, 1, n), s[n + 1])
<1> DEFINE u == SubSeq(s, 0 + 1, n)
           v == SubSeq(s, 0 + 1, n + 1)
           w == Append(u, s[n + 1])
<1>0. Len(s) \in Nat /\ n <= Len(s) /\ s[n + 1] \in Writable
  BY LenProperties, ElementOfSeq
<1>1. u \in Seq(Writable) /\ Len(u) = n - 0 /\ \A i \in 1..n - 0 : u[i] = s[0 + i]
  <2>1. 0 \in Nat /\ 0 <= n
    OBVIOUS
  <2> QED  BY <1>0, <2>1, QueueIs
<1>2. v \in Seq(Writable) /\ Len(v) = (n + 1) - 0 /\ \A i \in 1..(n + 1) - 0 : v[i] = s[0 + i]
  <2>1. 0 \in Nat /\ 0 <= n + 1 /\ n + 1 \in Nat
    OBVIOUS
  <2> QED  BY <2>1, QueueIs
<1> HIDE DEF u, v
<1>3. w \in Seq(Writable) /\ Len(w) = Len(u) + 1 /\ w[Len(u) + 1] = s[n + 1]
      /\ \A i \in 1..Len(u) : w[i] = u[i]
  BY <1>0, <1>1, AppendProperties
<1> HIDE DEF w
<1>4. \A i \in 1..Len(v) : v[i] = w[i]
  <2> SUFFICES ASSUME NEW i \in 1..Len(v) PROVE v[i] = w[i]
    OBVIOUS
  <2>1. v[i] = s[i] /\ i \in 1..n + 1
    BY <1>2
  <2>2. CASE i \in 1..n
    BY <1>1, <1>3, <2>1, <2>2
  <2>3. CASE i = n + 1
    BY <1>1, <1>3, <2>1, <2>3
  <2> QED  BY <2>1, <2>2, <2>3
<1>5. Len(v) = Len(w)
  BY <1>1, <1>2, <1>3
<1>6. v = w
  BY <1>2, <1>3, <1>4, <1>5, SeqEqual
<1> QED  BY <1>6 DEF v, w, u

LEMMA QueueTail ==
    ASSUME NEW s \in Seq(Writable), NEW n \in Nat, NEW k \in Nat, n + 1 <= k, k <= Len(s)
    PROVE  /\ SubSeq(s, n + 1, k) # <<>>
           /\ SubSeq(s, (n + 1) + 1, k) = Tail(SubSeq(s, n + 1, k))
<1> DEFINE q == SubSeq(s, n + 1, k)
           r == SubSeq(s, (n + 1) + 1, k)
<1>1. q \in Seq(Writable) /\ Len(q) = k - n /\ \A i \in 1..k - n : q[i] = s[n + i]
  <2>1. n <= k
    OBVIOUS
  <2> QED  BY <2>1, QueueIs
<1>2. r \in Seq(Writable) /\ Len(r) = k - (n + 1) /\ \A i \in 1..k - (n + 1) : r[i] = s[(n + 1) + i]
  <2>1. n + 1 \in Nat
    OBVIOUS
  <2> QED  BY <2>1, QueueIs
<1> HIDE DEF q, r
<1>3. q # <<>>
  BY <1>1, EmptySeq
<1>4. /\ Tail(q) \in Seq(Writable) /\ Len(Tail(q)) = Len(q) - 1
      /\ \A i \in 1..Len(q) - 1 : Tail(q)[i] = q[i + 1]
  BY <1>1, <1>3, HeadTailProperties
<1>5. \A i \in 1..Len(r) : r[i] = Tail(q)[i]
  <2> SUFFICES ASSUME NEW i \in 1..Len(r) PROVE r[i] = Tail(q)[i]
    OBVIOUS
  <2>1. i \in 1..k - (n + 1) /\ i \in 1..Len(q) - 1 /\ i + 1 \in 1..k - n /\ n + (i + 1) = (n + 1) + i
    BY <1>1, <1>2
  <2> QED  BY <1>1, <1>2, <1>4, <2>1
<1>6. Len(r) = Len(Tail(q))
  BY <1>1, <1>2, <1>4
<1>7. r = Tail(q)
  BY <1>2, <1>4, <1>5, <1>6, SeqEqual
<1> QED  BY <1>3, <1>7 DEF q, r

\* What the invariant says of the numbers.
LEMMA Counts ==
    ASSUME ConnInv
    PROVE  /\ written \in Seq(Writable) /\ whole \in Nat
           /\ Len(received) \in Nat /\ Len(written) \in Nat
           /\ Len(received) <= whole /\ whole <= Len(written)
           /\ writer # "dead" => whole = Len(written) /\ cut = FALSE
           /\ cut \in BOOLEAN
<1>1. /\ written \in Seq(Writable) /\ whole \in Nat /\ Len(received) \in Nat
      /\ Len(received) <= whole /\ whole <= Len(written)
      /\ writer # "dead" => whole = Len(written) /\ cut = FALSE
  BY DEF ConnInv, InFlight, OnTheWay
<1>2. cut \in BOOLEAN
  <2>1. PICK rest \in Seq(Bytes) : Trailing(written, whole, cut, rest)
    BY DEF ConnInv, InFlight, OnTheWay
  <2> QED  BY <2>1 DEF Trailing
<1> QED  BY <1>1, <1>2, LenProperties

-----------------------------------------------------------------------------
(***************************************************************************)
(* The peer.                                                               *)
(***************************************************************************)

LEMMA WriteFrameStep ==
    ASSUME ConnInv, NEW frame \in Frames, WriteFrame(frame)
    PROVE  ConnInv' /\ Queue' = Append(Queue, frame)
<1>1. frame \in Writable /\ Encode(frame) \in Seq(Bytes)
  BY FramesAssumption, Encoded
<1> DEFINE n == Len(received)
           e == Encode(frame)
<1>2. /\ writer = "open" /\ writer' = "open" /\ stream' = stream \o e
      /\ written' = Append(written, frame) /\ whole' = whole + 1 /\ cut' = cut
      /\ buffer' = buffer /\ call' = call /\ end' = end /\ received' = received
  BY DEF WriteFrame, reader
<1>3. stream \in Seq(Bytes) /\ buffer \in Seq(Bytes) /\ OnTheWay("open", buffer \o stream, written, n, whole, cut)
  BY <1>2 DEF ConnInv, Types, InFlight
<1> HIDE DEF e
<1>4. (buffer \o stream) \o e = buffer \o (stream \o e)
  <2>1. \A s, t \in Seq(Bytes) : (buffer \o s) \o t = buffer \o (s \o t)
    BY <1>3, Associative
  <2>2. \A t \in Seq(Bytes) : (buffer \o stream) \o t = buffer \o (stream \o t)
    BY <1>3, <2>1
  <2> QED  BY <1>1, <2>2 DEF e
<1>5. OnTheWay("open", (buffer \o stream) \o e, Append(written, frame), n, whole + 1, cut)
  <2> DEFINE x == buffer \o stream
  <2>1. OnTheWay("open", x, written, n, whole, cut)
    BY <1>3
  <2> HIDE DEF x, n
  <2>2. OnTheWay("open", x \o Encode(frame), Append(written, frame), n, whole + 1, cut)
    BY <1>1, <2>1, WayWrite
  <2> QED  BY <2>2 DEF x, e
<1>6. stream \o e \in Seq(Bytes)
  BY <1>1, <1>3, ConcatIs DEF e
<1>7. Types'
  BY <1>2, <1>6 DEF ConnInv, Types
<1>8. Returned'
  <2>1. SubSeq(Append(written, frame), 1, n) = SubSeq(written, 1, n)
    BY <1>1, Counts, ReturnedGrows
  <2> QED  BY <1>2, <2>1 DEF ConnInv, Returned
<1>9. InFlight'
  BY <1>2, <1>4, <1>5 DEF InFlight
<1>10. Waits' /\ Open' /\ Ended'
  BY <1>2 DEF ConnInv, Waits, Open, Ended, Undecided
<1>11. Queue' = Append(Queue, frame)
  <2>1. n \in Nat /\ n <= Len(written) /\ whole = Len(written) /\ written \in Seq(Writable)
    BY <1>2, Counts
  <2>2. SubSeq(Append(written, frame), n + 1, whole + 1) = Append(SubSeq(written, n + 1, whole), frame)
    BY <1>1, <2>1, QueueAppend
  <2> QED  BY <1>2, <2>2 DEF Queue
<1> QED  BY <1>7, <1>8, <1>9, <1>10, <1>11 DEF ConnInv

LEMMA PeerClosesStep ==
    ASSUME ConnInv, PeerCloses
    PROVE  ConnInv' /\ Queue' = Queue
<1>1. /\ writer = "open" /\ writer' = "closed" /\ stream' = stream /\ written' = written
      /\ whole' = whole /\ cut' = cut
      /\ buffer' = buffer /\ call' = call /\ end' = end /\ received' = received
  BY DEF PeerCloses, reader
<1>2. Types' /\ Returned'
  BY <1>1 DEF ConnInv, Types, Returned
<1>3. InFlight'
  <2> DEFINE x == buffer \o stream
  <2>1. OnTheWay("open", x, written, Len(received), whole, cut)
    BY <1>1 DEF ConnInv, InFlight
  <2> HIDE DEF x
  <2>2. OnTheWay("closed", x, written, Len(received), whole, cut)
    BY <2>1, WayClose
  <2> QED  BY <1>1, <2>2 DEF InFlight, x
<1>4. Waits' /\ Open' /\ Ended'
  BY <1>1 DEF ConnInv, Waits, Open, Ended, Undecided
<1>5. Queue' = Queue
  BY <1>1 DEF Queue
<1> QED  BY <1>2, <1>3, <1>4, <1>5 DEF ConnInv

LEMMA PeerDiesStep ==
    ASSUME ConnInv, NEW n \in 0..Len(stream), PeerDies(n)
    PROVE  /\ ConnInv'
           /\ \E k \in 0..Len(Queue) : Queue' = SubSeq(Queue, 1, k)
           /\ cut' \in BOOLEAN
<1> DEFINE m == Len(received)
           unread == SubSeq(written, m + 1, Len(written))
           front == SubSeq(stream, 1, n)
           back == SubSeq(stream, n + 1, Len(stream))
           b == buffer \o front
           arrived == Len(buffer) + n
           j == WholeWithin(unread, arrived)
           broken == Len(Encoding(SubSeq(unread, 1, j))) < arrived
<1>1. /\ writer = "open" /\ writer' = "dead" /\ stream' = front /\ written' = written
      /\ whole' = m + j /\ cut' = broken
      /\ buffer' = buffer /\ call' = call /\ end' = end /\ received' = received
  BY DEF PeerDies, reader
<1>2. stream \in Seq(Bytes) /\ buffer \in Seq(Bytes) /\ OnTheWay("open", buffer \o stream, written, m, whole, cut)
  BY <1>1 DEF ConnInv, Types, InFlight
<1>3. front \in Seq(Bytes) /\ Len(front) = n /\ back \in Seq(Bytes) /\ front \o back = stream
  BY <1>2, Split
<1> HIDE DEF front, back, j, broken
<1>4. b \in Seq(Bytes) /\ Len(b) = arrived
  BY <1>2, <1>3, ConcatIs
<1>5. b \o back = buffer \o stream
  <2>1. \A s, t \in Seq(Bytes) : (buffer \o s) \o t = buffer \o (s \o t)
    BY <1>2, Associative
  <2>2. \A t \in Seq(Bytes) : (buffer \o front) \o t = buffer \o (front \o t)
    BY <1>3, <2>1
  <2> QED  BY <1>3, <2>2
<1>6. /\ j \in 0..whole - m
      /\ SubSeq(written, m + 1, m + j) = SubSeq(SubSeq(written, m + 1, whole), 1, j)
      /\ broken \in BOOLEAN
      /\ OnTheWay("dead", b, written, m, m + j, broken)
  <2> HIDE DEF b, m
  <2>1. OnTheWay("open", b \o back, written, m, whole, cut)
    BY <1>2, <1>5
  <2>2. j = WholeWithin(SubSeq(written, m + 1, Len(written)), Len(b))
        /\ broken = (Len(Encoding(SubSeq(SubSeq(written, m + 1, Len(written)), 1, j))) < Len(b))
    BY <1>4 DEF j, broken
  <2>3. LET u == SubSeq(written, m + 1, Len(written))
            k == WholeWithin(u, Len(b))
            c == Len(Encoding(SubSeq(u, 1, k))) < Len(b)
        IN  /\ k \in 0..whole - m
            /\ SubSeq(written, m + 1, m + k) = SubSeq(SubSeq(written, m + 1, whole), 1, k)
            /\ c \in BOOLEAN
            /\ OnTheWay("dead", b, written, m, m + k, c)
    BY <1>3, <1>4, <2>1, WayCut
  <2> QED  BY <2>2, <2>3
<1>7. Types' /\ Returned'
  BY <1>1, <1>3 DEF ConnInv, Types, Returned
<1>8. InFlight'
  BY <1>1, <1>6 DEF InFlight
<1>9. Waits' /\ Open' /\ Ended'
  BY <1>1 DEF ConnInv, Waits, Open, Ended, Undecided
<1>10. Queue' = SubSeq(Queue, 1, j)
  BY <1>1, <1>6 DEF Queue
<1>11. j \in 0..Len(Queue)
  <2>1. Len(Queue) = whole - m
    BY Counts, QueueIs DEF Queue
  <2> QED  BY <1>6, <2>1
<1> QED  BY <1>1, <1>6, <1>7, <1>8, <1>9, <1>10, <1>11 DEF ConnInv

LEMMA PeerBreaksStep ==
    ASSUME ConnInv, PeerBreaks
    PROVE  ConnInv' /\ Queue' = SubSeq(Queue, 1, Len(Queue)) /\ Len(Queue) \in Nat
<1>1. /\ writer = "open" /\ writer' = "dead" /\ stream' = stream \o Malformed /\ written' = written
      /\ whole' = whole /\ cut' = TRUE
      /\ buffer' = buffer /\ call' = call /\ end' = end /\ received' = received
  BY DEF PeerBreaks, reader
<1>2. stream \in Seq(Bytes) /\ buffer \in Seq(Bytes) /\ Malformed \in Seq(Bytes)
  BY MalformedIs DEF ConnInv, Types
<1>3. stream \o Malformed \in Seq(Bytes)
  BY <1>2, ConcatIs
<1>4. Types' /\ Returned'
  BY <1>1, <1>3 DEF ConnInv, Types, Returned
<1>5. (buffer \o stream) \o Malformed = buffer \o (stream \o Malformed)
  <2>1. \A s, t \in Seq(Bytes) : (buffer \o s) \o t = buffer \o (s \o t)
    BY <1>2, Associative
  <2>2. \A t \in Seq(Bytes) : (buffer \o stream) \o t = buffer \o (stream \o t)
    BY <1>2, <2>1
  <2> QED  BY <1>2, <2>2
<1>6. InFlight'
  <2> DEFINE x == buffer \o stream
  <2>1. OnTheWay("open", x, written, Len(received), whole, cut)
    BY <1>1 DEF ConnInv, InFlight
  <2> HIDE DEF x
  <2>2. OnTheWay("dead", x \o Malformed, written, Len(received), whole, TRUE)
    BY <2>1, WayBreak
  <2> QED  BY <1>1, <1>5, <2>2 DEF InFlight, x
<1>7. Waits' /\ Open' /\ Ended'
  BY <1>1 DEF ConnInv, Waits, Open, Ended, Undecided
<1>8. Queue \in Seq(Writable)
  BY Counts, QueueIs DEF Queue
<1>9. Queue' = Queue
  BY <1>1 DEF Queue
<1>10. SubSeq(Queue, 1, Len(Queue)) = Queue /\ Len(Queue) \in Nat
  <2> HIDE DEF Queue
  <2> QED  BY <1>8, SubSeqFull, LenProperties
<1> QED  BY <1>4, <1>6, <1>7, <1>9, <1>10 DEF ConnInv

-----------------------------------------------------------------------------
(***************************************************************************)
(* The reader.                                                             *)
(***************************************************************************)

LEMMA ReturnFrameStep ==
    ASSUME ConnInv, ReturnFrame
    PROVE  ConnInv' /\ end = "open" /\ Queue # <<>> /\ Queue' = Tail(Queue)
<1> DEFINE n == Len(received)
           left == SubSeq(buffer, ParseFrame(buffer).length + 1, Len(buffer))
           frame == written[n + 1]
<1>1. /\ writer' = writer /\ stream' = stream /\ written' = written /\ whole' = whole /\ cut' = cut
      /\ call = "parsing" /\ ParseFrame(buffer).result = "frame"
      /\ received' = Append(received, ParseFrame(buffer).frame)
      /\ buffer' = left /\ call' = "idle" /\ end' = end
  BY DEF ReturnFrame, peer
<1>2. stream \in Seq(Bytes) /\ buffer \in Seq(Bytes)
      /\ OnTheWay(writer, buffer \o stream, written, n, whole, cut)
  BY DEF ConnInv, Types, InFlight
<1>3. /\ n + 1 <= whole /\ ParseFrame(buffer).frame = frame
      /\ left \in Seq(Bytes) /\ OnTheWay(writer, left \o stream, written, n + 1, whole, cut)
  BY <1>1, <1>2, WayReturn
<1> HIDE DEF left
<1>4. /\ n \in Nat /\ whole \in Nat /\ whole <= Len(written) /\ written \in Seq(Writable)
      /\ Len(written) \in Nat /\ n + 1 <= Len(written)
  BY <1>3, Counts
<1>5. frame \in Writable
  BY <1>4, ElementOfSeq
<1>6. Append(received, frame) \in Seq(Writable) /\ Len(Append(received, frame)) = n + 1
  BY <1>5, AppendProperties DEF ConnInv, Types
<1>7. Types'
  BY <1>1, <1>3, <1>6 DEF ConnInv, Types
<1>8. Returned'
  <2>1. SubSeq(written, 1, n + 1) = Append(SubSeq(written, 1, n), frame)
    BY <1>4, ReturnedNext
  <2>2. received = SubSeq(written, 1, n)
    BY DEF ConnInv, Returned
  <2> QED  BY <1>1, <1>3, <1>6, <2>1, <2>2 DEF Returned
<1>9. InFlight'
  BY <1>1, <1>3, <1>6 DEF InFlight
<1>10. end = "open"
  BY <1>1 DEF ConnInv, Open
<1>11. Waits' /\ Open' /\ Ended'
  BY <1>1, <1>10 DEF Waits, Open, Ended
<1>12. Queue # <<>> /\ SubSeq(written, (n + 1) + 1, whole) = Tail(Queue)
  BY <1>3, <1>4, QueueTail DEF Queue
<1>13. Queue' = Tail(Queue)
  BY <1>1, <1>3, <1>6, <1>12 DEF Queue
<1> QED  BY <1>7, <1>8, <1>9, <1>10, <1>11, <1>12, <1>13 DEF ConnInv

LEMMA ReturnErrorStep ==
    ASSUME ConnInv, ReturnError
    PROVE  ConnInv' /\ Queue' = Queue /\ end = "open" /\ writer = "dead"
<1>1. /\ writer' = writer /\ stream' = stream /\ written' = written /\ whole' = whole /\ cut' = cut
      /\ call = "parsing" /\ ParseFrame(buffer).result = "error"
      /\ received' = received /\ buffer' = buffer /\ call' = "idle" /\ end' = "error"
  BY DEF ReturnError, peer
<1>2. stream \in Seq(Bytes) /\ buffer \in Seq(Bytes)
      /\ OnTheWay(writer, buffer \o stream, written, Len(received), whole, cut)
  BY DEF ConnInv, Types, InFlight
<1>3. writer = "dead"
  BY <1>1, <1>2, WayError
<1>4. Types' /\ Returned' /\ InFlight'
  BY <1>1 DEF ConnInv, Types, Returned, InFlight
<1>5. Waits' /\ Open' /\ Ended'
  BY <1>1, <1>3 DEF Waits, Open, Ended
<1>6. Queue' = Queue /\ end = "open"
  BY <1>1 DEF Queue, ConnInv, Open
<1> QED  BY <1>3, <1>4, <1>5, <1>6 DEF ConnInv

LEMMA FillStep ==
    ASSUME ConnInv, Fill
    PROVE  ConnInv' /\ Queue' = Queue
<1>1. PICK n \in 1..Len(stream) :
        /\ buffer' = buffer \o SubSeq(stream, 1, n)
        /\ stream' = SubSeq(stream, n + 1, Len(stream))
  BY DEF Fill
<1> DEFINE front == SubSeq(stream, 1, n)
           back == SubSeq(stream, n + 1, Len(stream))
<1>2. /\ writer' = writer /\ written' = written /\ whole' = whole /\ cut' = cut
      /\ call = "waiting" /\ received' = received /\ call' = "parsing" /\ end' = end
  BY DEF Fill
<1>3. stream \in Seq(Bytes) /\ buffer \in Seq(Bytes)
  BY DEF ConnInv, Types
<1>4. front \in Seq(Bytes) /\ back \in Seq(Bytes) /\ front \o back = stream
  <2>1. n \in 0..Len(stream)
    OBVIOUS
  <2> QED  BY <1>3, <2>1, Split
<1>5. buffer' = buffer \o front /\ stream' = back
  BY <1>1
<1> HIDE DEF front, back
<1>6. (buffer \o front) \o back = buffer \o stream
  <2>1. \A s, t \in Seq(Bytes) : (buffer \o s) \o t = buffer \o (s \o t)
    BY <1>3, Associative
  <2>2. \A t \in Seq(Bytes) : (buffer \o front) \o t = buffer \o (front \o t)
    BY <1>4, <2>1
  <2> QED  BY <1>4, <2>2
<1>7. buffer \o front \in Seq(Bytes)
  BY <1>3, <1>4, ConcatIs
<1>8. Types' /\ Returned'
  BY <1>2, <1>4, <1>5, <1>7 DEF ConnInv, Types, Returned
<1>9. InFlight'
  BY <1>2, <1>5, <1>6 DEF ConnInv, InFlight
<1>10. end = "open"
  BY <1>2 DEF ConnInv, Open
<1>11. Waits' /\ Open' /\ Ended'
  BY <1>2, <1>10 DEF Waits, Open, Ended
<1>12. Queue' = Queue
  BY <1>2 DEF Queue
<1> QED  BY <1>8, <1>9, <1>11, <1>12 DEF ConnInv

LEMMA EndOfStreamStep ==
    ASSUME ConnInv, EndOfStream
    PROVE  /\ ConnInv' /\ Queue' = Queue /\ end = "open"
           /\ \/ end' = "none" /\ Queue = <<>> /\ writer # "open" /\ cut = FALSE
              \/ end' = "error" /\ writer = "dead"
<1>1. /\ writer' = writer /\ stream' = stream /\ written' = written /\ whole' = whole /\ cut' = cut
      /\ stream = <<>> /\ writer # "open" /\ call = "waiting"
      /\ end' = (IF buffer = <<>> THEN "none" ELSE "error")
      /\ received' = received /\ buffer' = buffer /\ call' = "idle"
  BY DEF EndOfStream, peer
<1>2. /\ buffer \in Seq(Bytes)
      /\ OnTheWay(writer, buffer \o stream, written, Len(received), whole, cut)
      /\ Undecided(buffer)
  BY <1>1 DEF ConnInv, Types, InFlight, Waits
<1>3. buffer \o stream = buffer
  BY <1>1, <1>2, ConcatEmptySeq
<1>4. OnTheWay(writer, buffer, written, Len(received), whole, cut)
  BY <1>2, <1>3
<1>5. /\ Len(received) = whole
      /\ buffer = <<>> => cut = FALSE
      /\ buffer # <<>> => writer = "dead"
  BY <1>2, <1>4, WayEnd
<1>6. Queue = <<>>
  BY <1>5, Counts, SubSeqEmpty DEF Queue
<1>7. Types' /\ Returned' /\ InFlight'
  BY <1>1 DEF ConnInv, Types, Returned, InFlight
<1>8. Waits' /\ Open' /\ Ended'
  BY <1>1, <1>5 DEF Waits, Open, Ended
<1>9. Queue' = Queue /\ end = "open"
  BY <1>1 DEF Queue, ConnInv, Open
<1> QED  BY <1>1, <1>5, <1>6, <1>7, <1>8, <1>9 DEF ConnInv

LEMMA ReadFailsStep ==
    ASSUME ConnInv, ReadFails
    PROVE  ConnInv' /\ Queue' = Queue /\ end = "open"
<1>1. /\ writer' = writer /\ stream' = stream /\ written' = written /\ whole' = whole /\ cut' = cut
      /\ call = "waiting" /\ writer = "dead" /\ end' = "error"
      /\ received' = received /\ buffer' = buffer /\ call' = "idle"
  BY DEF ReadFails, peer
<1>2. Types' /\ Returned' /\ InFlight'
  BY <1>1 DEF ConnInv, Types, Returned, InFlight
<1>3. Waits' /\ Open' /\ Ended'
  BY <1>1 DEF Waits, Open, Ended
<1>4. Queue' = Queue /\ end = "open"
  BY <1>1 DEF Queue, ConnInv, Open
<1> QED  BY <1>2, <1>3, <1>4 DEF ConnInv

\* read_frame begins, waits, or is dropped.
LEMMA CallStep ==
    ASSUME ConnInv, ReadFrame \/ Wait \/ Cancel
    PROVE  ConnInv' /\ Queue' = Queue /\ end' = end /\ writer' = writer /\ cut' = cut
<1>1. /\ writer' = writer /\ stream' = stream /\ written' = written /\ whole' = whole /\ cut' = cut
      /\ received' = received /\ buffer' = buffer /\ end' = end
  BY DEF ReadFrame, Wait, Cancel, peer
<1>2. end = "open"
  BY DEF ConnInv, Open, ReadFrame, Wait, Cancel
<1>3. call' \in {"idle", "parsing", "waiting"} /\ (call' = "waiting" => Undecided(buffer))
  BY DEF ReadFrame, Wait, Cancel, Undecided
<1>4. Types' /\ Returned' /\ InFlight'
  BY <1>1, <1>3 DEF ConnInv, Types, Returned, InFlight
<1>5. Waits' /\ Open' /\ Ended'
  BY <1>1, <1>2, <1>3 DEF Waits, Open, Ended, Undecided
<1>6. Queue' = Queue
  BY <1>1 DEF Queue
<1> QED  BY <1>1, <1>4, <1>5, <1>6 DEF ConnInv

Begins(x, y) == \E u \in Seq(Bytes) : y = x \o u

\* What is on its way is the beginning of everything the peer has to send.
LEMMA WayPrefix ==
    ASSUME NEW w, NEW x, NEW sent, NEW n, NEW k, NEW c, OnTheWay(w, x, sent, n, k, c)
    PROVE  Begins(x, Encoding(SubSeq(sent, n + 1, Len(sent))) \o Malformed)
<1> DEFINE unread == SubSeq(sent, n + 1, Len(sent))
           j == k - n
           front == SubSeq(unread, 1, j)
           back == SubSeq(unread, j + 1, Len(unread))
           e == Encoding(front)
           f == Encoding(back)
<1>1. PICK rest \in Seq(Bytes) :
        Trailing(sent, k, c, rest) /\ x = Encoding(SubSeq(sent, n + 1, k)) \o rest
  BY DEF OnTheWay
<1>2. /\ sent \in Seq(Writable) /\ n \in Nat /\ k \in Nat /\ n <= k /\ k <= Len(sent)
      /\ Len(sent) \in Nat /\ n <= Len(sent)
  BY LenProperties DEF OnTheWay
<1>3. /\ unread \in Seq(Writable) /\ Len(unread) = Len(sent) - n
      /\ \A i \in 1..Len(sent) - n : unread[i] = sent[n + i]
  BY <1>2, QueueIs
<1>4. j \in Nat /\ n + j = k /\ j \in 0..Len(unread) /\ n + j <= Len(sent)
  <2> HIDE DEF unread
  <2> QED  BY <1>2, <1>3
<1>5. front = SubSeq(sent, n + 1, k)
  <2> HIDE DEF j
  <2>1. front = SubSeq(sent, n + 1, n + j)
    BY <1>2, <1>4, QueueFront
  <2> QED  BY <1>4, <2>1
<1> HIDE DEF unread
<1>6. /\ front \in Seq(Writable) /\ back \in Seq(Writable) /\ front \o back = unread
      /\ Len(back) = Len(unread) - j
  <2> HIDE DEF j
  <2> QED  BY <1>3, <1>4, Split
<1>7. back # <<>> => back[1] = sent[k + 1]
  <2> SUFFICES ASSUME back # <<>> PROVE back[1] = sent[k + 1]
    OBVIOUS
  <2>1. Len(back) \in Nat \ {0}
    <3> HIDE DEF back
    <3> QED  BY <1>6, EmptySeq, LenProperties
  <2>2. back[1] = unread[j + 1]
    <3>1. j <= Len(unread) /\ Len(unread) \in Nat
      BY <1>2, <1>3, <1>4
    <3>2. \A i \in 1..Len(unread) - j : SubSeq(unread, j + 1, Len(unread))[i] = unread[j + i]
      <4> HIDE DEF j
      <4> QED  BY <1>3, <1>4, <3>1, QueueIs
    <3>3. 1 \in 1..Len(unread) - j
      BY <1>6, <2>1
    <3> QED  BY <3>2, <3>3
  <2>3. j + 1 \in 1..Len(sent) - n /\ n + (j + 1) = k + 1
    BY <1>2, <1>3, <1>4, <1>6, <2>1
  <2> QED  BY <1>3, <2>2, <2>3
<1> HIDE DEF front, back, j
<1>8. e \in Seq(Bytes) /\ f \in Seq(Bytes) /\ Encoding(unread) = e \o f /\ x = e \o rest
  BY <1>1, <1>5, <1>6, EncodingType, EncodingConcat
<1>9. Malformed \in Seq(Bytes)
  BY MalformedIs
<1>10. f \o Malformed \in Seq(Bytes)
  <2> HIDE DEF e, f, Malformed
  <2> QED  BY <1>8, <1>9, ConcatIs
<1>11. \E u \in Seq(Bytes) : f \o Malformed = rest \o u
  <2>1. CASE rest = <<>>
    <3> DEFINE u == f \o Malformed
    <3>1. u \in Seq(Bytes)
      BY <1>10
    <3> HIDE DEF u
    <3>2. <<>> \o u = u
      BY <3>1, ConcatEmptySeq
    <3>3. u = rest \o u
      BY <2>1, <3>2
    <3> QED  BY <3>1, <3>3 DEF u
  <2>2. CASE k = Len(sent) /\ rest = Malformed
    <3>1. Len(back) = 0
      BY <1>2, <1>3, <1>6, <2>2 DEF j
    <3>2. back = <<>>
      BY <1>6, <3>1, EmptySeq
    <3>3. f = <<>>
      BY <3>2, EncodingEmpty
    <3> HIDE DEF f, Malformed
    <3>4. <<>> \o Malformed = Malformed /\ Malformed \o <<>> = Malformed /\ <<>> \in Seq(Bytes)
      BY <1>9, ConcatEmptySeq, EmptySeq
    <3> QED  BY <2>2, <3>3, <3>4
  <2>3. CASE k < Len(sent) /\ PartOf(rest, sent[k + 1])
    <3>1. Len(back) # 0
      BY <1>2, <1>3, <1>6, <2>3 DEF j
    <3>2. back # <<>>
      BY <3>1, EmptySeq
    <3> DEFINE g == Encoding(Tail(back))
    <3>3. f = Encode(sent[k + 1]) \o g /\ g \in Seq(Bytes)
      BY <1>6, <1>7, <3>2, EncodingFirst, EncodingType
    <3>4. PICK t \in Seq(Bytes) : rest \o t = Encode(sent[k + 1])
      BY <2>3 DEF PartOf
    <3> HIDE DEF f, g, Malformed
    <3>5. g \o Malformed \in Seq(Bytes) /\ t \o (g \o Malformed) \in Seq(Bytes)
          /\ rest \o t \in Seq(Bytes)
      <4>1. g \o Malformed \in Seq(Bytes)
        BY <1>9, <3>3, ConcatIs
      <4> DEFINE h == g \o Malformed
      <4> HIDE DEF h
      <4>2. t \o h \in Seq(Bytes)
        BY <4>1, ConcatIs DEF h
      <4> QED  BY <4>1, <4>2, ConcatIs DEF h
    <3>6. f = (rest \o t) \o g
      BY <3>3, <3>4
    <3>7. ((rest \o t) \o g) \o Malformed = rest \o (t \o (g \o Malformed))
      <4> DEFINE r == rest \o t
                 h == g \o Malformed
      <4>1. r \in Seq(Bytes) /\ h \in Seq(Bytes)
        BY <3>5
      <4>2. (rest \o t) \o h = rest \o (t \o h)
        <5> HIDE DEF r, h
        <5>1. \A s, u \in Seq(Bytes) : (rest \o s) \o u = rest \o (s \o u)
          BY Associative
        <5>2. \A u \in Seq(Bytes) : (rest \o t) \o u = rest \o (t \o u)
          BY <5>1
        <5> QED  BY <4>1, <5>2
      <4>3. (r \o g) \o Malformed = r \o (g \o Malformed)
        <5> HIDE DEF r, h
        <5>1. \A s, u \in Seq(Bytes) : (r \o s) \o u = r \o (s \o u)
          BY <4>1, Associative
        <5>2. \A u \in Seq(Bytes) : (r \o g) \o u = r \o (g \o u)
          BY <3>3, <5>1
        <5> QED  BY <1>9, <5>2
      <4> QED  BY <4>2, <4>3
    <3> DEFINE u == t \o (g \o Malformed)
    <3>8. u \in Seq(Bytes) /\ f \o Malformed = rest \o u
      BY <3>5, <3>6, <3>7
    <3> HIDE DEF u
    <3> QED  BY <3>8
  <2> QED  BY <1>1, <2>1, <2>2, <2>3 DEF Trailing
<1>12. PICK u \in Seq(Bytes) : f \o Malformed = rest \o u
  BY <1>11
<1> HIDE DEF e, f, Malformed
<1>13. (e \o f) \o Malformed = e \o (f \o Malformed)
  <2>1. \A s, t \in Seq(Bytes) : (e \o s) \o t = e \o (s \o t)
    BY <1>8, Associative
  <2>2. \A t \in Seq(Bytes) : (e \o f) \o t = e \o (f \o t)
    BY <1>8, <2>1
  <2> QED  BY <1>9, <2>2
<1>14. (e \o rest) \o u = e \o (rest \o u)
  <2>1. \A s, t \in Seq(Bytes) : (e \o s) \o t = e \o (s \o t)
    BY <1>8, Associative
  <2>2. \A t \in Seq(Bytes) : (e \o rest) \o t = e \o (rest \o t)
    BY <2>1
  <2> QED  BY <2>2
<1>15. Encoding(unread) \o Malformed = x \o u
  BY <1>8, <1>12, <1>13, <1>14
<1>16. Begins(x, Encoding(unread) \o Malformed)
  <2> DEFINE y == Encoding(unread) \o Malformed
  <2>1. y = x \o u
    BY <1>15
  <2> HIDE DEF y
  <2>2. Begins(x, y)
    BY <2>1 DEF Begins
  <2> QED  BY <2>2 DEF y
<1> QED  BY <1>16 DEF unread

LEMMA PrefixIs ==
    ASSUME NEW x \in Seq(Bytes), NEW u \in Seq(Bytes)
    PROVE  IsPrefix(x, x \o u)
<1> DEFINE y == x \o u
<1>1. SubSeq(y, 1, Len(x)) = x
  BY TakeFirst
<1>2. Len(y) = Len(x) + Len(u) /\ Len(x) \in Nat /\ Len(u) \in Nat
  BY ConcatIs, LenProperties
<1>3. SubSeq(x, 1, Len(x)) = x
  BY SubSeqFull
<1> HIDE DEF y
<1>4. Len(x) <= Len(y)
  BY <1>2
<1>5. IsPrefix(x, y)
  BY <1>1, <1>3, <1>4 DEF IsPrefix
<1> QED  BY <1>5 DEF y

-----------------------------------------------------------------------------
(***************************************************************************)
(* The theorems.                                                           *)
(***************************************************************************)

LEMMA ConnStep ==
    ASSUME ConnInv, [Next]_vars
    PROVE  ConnInv' /\ [Channel!Next]_(Channel!vars)
<1>1. CASE \E frame \in Frames : WriteFrame(frame)
  <2>1. PICK frame \in Frames : WriteFrame(frame)
    BY <1>1
  <2>2. ConnInv' /\ Queue' = Append(Queue, frame)
    BY <2>1, WriteFrameStep
  <2>3. Channel!Send(frame)
    BY <2>1, <2>2 DEF WriteFrame, reader, Queue, Channel!Send
  <2> QED  BY <2>2, <2>3 DEF Channel!Next
<1>2. CASE PeerCloses
  <2>1. ConnInv' /\ Queue' = Queue
    BY <1>2, PeerClosesStep
  <2>2. Channel!Close
    BY <1>2, <2>1 DEF PeerCloses, reader, Queue, Channel!Close
  <2> QED  BY <2>1, <2>2 DEF Channel!Next
<1>3. CASE \E n \in 0..Len(stream) : PeerDies(n)
  <2>1. PICK n \in 0..Len(stream) : PeerDies(n)
    BY <1>3
  <2>2. /\ ConnInv'
        /\ \E k \in 0..Len(Queue) : Queue' = SubSeq(Queue, 1, k)
        /\ cut' \in BOOLEAN
    BY <2>1, PeerDiesStep
  <2>3. writer = "open" /\ writer' = "dead" /\ end' = end
    BY <2>1 DEF PeerDies, reader
  <2>4. Channel!Die
    BY <2>2, <2>3 DEF Queue, Channel!Die
  <2> QED  BY <2>2, <2>4 DEF Channel!Next
<1>4. CASE PeerBreaks
  <2>1. ConnInv' /\ Queue' = SubSeq(Queue, 1, Len(Queue)) /\ Len(Queue) \in Nat
    BY <1>4, PeerBreaksStep
  <2>2. \E k \in 0..Len(Queue) : Queue' = SubSeq(Queue, 1, k)
    <3> HIDE DEF Queue
    <3>1. Len(Queue) \in 0..Len(Queue)
      BY <2>1
    <3> QED  BY <2>1, <3>1
  <2>3. writer = "open" /\ writer' = "dead" /\ end' = end /\ cut' \in BOOLEAN
    BY <1>4 DEF PeerBreaks, reader
  <2>4. Channel!Die
    BY <2>2, <2>3 DEF Queue, Channel!Die
  <2> QED  BY <2>1, <2>4 DEF Channel!Next
<1>5. CASE ReturnFrame
  <2>1. ConnInv' /\ end = "open" /\ Queue # <<>> /\ Queue' = Tail(Queue)
    BY <1>5, ReturnFrameStep
  <2>2. Channel!Receive
    BY <1>5, <2>1 DEF ReturnFrame, peer, Queue, Channel!Receive
  <2> QED  BY <2>1, <2>2 DEF Channel!Next
<1>6. CASE ReturnError
  <2>1. ConnInv' /\ Queue' = Queue /\ end = "open" /\ writer = "dead"
    BY <1>6, ReturnErrorStep
  <2>2. Channel!Fail
    BY <1>6, <2>1 DEF ReturnError, peer, Queue, Channel!Fail
  <2> QED  BY <2>1, <2>2 DEF Channel!Next
<1>7. CASE Fill
  <2>1. ConnInv' /\ Queue' = Queue
    BY <1>7, FillStep
  <2>2. UNCHANGED Channel!vars
    BY <1>7, <2>1 DEF Fill, Queue, Channel!vars
  <2> QED  BY <2>1, <2>2
<1>8. CASE EndOfStream
  <2>1. /\ ConnInv' /\ Queue' = Queue /\ end = "open"
        /\ \/ end' = "none" /\ Queue = <<>> /\ writer # "open" /\ cut = FALSE
           \/ end' = "error" /\ writer = "dead"
    BY <1>8, EndOfStreamStep
  <2>2. UNCHANGED <<writer, cut>>
    BY <1>8 DEF EndOfStream, peer
  <2>3. Channel!Finish \/ Channel!Fail
    BY <2>1, <2>2 DEF Queue, Channel!Finish, Channel!Fail
  <2> QED  BY <2>1, <2>3 DEF Channel!Next
<1>9. CASE ReadFails
  <2>1. ConnInv' /\ Queue' = Queue /\ end = "open"
    BY <1>9, ReadFailsStep
  <2>2. Channel!Fail
    BY <1>9, <2>1 DEF ReadFails, peer, Queue, Channel!Fail
  <2> QED  BY <2>1, <2>2 DEF Channel!Next
<1>10. CASE ReadFrame \/ Wait \/ Cancel
  <2>1. ConnInv' /\ Queue' = Queue /\ end' = end /\ writer' = writer /\ cut' = cut
    BY <1>10, CallStep
  <2>2. UNCHANGED Channel!vars
    BY <2>1 DEF Queue, Channel!vars
  <2> QED  BY <2>1, <2>2
<1>11. CASE UNCHANGED vars
  <2>1. /\ writer' = writer /\ stream' = stream /\ written' = written /\ whole' = whole
        /\ cut' = cut /\ received' = received /\ buffer' = buffer /\ end' = end /\ call' = call
    BY <1>11 DEF vars, peer, reader
  <2>2. Types' /\ Returned' /\ InFlight' /\ Waits' /\ Open' /\ Ended'
    BY <2>1 DEF ConnInv, Types, Returned, InFlight, Waits, Open, Ended, Undecided
  <2>3. UNCHANGED Channel!vars
    BY <2>1 DEF Channel!vars
  <2> QED  BY <2>2, <2>3 DEF ConnInv
<1> QED
  BY <1>1, <1>2, <1>3, <1>4, <1>5, <1>6, <1>7, <1>8, <1>9, <1>10, <1>11 DEF Next, Read, Return

\* Type correctness and the shape of what is on its way: the inductive
\* invariant of a connection (connection.rs:21-82).
THEOREM ConnectionInvariant == Spec => []ConnInv
<1>1. Init => ConnInv
  BY Starts
<1>2. ConnInv /\ [Next]_vars => ConnInv'
  BY ConnStep
<1> QED  BY <1>1, <1>2, PTL DEF Spec

LEMMA AllAccountedFor == ASSUME ConnInv PROVE BytesAccountedFor
<1> DEFINE n == Len(received)
           x == buffer \o stream
           unread == SubSeq(written, n + 1, Len(written))
<1>1. OnTheWay(writer, x, written, n, whole, cut)
  BY DEF ConnInv, InFlight
<1>2. x \in Seq(Bytes)
  <2> HIDE DEF x, n
  <2> QED  BY <1>1, WayType
<1>3. ASSUME writer = "dead" PROVE IsPrefix(x, Encoding(unread) \o Malformed)
  <2> HIDE DEF x, n
  <2>1. Begins(x, Encoding(SubSeq(written, n + 1, Len(written))) \o Malformed)
    BY <1>1, WayPrefix
  <2> DEFINE y == Encoding(unread) \o Malformed
  <2> HIDE DEF y
  <2>2. PICK u \in Seq(Bytes) : y = x \o u
    BY <2>1 DEF Begins, y, unread
  <2>3. IsPrefix(x, x \o u)
    BY <1>2, PrefixIs
  <2> QED  BY <2>2, <2>3 DEF y
<1>4. ASSUME writer # "dead" PROVE x = Encoding(unread)
  <2>1. whole = Len(written) /\ cut = FALSE /\ n \in Nat /\ n <= Len(written)
        /\ written \in Seq(Writable)
    BY <1>4, Counts
  <2> HIDE DEF x
  <2>2. PICK rest \in Seq(Bytes) : Trailing(written, whole, cut, rest) /\ x = Encoding(unread) \o rest
    BY <1>1, <2>1 DEF OnTheWay
  <2>3. rest = <<>>
    BY <2>1, <2>2 DEF Trailing
  <2>4. unread \in Seq(Writable)
    BY <2>1, QueueIs
  <2> HIDE DEF unread
  <2>5. Encoding(unread) \in Seq(Bytes)
    BY <2>4, EncodingType
  <2>6. Encoding(unread) \o <<>> = Encoding(unread)
    BY <2>5, ConcatEmptySeq
  <2> QED  BY <2>2, <2>3, <2>6
<1> HIDE DEF x
<1>5. x = buffer \o stream
  BY DEF x
<1> QED  BY <1>3, <1>4, <1>5 DEF BytesAccountedFor

\* No byte of a frame is lost, repeated or changed on its way
\* (connection.rs:21-28, 88-143).
THEOREM BytesKept == Spec => []BytesAccountedFor
BY ConnectionInvariant, AllAccountedFor, PTL

LEMMA EndTruth == ASSUME ConnInv PROVE EndIsTruthful
<1>1. ASSUME end = "none" PROVE received = SubSeq(written, 1, whole) /\ ~cut
  <2>1. buffer = <<>> /\ stream = <<>>
    BY <1>1 DEF ConnInv, Ended
  <2>2. <<>> \o <<>> = <<>>
    BY ConcatEmptySeq, EmptySeq
  <2>3. OnTheWay(writer, <<>>, written, Len(received), whole, cut)
    BY <2>1, <2>2 DEF ConnInv, InFlight
  <2>4. Len(received) = whole /\ cut = FALSE
    BY <2>3, EmptyUndecided, WayEnd
  <2>5. received = SubSeq(written, 1, Len(received))
    BY DEF ConnInv, Returned
  <2> QED  BY <2>4, <2>5
<1>2. end = "error" => writer = "dead"
  BY DEF ConnInv, Ended
<1> QED  BY <1>1, <1>2 DEF EndIsTruthful

\* What read_frame says of the end of the stream is true
\* (connection.rs:69-81).
THEOREM EndsTruthfully == Spec => []EndIsTruthful
BY ConnectionInvariant, EndTruth, PTL

LEMMA ChannelStarts == Init => Channel!Init
<1> SUFFICES ASSUME Init PROVE Channel!Init
  OBVIOUS
<1>1. Len(<<>>) = 0 /\ SubSeq(<<>>, 0 + 1, 0) = <<>>
  BY EmptySeq, SubSeqEmpty
<1> QED  BY <1>1 DEF Init, Channel!Init

\* A connection implements a channel of whole frames: every step of it is a
\* step of the channel or none, for every number of frames, all their contents
\* and every way to cut their bytes (connection.rs:46-182).
THEOREM ConnectionIsChannel == Spec => ImplementsFrameChannel
<1>1. Init => Channel!Init
  BY ChannelStarts
<1>2. ConnInv /\ [Next]_vars => [Channel!Next]_(Channel!vars)
  BY ConnStep
<1> QED  BY <1>1, <1>2, ConnectionInvariant, PTL DEF Spec, ImplementsFrameChannel, Channel!Spec
=============================================================================
