---------------------------- MODULE DigitempProofs ----------------------------
(***************************************************************************)
(* What digitemp's list of sensors and its samples are: for any net, any   *)
(* command lines and any number of failures.                               *)
(***************************************************************************)
EXTENDS Digitemp, WellFoundedInduction, SequenceTheorems, FiniteSetTheorems, TLAPS

-----------------------------------------------------------------------------
(* Numbers and sequences.                                                   *)

LEMMA LeastNumber ==
  ASSUME NEW S \in SUBSET Nat, S # {}
  PROVE  \E i \in S : \A j \in S : i <= j
<1> DEFINE R == {p \in Nat \X Nat : p[1] < p[2]}
<1>1. IsWellFoundedOn(R, Nat)
  BY NatLessThanWellFounded DEF OpToRel
<1> HIDE DEF R
<1>2. PICK x \in S : \A y \in S : ~(<<y, x>> \in R)
  BY <1>1, WFMin
<1>3. ASSUME NEW y \in S, y < x PROVE FALSE
  <2>1. <<y, x>> \in Nat \X Nat /\ <<y, x>>[1] < <<y, x>>[2]
    BY <1>3
  <2> QED
    BY <1>2, <1>3, <2>1 DEF R
<1> QED
  BY <1>3

\* Induction, for the numbers of a set.
LEMMA Induction ==
  ASSUME NEW S, 0 \in S, \A n \in Nat : n \in S => n + 1 \in S
  PROVE  \A n \in Nat : n \in S
<1> DEFINE rest == {n \in Nat : n \notin S}
<1> SUFFICES ASSUME rest # {} PROVE FALSE
  OBVIOUS
<1>1. PICK n \in rest : \A j \in rest : n <= j
  <2>1. rest \in SUBSET Nat
    OBVIOUS
  <2> HIDE DEF rest
  <2> QED
    BY <2>1, LeastNumber
<1>2. n \in Nat /\ n \notin S /\ n # 0
  OBVIOUS
<1>3. n - 1 \in Nat /\ (n - 1) + 1 = n /\ ~(n <= n - 1)
  BY <1>2
<1>4. n - 1 \in S
  <2>1. n - 1 \notin rest
    <3> HIDE DEF rest
    <3> QED
      BY <1>1, <1>3
  <2> QED
    BY <1>3, <2>1
<1> QED
  BY <1>2, <1>3, <1>4

\* f[n] has the elements of s picked up to the place n.
Picks(f, s, places, m) ==
  f = [n \in 0..m |-> IF n = 0 THEN <<>>
                      ELSE IF n \in places THEN Append(f[n - 1], s[n]) ELSE f[n - 1]]

LEMMA PicksExists ==
  ASSUME NEW s, NEW places
  PROVE  \A m \in Nat : \E f : Picks(f, s, places, m)
<1> DEFINE S == {m \in Nat : \E f : Picks(f, s, places, m)}
<1>1. 0 \in S
  <2>1. Picks([n \in 0..0 |-> <<>>], s, places, 0)
    BY DEF Picks
  <2> QED
    BY <2>1
<1>2. ASSUME NEW m \in Nat, m \in S PROVE m + 1 \in S
  <2>1. PICK f : Picks(f, s, places, m)
    BY <1>2
  <2> DEFINE v == IF m + 1 \in places THEN Append(f[m], s[m + 1]) ELSE f[m]
             g == [n \in 0..m + 1 |-> IF n = m + 1 THEN v ELSE f[n]]
  <2>2. ASSUME NEW n \in 0..m + 1
        PROVE  g[n] = IF n = 0 THEN <<>>
                      ELSE IF n \in places THEN Append(g[n - 1], s[n]) ELSE g[n - 1]
    <3>1. CASE n = m + 1
      <4>1. n # 0 /\ n - 1 = m /\ m \in 0..m + 1 /\ m # m + 1
        BY <3>1
      <4>2. g[n] = v /\ g[n - 1] = f[m]
        BY <3>1, <4>1
      <4> QED
        BY <3>1, <4>1, <4>2
    <3>2. CASE n # m + 1
      <4>1. n \in 0..m /\ (n # 0 => n - 1 \in 0..m /\ n - 1 # m + 1)
        BY <3>2
      <4>2. f[n] = IF n = 0 THEN <<>>
                   ELSE IF n \in places THEN Append(f[n - 1], s[n]) ELSE f[n - 1]
        BY <2>1, <4>1 DEF Picks
      <4>3. g[n] = f[n] /\ (n # 0 => g[n - 1] = f[n - 1])
        BY <3>2, <4>1
      <4> QED
        BY <4>2, <4>3
    <3> QED
      BY <3>1, <3>2
  <2>3. g = [n \in 0..m + 1 |-> g[n]]
    OBVIOUS
  <2>4. Picks(g, s, places, m + 1)
    <3> HIDE DEF g
    <3> QED
      BY <2>2, <2>3 DEF Picks
  <2> QED
    BY <2>4
<1> HIDE DEF S
<1>3. \A m \in Nat : m \in S
  BY <1>1, <1>2, Induction
<1> QED
  BY <1>3 DEF S

LEMMA PickedIs ==
  ASSUME NEW X, NEW s \in Seq(X), NEW places
  PROVE  \E f : Picks(f, s, places, Len(s)) /\ Picked(s, places) = f[Len(s)]
<1> DEFINE f == CHOOSE f : Picks(f, s, places, Len(s))
<1>1. Picks(f, s, places, Len(s))
  <2>1. \E g : Picks(g, s, places, Len(s))
    <3>1. Len(s) \in Nat
      OBVIOUS
    <3> QED
      BY <3>1, PicksExists
  <2> QED
    BY <2>1
<1>2. Picked(s, places) = f[Len(s)]
  BY DEF Picked, Picks
<1> QED
  BY <1>1, <1>2

LEMMA PicksStep ==
  ASSUME NEW m \in Nat, NEW f, NEW s, NEW places, Picks(f, s, places, m), NEW n \in 0..m
  PROVE  f[n] = IF n = 0 THEN <<>>
                ELSE IF n \in places THEN Append(f[n - 1], s[n]) ELSE f[n - 1]
BY DEF Picks

\* What is picked up to a place depends on what is up to there only.
LEMMA PicksAgree ==
  ASSUME NEW m \in Nat, NEW f, NEW s, NEW T, Picks(f, s, T, m),
         NEW k \in Nat, NEW g, NEW t, NEW U, Picks(g, t, U, k),
         NEW j \in Nat, j <= m, j <= k,
         \A i \in 1..j : s[i] = t[i] /\ (i \in T <=> i \in U)
  PROVE  f[j] = g[j]
<1> DEFINE S == {i \in Nat : i <= j => f[i] = g[i]}
<1>1. 0 \in S
  BY PicksStep
<1>2. ASSUME NEW i \in Nat, i \in S PROVE i + 1 \in S
  <2> SUFFICES ASSUME i + 1 <= j PROVE f[i + 1] = g[i + 1]
    OBVIOUS
  <2>1. i + 1 \in 0..m /\ i + 1 \in 0..k /\ i + 1 # 0 /\ (i + 1) - 1 = i /\ i + 1 \in 1..j
    OBVIOUS
  <2>2. f[i] = g[i]
    BY <1>2
  <2>3. f[i + 1] = IF i + 1 \in T THEN Append(f[i], s[i + 1]) ELSE f[i]
    BY <2>1, PicksStep
  <2>4. g[i + 1] = IF i + 1 \in U THEN Append(g[i], t[i + 1]) ELSE g[i]
    BY <2>1, PicksStep
  <2> QED
    BY <2>1, <2>2, <2>3, <2>4
<1> HIDE DEF S
<1>3. \A i \in Nat : i \in S
  BY <1>1, <1>2, Induction
<1> QED
  BY <1>3 DEF S

LEMMA PickedTyped ==
  ASSUME NEW X, NEW s \in Seq(X), NEW places
  PROVE  Picked(s, places) \in Seq(X)
<1>1. PICK f : Picks(f, s, places, Len(s)) /\ Picked(s, places) = f[Len(s)]
  BY PickedIs
<1> DEFINE S == {i \in Nat : i <= Len(s) => f[i] \in Seq(X)}
<1>2. 0 \in S
  <2>1. 0 \in 0..Len(s) /\ Len(s) \in Nat
    OBVIOUS
  <2>2. f[0] = <<>>
    BY <1>1, <2>1, PicksStep
  <2>3. <<>> \in Seq(X)
    OBVIOUS
  <2> QED
    BY <2>2, <2>3
<1>3. ASSUME NEW i \in Nat, i \in S PROVE i + 1 \in S
  <2> SUFFICES ASSUME i + 1 <= Len(s) PROVE f[i + 1] \in Seq(X)
    OBVIOUS
  <2>1. i + 1 \in 0..Len(s) /\ i + 1 # 0 /\ (i + 1) - 1 = i /\ i + 1 \in 1..Len(s) /\ Len(s) \in Nat
    OBVIOUS
  <2>2. f[i] \in Seq(X) /\ s[i + 1] \in X
    BY <1>3, <2>1
  <2>3. f[i + 1] = IF i + 1 \in places THEN Append(f[i], s[i + 1]) ELSE f[i]
    BY <1>1, <2>1, PicksStep
  <2>4. \A q \in Seq(X), x \in X : Append(q, x) \in Seq(X)
    OBVIOUS
  <2> QED
    BY <2>2, <2>3, <2>4
<1> HIDE DEF S
<1>4. \A i \in Nat : i \in S
  BY <1>2, <1>3, Induction
<1> QED
  BY <1>1, <1>4 DEF S

LEMMA PickedEmpty == ASSUME NEW places PROVE Picked(<<>>, places) = <<>>
<1>1. <<>> \in Seq({}) /\ Len(<<>>) = 0
  OBVIOUS
<1>2. PICK f : Picks(f, <<>>, places, 0) /\ Picked(<<>>, places) = f[0]
  BY <1>1, PickedIs
<1> QED
  BY <1>2, PicksStep

\* One more element, and whether it is picked.
LEMMA PickedLast ==
  ASSUME NEW X, NEW s \in Seq(X), NEW x \in X, NEW T, NEW U,
         \A i \in 1..Len(s) : i \in T <=> i \in U
  PROVE  Picked(Append(s, x), T) =
           IF Len(s) + 1 \in T THEN Append(Picked(s, U), x) ELSE Picked(s, U)
<1> DEFINE t == Append(s, x)
           n == Len(s)
<1>1. t \in Seq(X) /\ Len(t) = n + 1 /\ n \in Nat /\ t[n + 1] = x /\ \A i \in 1..n : t[i] = s[i]
  OBVIOUS
<1>2. PICK f : Picks(f, s, U, n) /\ Picked(s, U) = f[n]
  BY PickedIs
<1> HIDE DEF t, n
<1>3. PICK g : Picks(g, t, T, n + 1) /\ Picked(t, T) = g[n + 1]
  <2>1. \E g : Picks(g, t, T, Len(t)) /\ Picked(t, T) = g[Len(t)]
    BY <1>1, PickedIs
  <2> QED
    BY <1>1, <2>1
<1>4. n + 1 \in Nat /\ n <= n + 1 /\ n <= n
  BY <1>1
<1>5. \A i \in 1..n : t[i] = s[i] /\ (i \in T <=> i \in U)
  BY <1>1 DEF n
<1>6. g[n] = f[n]
  BY <1>1, <1>2, <1>3, <1>4, <1>5, PicksAgree
<1>7. g[n + 1] = IF n + 1 \in T THEN Append(g[n], t[n + 1]) ELSE g[n]
  <2>1. n + 1 \in 0..n + 1 /\ n + 1 # 0 /\ (n + 1) - 1 = n
    BY <1>1
  <2> QED
    BY <1>3, <1>4, <2>1, PicksStep
<1> QED
  BY <1>1, <1>2, <1>3, <1>6, <1>7 DEF t, n

\* f[i] has the first i of the sequences s one after another.
Flattens(f, s, n) == f = [i \in 1..n |-> IF i = 1 THEN s[i] ELSE f[i - 1] \o s[i]]

LEMMA FlattenExists ==
  ASSUME NEW s
  PROVE  \A m \in Nat : \E f : Flattens(f, s, m)
<1> DEFINE S == {m \in Nat : \E f : Flattens(f, s, m)}
<1>1. 0 \in S
  <2>1. Flattens([i \in 1..0 |-> 0], s, 0)
    BY DEF Flattens
  <2> QED
    BY <2>1
<1>2. ASSUME NEW m \in Nat, m \in S PROVE m + 1 \in S
  <2>1. PICK f : Flattens(f, s, m)
    BY <1>2
  <2> DEFINE v == IF m = 0 THEN s[1] ELSE f[m] \o s[m + 1]
             g == [i \in 1..m + 1 |-> IF i = m + 1 THEN v ELSE f[i]]
  <2>2. ASSUME NEW i \in 1..m + 1
        PROVE  g[i] = IF i = 1 THEN s[i] ELSE g[i - 1] \o s[i]
    <3>1. CASE i = m + 1
      <4>1. m # 0 => i # 1 /\ i - 1 = m /\ m \in 1..m + 1 /\ m # m + 1
        BY <3>1
      <4>2. g[i] = v /\ (m # 0 => g[i - 1] = f[m])
        BY <3>1, <4>1
      <4> QED
        BY <3>1, <4>1, <4>2
    <3>2. CASE i # m + 1
      <4>1. i \in 1..m /\ (i # 1 => i - 1 \in 1..m /\ i - 1 # m + 1)
        BY <3>2
      <4>2. f[i] = IF i = 1 THEN s[i] ELSE f[i - 1] \o s[i]
        BY <2>1, <4>1 DEF Flattens
      <4>3. g[i] = f[i] /\ (i # 1 => g[i - 1] = f[i - 1])
        BY <3>2, <4>1
      <4> QED
        BY <4>2, <4>3
    <3> QED
      BY <3>1, <3>2
  <2>3. g = [i \in 1..m + 1 |-> g[i]]
    OBVIOUS
  <2>4. Flattens(g, s, m + 1)
    <3> HIDE DEF g
    <3> QED
      BY <2>2, <2>3 DEF Flattens
  <2> QED
    BY <2>4
<1> HIDE DEF S
<1>3. \A m \in Nat : m \in S
  BY <1>1, <1>2, Induction
<1> QED
  BY <1>3 DEF S

LEMMA FlattenIs ==
  ASSUME NEW T, NEW s \in Seq(T), s # <<>>
  PROVE  \E f : Flattens(f, s, Len(s)) /\ FlattenSeq(s) = f[Len(s)]
<1> DEFINE f == CHOOSE f : Flattens(f, s, Len(s))
<1>1. Flattens(f, s, Len(s))
  <2>1. Len(s) \in Nat
    OBVIOUS
  <2>2. \E g : Flattens(g, s, Len(s))
    BY <2>1, FlattenExists
  <2> QED
    BY <2>2
<1>2. FlattenSeq(s) = f[Len(s)]
  BY DEF FlattenSeq, Flattens
<1> QED
  BY <1>1, <1>2

LEMMA FlattensStep ==
  ASSUME NEW m \in Nat, NEW f, NEW s, Flattens(f, s, m), NEW n \in 1..m
  PROVE  f[n] = IF n = 1 THEN s[n] ELSE f[n - 1] \o s[n]
BY DEF Flattens

LEMMA FlattenEmpty == FlattenSeq(<<>>) = <<>>
  BY DEF FlattenSeq

\* The sequences up to a place are the same, and so is what they make.
LEMMA FlattensAgree ==
  ASSUME NEW m \in Nat, NEW f, NEW s, Flattens(f, s, m),
         NEW k \in Nat, NEW g, NEW t, Flattens(g, t, k),
         NEW j \in Nat, 1 <= j, j <= m, j <= k, \A i \in 1..j : s[i] = t[i]
  PROVE  f[j] = g[j]
<1> DEFINE S == {i \in Nat : 1 <= i /\ i <= j => f[i] = g[i]}
<1>1. 0 \in S
  OBVIOUS
<1>2. ASSUME NEW i \in Nat, i \in S PROVE i + 1 \in S
  <2> SUFFICES ASSUME i + 1 <= j PROVE f[i + 1] = g[i + 1]
    OBVIOUS
  <2>1. i + 1 \in 1..m /\ i + 1 \in 1..k /\ (i + 1) - 1 = i /\ i + 1 \in 1..j
    OBVIOUS
  <2>2. i # 0 => f[i] = g[i]
    BY <1>2
  <2>3. f[i + 1] = IF i + 1 = 1 THEN s[i + 1] ELSE f[i] \o s[i + 1]
    BY <2>1, FlattensStep
  <2>4. g[i + 1] = IF i + 1 = 1 THEN t[i + 1] ELSE g[i] \o t[i + 1]
    BY <2>1, FlattensStep
  <2> QED
    BY <2>1, <2>2, <2>3, <2>4
<1> HIDE DEF S
<1>3. \A i \in Nat : i \in S
  BY <1>1, <1>2, Induction
<1> QED
  BY <1>3 DEF S

LEMMA FlattenTyped ==
  ASSUME NEW T, NEW s \in Seq(Seq(T))
  PROVE  FlattenSeq(s) \in Seq(T)
<1>1. CASE s = <<>>
  <2>1. <<>> \in Seq(T)
    OBVIOUS
  <2> QED
    BY <1>1, <2>1, FlattenEmpty
<1>2. CASE s # <<>>
  <2>1. PICK f : Flattens(f, s, Len(s)) /\ FlattenSeq(s) = f[Len(s)]
    BY <1>2, FlattenIs
  <2> DEFINE S == {i \in Nat : 1 <= i /\ i <= Len(s) => f[i] \in Seq(T)}
  <2>2. 0 \in S
    OBVIOUS
  <2>3. ASSUME NEW i \in Nat, i \in S PROVE i + 1 \in S
    <3> SUFFICES ASSUME i + 1 <= Len(s) PROVE f[i + 1] \in Seq(T)
      OBVIOUS
    <3>1. i + 1 \in 1..Len(s) /\ (i + 1) - 1 = i /\ Len(s) \in Nat
      OBVIOUS
    <3>2. (i # 0 => f[i] \in Seq(T)) /\ s[i + 1] \in Seq(T)
      BY <2>3, <3>1
    <3>3. f[i + 1] = IF i + 1 = 1 THEN s[i + 1] ELSE f[i] \o s[i + 1]
      BY <2>1, <3>1, FlattensStep
    <3> QED
      BY <3>1, <3>2, <3>3, ConcatProperties
  <2> HIDE DEF S
  <2>4. \A i \in Nat : i \in S
    BY <2>2, <2>3, Induction
  <2>5. Len(s) \in Nat /\ 1 <= Len(s)
    BY <1>2, EmptySeq
  <2> QED
    BY <2>1, <2>4, <2>5 DEF S
<1> QED
  BY <1>1, <1>2

\* One more sequence.
LEMMA FlattenLast ==
  ASSUME NEW T, NEW s \in Seq(Seq(T)), NEW x \in Seq(T)
  PROVE  FlattenSeq(Append(s, x)) = FlattenSeq(s) \o x
<1> DEFINE t == Append(s, x)
           n == Len(s)
<1>1. t \in Seq(Seq(T)) /\ Len(t) = n + 1 /\ n \in Nat /\ t[n + 1] = x /\ \A i \in 1..n : t[i] = s[i]
  OBVIOUS
<1>3. n = 0 => s = <<>>
  BY EmptySeq
<1> HIDE DEF t, n
<1>2. t # <<>>
  <2>1. Len(<<>>) = 0 /\ n + 1 # 0
    BY <1>1
  <2> QED
    BY <1>1, <2>1
<1>4. PICK g : Flattens(g, t, n + 1) /\ FlattenSeq(t) = g[n + 1]
  <2>1. \E g : Flattens(g, t, Len(t)) /\ FlattenSeq(t) = g[Len(t)]
    BY <1>1, <1>2, FlattenIs
  <2> QED
    BY <1>1, <2>1
<1>5. g[n + 1] = IF n + 1 = 1 THEN t[n + 1] ELSE g[n] \o t[n + 1]
  <2>1. n + 1 \in 1..n + 1 /\ (n + 1) - 1 = n /\ n + 1 \in Nat
    BY <1>1
  <2> QED
    BY <1>4, <2>1, FlattensStep
<1>6. CASE n = 0
  <2>1. FlattenSeq(s) \o x = x
    BY <1>3, <1>6, FlattenEmpty, ConcatEmptySeq
  <2> QED
    BY <1>1, <1>4, <1>5, <1>6, <2>1 DEF t
<1>7. CASE n # 0
  <2>1. PICK f : Flattens(f, s, n) /\ FlattenSeq(s) = f[n]
    <3>1. s # <<>>
      BY <1>7 DEF n
    <3> QED
      BY <3>1, FlattenIs DEF n
  <2>2. 1 <= n /\ n <= n /\ n <= n + 1 /\ n + 1 \in Nat
    BY <1>1, <1>7
  <2>3. f[n] = g[n]
    BY <1>1, <1>4, <2>1, <2>2, FlattensAgree
  <2> QED
    BY <1>1, <1>4, <1>5, <1>7, <2>1, <2>3 DEF t
<1> QED
  BY <1>6, <1>7

-----------------------------------------------------------------------------
(* The order of the ROM codes.                                              *)

LEMMA BitsNat == Bits \in Nat /\ Bits >= 3 /\ Bits <= 254
BY RomAssumption

LEMMA Codes ==
  /\ Roms \subseteq Code /\ Zero \in Code /\ Zero \notin Roms /\ Couplers \subseteq Roms
  /\ Batteries \subseteq Roms /\ Code = [1..Bits -> Bit] /\ Zero \notin Couplers
<1>1. Roms \subseteq Code /\ Couplers \subseteq Roms /\ Batteries \subseteq Roms /\ Code = [1..Bits -> Bit]
  BY RomAssumption DEF Couplers, Batteries, Code
<1>2. Zero \in Code
  BY DEF Zero, Code, Bit
<1>3. NoFamily(Zero)
  BY RomAssumption DEF NoFamily, Zero
<1>4. Zero \notin Roms
  BY <1>3, RomAssumption
<1> QED
  BY <1>1, <1>2, <1>4

LEMMA GreatestBit ==
  ASSUME NEW S \in SUBSET (1..Bits), S # {}
  PROVE  \E i \in S : \A j \in S : j <= i
<1> DEFINE T == {Bits - i : i \in S}
<1>0. \A i \in S : Bits - i \in Nat
  BY BitsNat
<1> HIDE DEF T
<1>1. T \in SUBSET Nat /\ T # {}
  BY <1>0 DEF T
<1>2. PICK t \in T : \A u \in T : t <= u
  BY <1>1, LeastNumber
<1>3. PICK i \in S : t = Bits - i
  BY DEF T
<1>4. ASSUME NEW j \in S PROVE j <= i
  BY BitsNat, <1>2, <1>3 DEF T
<1> QED
  BY <1>4

\* Codes that differ part somewhere.
LEMMA FirstDifference ==
  ASSUME NEW r \in Code, NEW s \in Code, r # s
  PROVE  \E i \in 1..Bits : Agree(r, s, i - 1) /\ r[i] # s[i]
<1> DEFINE D == {i \in 1..Bits : r[i] # s[i]}
<1>1. D \in SUBSET Nat /\ D # {}
  BY BitsNat DEF Code, Bit
<1>2. PICK i \in D : \A j \in D : i <= j
  BY <1>1, LeastNumber
<1> QED
  BY BitsNat, <1>2 DEF Agree

LEMMA Total ==
  ASSUME NEW r \in Code, NEW s \in Code, r # s
  PROVE  Before(r, s) \/ Before(s, r)
<1>1. PICK i \in 1..Bits : Agree(r, s, i - 1) /\ r[i] # s[i]
  BY FirstDifference
<1>2. Agree(s, r, i - 1)
  BY <1>1 DEF Agree
<1> QED
  BY <1>1, <1>2 DEF Before, Parts, Code, Bit

LEMMA Irreflexive ==
  ASSUME NEW r \in Code
  PROVE  ~Before(r, r)
BY DEF Before, Parts

LEMMA Transitive ==
  ASSUME NEW r \in Code, NEW s \in Code, NEW t \in Code, Before(r, s), Before(s, t)
  PROVE  Before(r, t)
<1>1. PICK i \in 1..Bits : Parts(r, s, i)
  BY DEF Before
<1>2. PICK j \in 1..Bits : Parts(s, t, j)
  BY DEF Before
<1>3. CASE i < j
  BY BitsNat, <1>1, <1>2, <1>3 DEF Before, Parts, Agree
<1>4. CASE j < i
  BY BitsNat, <1>1, <1>2, <1>4 DEF Before, Parts, Agree
<1>5. CASE i = j
  BY <1>1, <1>2, <1>5 DEF Parts
<1> QED
  BY BitsNat, <1>3, <1>4, <1>5

LEMMA Asymmetric ==
  ASSUME NEW r \in Code, NEW s \in Code, Before(r, s)
  PROVE  ~Before(s, r) /\ r # s
BY Transitive, Irreflexive

-----------------------------------------------------------------------------
(* The way of a search.                                                     *)

Choice(D, dir, way) ==
  LET sent == SentAt(D, way)
      i == Len(way) + 1
  IN IF sent = Bit THEN dir[i] ELSE IF sent = {0} THEN 0 ELSE 1

Ends(e, D, dir, W) ==
  e = [way \in W |-> IF Len(way) = Bits THEN way ELSE e[Append(way, Choice(D, dir, way))]]

Longer(m) == {way \in Ways : Len(way) >= Bits - m}

LEMMA WaysAre ==
  \A way : way \in Ways <=> way \in Seq(Bit) /\ Len(way) <= Bits
<1>1. ASSUME NEW way \in Ways PROVE way \in Seq(Bit) /\ Len(way) <= Bits
  <2>1. PICK n \in 0..Bits : way \in [1..n -> Bit]
    BY DEF Ways
  <2>2. n \in Nat /\ n <= Bits
    BY <2>1, BitsNat
  <2> QED
    BY <2>1, <2>2
<1>2. ASSUME NEW way \in Seq(Bit), Len(way) <= Bits PROVE way \in Ways
  <2>1. Len(way) \in 0..Bits /\ way \in [1..Len(way) -> Bit]
    BY <1>2, BitsNat
  <2> QED
    BY <2>1 DEF Ways
<1> QED
  BY <1>1, <1>2

LEMMA WayIs == ASSUME NEW way \in Seq(Bit), Len(way) <= Bits PROVE way \in Ways
BY WaysAre

LEMMA ChoiceTyped ==
  ASSUME NEW D, NEW dir \in Code, NEW way \in Ways, Len(way) # Bits
  PROVE  /\ Choice(D, dir, way) \in Bit
         /\ Append(way, Choice(D, dir, way)) \in Ways
         /\ Len(Append(way, Choice(D, dir, way))) = Len(way) + 1
<1>1. way \in Seq(Bit) /\ Len(way) + 1 \in 1..Bits
  <2>1. way \in Seq(Bit) /\ Len(way) <= Bits
    BY WaysAre
  <2>2. Len(way) \in Nat
    BY <2>1
  <2> QED
    BY <2>1, <2>2, BitsNat
<1>2. Choice(D, dir, way) \in Bit
  BY <1>1 DEF Choice, Code, Bit
<1> DEFINE c == Choice(D, dir, way)
<1> HIDE DEF c
<1>3. Append(way, c) \in Seq(Bit) /\ Len(Append(way, c)) = Len(way) + 1
  BY <1>1, <1>2 DEF c
<1>4. Append(way, c) \in Ways
  <2>1. Len(Append(way, c)) <= Bits
    BY <1>1, <1>3, BitsNat
  <2> QED
    BY <1>3, <2>1, WayIs
<1> QED
  BY <1>2, <1>3, <1>4 DEF c

LEMMA EndsExists ==
  ASSUME NEW D, NEW dir \in Code
  PROVE  \E e : Ends(e, D, dir, Ways)
<1> DEFINE S == {m \in Nat : \E e : Ends(e, D, dir, Longer(m))}
           Next1(way) == Append(way, Choice(D, dir, way))
<1>1. 0 \in S
  <2> DEFINE e == [way \in Longer(0) |-> way]
  <2>1. \A way \in Longer(0) : Len(way) = Bits
    <3> TAKE way \in Longer(0)
    <3>1. way \in Ways /\ Len(way) >= Bits - 0
      BY DEF Longer
    <3>2. way \in Seq(Bit) /\ Len(way) <= Bits
      BY <3>1, WaysAre
    <3>3. Len(way) \in Nat
      BY <3>2
    <3> QED
      BY <3>1, <3>2, <3>3, BitsNat
  <2>2. e = [way \in Longer(0) |-> IF Len(way) = Bits THEN way ELSE e[Next1(way)]]
    BY <2>1
  <2>3. Ends(e, D, dir, Longer(0))
    BY <2>2 DEF Ends
  <2> QED
    BY <2>3
<1>2. ASSUME NEW m \in Nat, m \in S PROVE m + 1 \in S
  <2>1. PICK e : Ends(e, D, dir, Longer(m))
    BY <1>2
  <2> DEFINE W == Longer(m + 1)
             g == [way \in W |-> IF way \in Longer(m) THEN e[way] ELSE e[Next1(way)]]
  <2>2. ASSUME NEW way \in W
        PROVE  g[way] = IF Len(way) = Bits THEN way ELSE g[Next1(way)]
    <3>1. way \in Ways /\ Len(way) >= Bits - (m + 1) /\ Len(way) \in Nat
      <4>1. way \in Ways /\ Len(way) >= Bits - (m + 1)
        BY DEF Longer
      <4>2. way \in Seq(Bit)
        BY <4>1, WaysAre
      <4> QED
        BY <4>1, <4>2
    <3>2. CASE Len(way) = Bits
      <4>1. way \in Longer(m)
        BY <3>1, <3>2, BitsNat DEF Longer
      <4>2. e[way] = way
        BY <2>1, <3>2, <4>1 DEF Ends
      <4> QED
        BY <3>2, <4>1, <4>2
    <3>3. CASE Len(way) # Bits
      <4>1. Next1(way) \in Ways /\ Len(Next1(way)) = Len(way) + 1
        BY <3>1, <3>3, ChoiceTyped
      <4>2. Next1(way) \in Longer(m) /\ Next1(way) \in W
        BY <3>1, <4>1, BitsNat DEF Longer
      <4> HIDE DEF Next1
      <4>3. g[Next1(way)] = e[Next1(way)]
        BY <4>2
      <4>4. way \in Longer(m) => e[way] = e[Next1(way)]
        BY <2>1, <3>3 DEF Ends, Next1
      <4> QED
        BY <3>3, <4>3, <4>4
    <3> QED
      BY <3>2, <3>3
  <2>3. g = [way \in W |-> g[way]]
    OBVIOUS
  <2>4. Ends(g, D, dir, W)
    <3> HIDE DEF g, W
    <3> QED
      BY <2>2, <2>3 DEF Ends
  <2> QED
    BY <2>4
<1> HIDE DEF S
<1>3. \A m \in Nat : m \in S
  BY <1>1, <1>2, Induction
<1>4. Longer(Bits) = Ways
  <2>1. \A way \in Ways : Len(way) >= Bits - Bits
    <3> TAKE way \in Ways
    <3>1. way \in Seq(Bit)
      BY WaysAre
    <3>2. Len(way) \in Nat
      BY <3>1
    <3> QED
      BY <3>2, BitsNat
  <2> QED
    BY <2>1 DEF Longer
<1>5. \E e : Ends(e, D, dir, Longer(Bits))
  BY <1>3, BitsNat DEF S
<1> QED
  BY <1>4, <1>5

LEMMA PathEnds ==
  ASSUME NEW D, NEW dir \in Code
  PROVE  \E e : Ends(e, D, dir, Ways) /\ Path(D, dir) = e[<<>>]
<1> DEFINE e == CHOOSE e : Ends(e, D, dir, Ways)
<1>1. Ends(e, D, dir, Ways)
  BY EndsExists
<1>2. Path(D, dir) = e[<<>>]
  BY DEF Path, Ends, Choice
<1> QED
  BY <1>1, <1>2

\* A code as a way.
LEMMA CodeWay ==
  ASSUME NEW c \in Code, NEW n \in 0..Bits
  PROVE  /\ c \in Seq(Bit) /\ Len(c) = Bits
         /\ SubSeq(c, 1, n) \in Ways /\ Len(SubSeq(c, 1, n)) = n
         /\ DOMAIN SubSeq(c, 1, n) = 1..n /\ \A i \in 1..n : SubSeq(c, 1, n)[i] = c[i]
<1>1. c \in Seq(Bit) /\ Len(c) = Bits
  BY BitsNat DEF Code
<1>2. /\ SubSeq(c, 1, n) \in Seq(Bit) /\ Len(SubSeq(c, 1, n)) = n
      /\ \A i \in 1..n : SubSeq(c, 1, n)[i] = c[i]
  BY <1>1, BitsNat
<1>3. DOMAIN SubSeq(c, 1, n) = 1..n
  BY <1>2
<1>4. SubSeq(c, 1, n) \in Ways
  <2>1. Len(SubSeq(c, 1, n)) <= Bits
    BY <1>2, BitsNat
  <2> QED
    BY <1>2, <2>1, WayIs
<1> QED
  BY <1>1, <1>2, <1>3, <1>4

LEMMA PathObeys ==
  ASSUME NEW D, NEW dir \in Code
  PROVE  /\ Path(D, dir) \in Code
         /\ \A i \in 1..Bits : Path(D, dir)[i] = Choice(D, dir, SubSeq(Path(D, dir), 1, i - 1))
<1>1. PICK e : Ends(e, D, dir, Ways) /\ Path(D, dir) = e[<<>>]
  BY PathEnds
<1> DEFINE Good(way) ==
             /\ e[way] \in Code /\ \A i \in 1..Len(way) : e[way][i] = way[i]
             /\ \A i \in Len(way) + 1 .. Bits :
                  e[way][i] = Choice(D, dir, SubSeq(e[way], 1, i - 1))
           S == {k \in Nat : \A way \in Ways : Len(way) = Bits - k => Good(way)}
<1>2. 0 \in S
  <2> SUFFICES ASSUME NEW way \in Ways, Len(way) = Bits - 0 PROVE Good(way)
    OBVIOUS
  <2>1. Len(way) = Bits /\ way \in Seq(Bit)
    BY WaysAre, BitsNat
  <2>2. e[way] = way
    BY <1>1, <2>1 DEF Ends
  <2>3. way \in Code
    BY <2>1 DEF Code
  <2>4. Len(way) + 1 .. Bits = {}
    BY <2>1, BitsNat
  <2> QED
    BY <2>2, <2>3, <2>4
<1>3. ASSUME NEW k \in Nat, k \in S PROVE k + 1 \in S
  <2> SUFFICES ASSUME NEW way \in Ways, Len(way) = Bits - (k + 1) PROVE Good(way)
    OBVIOUS
  <2> DEFINE b == Choice(D, dir, way)
             more == Append(way, b)
  <2>1. way \in Seq(Bit) /\ Len(way) \in Nat /\ Len(way) # Bits /\ Len(way) + 1 <= Bits
    <3>1. way \in Seq(Bit) /\ Len(way) <= Bits
      BY WaysAre
    <3> QED
      BY <3>1, BitsNat
  <2>2. b \in Bit /\ more \in Ways /\ Len(more) = Len(way) + 1
    BY <2>1, ChoiceTyped
  <2>3. more[Len(way) + 1] = b /\ \A i \in 1..Len(way) : more[i] = way[i]
    <3> HIDE DEF b
    <3> QED
      BY <2>1, <2>2
  <2>4. e[way] = e[more]
    BY <1>1, <2>1 DEF Ends
  <2>5. Good(more)
    <3>1. Len(more) = Bits - k
      BY <2>1, <2>2, BitsNat
    <3> QED
      BY <1>3, <2>2, <3>1
  <2> HIDE DEF b, more
  <2> DEFINE p == e[way]
  <2>6. p \in Code /\ p[Len(way) + 1] = b /\ \A i \in 1..Len(way) : p[i] = way[i]
    <3>1. 1..Len(way) \subseteq 1..Len(more) /\ Len(way) + 1 \in 1..Len(more)
      BY <2>1, <2>2
    <3> QED
      BY <2>3, <2>4, <2>5, <3>1
  <2>7. ASSUME NEW i \in Len(way) + 1 .. Bits
        PROVE  p[i] = Choice(D, dir, SubSeq(p, 1, i - 1))
    <3>1. CASE i = Len(way) + 1
      <4>1. i - 1 = Len(way) /\ i - 1 \in 0..Bits
        BY <2>1, <3>1, BitsNat
      <4>2. /\ SubSeq(p, 1, i - 1) \in Seq(Bit) /\ Len(SubSeq(p, 1, i - 1)) = Len(way)
            /\ \A j \in 1..Len(way) : SubSeq(p, 1, i - 1)[j] = way[j]
        BY <2>6, <4>1, CodeWay, WaysAre
      <4>3. SubSeq(p, 1, i - 1) = way
        BY <2>1, <4>2, SeqEqual
      <4> QED
        BY <2>6, <3>1, <4>3 DEF b
    <3>2. CASE i # Len(way) + 1
      <4>1. i \in Len(more) + 1 .. Bits
        BY <2>1, <2>2, <3>2, BitsNat
      <4> QED
        BY <2>4, <2>5, <4>1
    <3> QED
      BY <3>1, <3>2
  <2> QED
    BY <2>6, <2>7
<1>4. \A k \in Nat : k \in S
  <2> HIDE DEF S
  <2> QED
    BY <1>2, <1>3, Induction
<1>5. <<>> \in Ways /\ Len(<<>>) = 0
  <2>1. <<>> \in Seq(Bit) /\ Len(<<>>) = 0 /\ 0 <= Bits
    BY BitsNat
  <2> QED
    BY <2>1, WayIs
<1>6. Good(<<>>)
  <2>1. Bits - Bits = 0
    BY BitsNat
  <2> QED
    BY <1>4, <1>5, <2>1, BitsNat
<1> QED
  BY <1>1, <1>5, <1>6

\* The bit at each place, by what the devices that agree so far send.
LEMMA PathBit ==
  ASSUME NEW D \in SUBSET Roms, NEW dir \in Code, NEW p, p = Path(D, dir)
  PROVE  /\ p \in Code
         /\ \A i \in 1..Bits :
              LET on == {r \in D : Agree(r, p, i - 1)}
              IN /\ (\E r \in on : r[i] = 0) /\ (\E r \in on : r[i] = 1) => p[i] = dir[i]
                 /\ (\A r \in on : r[i] = 0) /\ on # {} => p[i] = 0
                 /\ (\A r \in on : r[i] = 1) => p[i] = 1
<1>1. p \in Code /\ \A i \in 1..Bits : p[i] = Choice(D, dir, SubSeq(p, 1, i - 1))
  BY PathObeys
<1>2. ASSUME NEW i \in 1..Bits
      PROVE  LET on == {r \in D : Agree(r, p, i - 1)}
             IN /\ (\E r \in on : r[i] = 0) /\ (\E r \in on : r[i] = 1) => p[i] = dir[i]
                /\ (\A r \in on : r[i] = 0) /\ on # {} => p[i] = 0
                /\ (\A r \in on : r[i] = 1) => p[i] = 1
  <2> DEFINE way == SubSeq(p, 1, i - 1)
             on == {r \in D : Agree(r, p, i - 1)}
             sent == {r[i] : r \in on}
  <2>1. i - 1 \in 0..Bits /\ (i - 1) + 1 = i
    BY BitsNat
  <2>2. Len(way) = i - 1 /\ DOMAIN way = 1..i - 1 /\ \A j \in 1..i - 1 : way[j] = p[j]
    BY <1>1, <2>1, CodeWay
  <2> HIDE DEF way
  <2>3. Still(D, way) = on
    BY <2>2 DEF Still, Agree
  <2>4. SentAt(D, way) = sent
    BY <2>1, <2>2, <2>3 DEF SentAt
  <2>5. p[i] = IF sent = Bit THEN dir[i] ELSE IF sent = {0} THEN 0 ELSE 1
    BY <1>1, <2>1, <2>2, <2>4 DEF Choice, way
  <2>6. \A r \in on : r[i] \in Bit
    BY Codes DEF Code
  <2> QED
    BY <2>5, <2>6 DEF Bit
<1> QED
  BY <1>1, <1>2

LEMMA PathIn ==
  ASSUME NEW D \in SUBSET Roms, NEW dir \in Code, D # {}
  PROVE  Path(D, dir) \in D
<1> DEFINE p == Path(D, dir)
<1>1. p \in Code /\ \A r \in D : r \in Code
  BY PathBit, Codes
<1> DEFINE S == {n \in Nat : n <= Bits => \E r \in D : Agree(r, p, n)}
<1>2. 0 \in S
  BY DEF Agree
<1>3. ASSUME NEW n \in Nat, n \in S PROVE n + 1 \in S
  <2> SUFFICES ASSUME n + 1 <= Bits PROVE \E r \in D : Agree(r, p, n + 1)
    OBVIOUS
  <2> DEFINE i == n + 1
             on == {r \in D : Agree(r, p, i - 1)}
  <2>1. i \in 1..Bits /\ i - 1 = n
    BY BitsNat
  <2>2. on # {} /\ \A r \in on : r[i] \in {0, 1}
    <3>1. \E r \in D : Agree(r, p, n)
      BY <1>3, BitsNat
    <3> QED
      BY <1>1, <2>1, <3>1 DEF Code, Bit
  <2>3. p[i] \in {0, 1}
    BY <1>1, <2>1 DEF Code, Bit
  <2>4. /\ (\A r \in on : r[i] = 0) => p[i] = 0
        /\ (\A r \in on : r[i] = 1) => p[i] = 1
    <3> HIDE DEF p, i
    <3> QED
      BY <2>1, <2>2, PathBit DEF p
  <2>5. \E r \in on : r[i] = p[i]
    BY <2>2, <2>3, <2>4
  <2>6. PICK r \in D : Agree(r, p, n) /\ r[n + 1] = p[n + 1]
    BY <2>1, <2>5
  <2>7. Agree(r, p, n + 1)
    BY <2>6 DEF Agree
  <2> QED
    BY <2>7
<1>4. \A n \in Nat : n \in S
  <2> HIDE DEF S
  <2> QED
    BY <1>2, <1>3, Induction
<1>5. PICK r \in D : Agree(r, p, Bits)
  BY <1>4, BitsNat
<1>6. r = p
  <2> HIDE DEF p
  <2> SUFFICES ASSUME r # p PROVE FALSE
    OBVIOUS
  <2>1. PICK i \in 1..Bits : r[i] # p[i]
    BY <1>1, FirstDifference
  <2> QED
    BY <1>5, <2>1 DEF Agree
<1> QED
  BY <1>5, <1>6

LEMMA PathSilent ==
  ASSUME NEW dir \in Code
  PROVE  Path({}, dir) \notin Valid
<1> DEFINE p == Path({}, dir)
<1>1. p \in Code /\ \A i \in 1..Bits : p[i] = 1
  <2>1. {} \in SUBSET Roms /\ p = Path({}, dir)
    OBVIOUS
  <2> HIDE DEF p
  <2>2. p \in Code
    BY <2>1, PathBit
  <2>3. ASSUME NEW i \in 1..Bits PROVE p[i] = 1
    <3> DEFINE on == {r \in {} : Agree(r, p, i - 1)}
    <3>1. (\A r \in on : r[i] = 1) => p[i] = 1
      BY <2>1, PathBit
    <3> QED
      BY <3>1
  <2> QED
    BY <2>2, <2>3
<1>2. p = [i \in 1..Bits |-> 1]
  <2> HIDE DEF p
  <2> QED
    BY <1>1 DEF Code
<1> QED
  BY <1>2, NetAssumption

-----------------------------------------------------------------------------
(* A search after another.                                                  *)

Searches == [last : 0..Bits \cup {255}, done : BOOLEAN]

Dir(s, code) ==
  [i \in 1..Bits |-> IF s.last = 255 \/ i > s.last THEN 0 ELSE IF i < s.last THEN code[i] ELSE 1]

LEMMA SearchedFound ==
  ASSUME NEW D \in SUBSET Roms, NEW s \in Searches, NEW code \in Code
  PROVE  /\ Dir(s, code) \in Code
         /\ Searched(D, s, code) = Found(D, s, Path(D, Dir(s, code)))
<1>1. Dir(s, code) \in Code
  BY DEF Dir, Code, Bit
<1>2. Searched(D, s, code) = Found(D, s, Path(D, Dir(s, code)))
  BY DEF Searched, Dir
<1> QED
  BY <1>1, <1>2

\* A device agrees with c up to bit i and has 1 there where c has 0.
Forks(D, c, i) == \E r \in D : Parts(c, r, i)

LEMMA LastZeroIs ==
  ASSUME NEW D \in SUBSET Roms, NEW p \in D
  PROVE  /\ LastZero(D, p) \in 1..Bits \cup {255}
         /\ LastZero(D, p) = 255 => \A i \in 1..Bits : ~Forks(D, p, i)
         /\ LastZero(D, p) # 255 =>
              Forks(D, p, LastZero(D, p)) /\ \A i \in 1..Bits : Forks(D, p, i) => i <= LastZero(D, p)
<1> DEFINE zeros == {i \in 1..Bits : p[i] = 0 /\ SentAt(D, SubSeq(p, 1, i - 1)) = Bit}
<1>1. \A i \in 1..Bits : i \in zeros <=> Forks(D, p, i)
  <2> TAKE i \in 1..Bits
  <2> DEFINE way == SubSeq(p, 1, i - 1)
             on == {r \in D : Agree(r, p, i - 1)}
             sent == {r[i] : r \in on}
  <2>1. i - 1 \in 0..Bits /\ (i - 1) + 1 = i /\ p \in Code
    BY BitsNat, Codes
  <2>2. Len(way) = i - 1 /\ DOMAIN way = 1..i - 1 /\ \A j \in 1..i - 1 : way[j] = p[j]
    BY <2>1, CodeWay
  <2> HIDE DEF way
  <2>3. Still(D, way) = on
    BY <2>2 DEF Still, Agree
  <2>4. SentAt(D, way) = sent
    BY <2>1, <2>2, <2>3 DEF SentAt
  <2>5. p \in on /\ \A r \in on : r[i] \in {0, 1}
    BY Codes DEF Code, Bit, Agree
  <2>6. i \in zeros <=> p[i] = 0 /\ sent = {0, 1}
    BY <2>4 DEF way, Bit
  <2>7. p[i] = 0 => (sent = {0, 1} <=> \E r \in on : r[i] = 1)
    BY <2>5
  <2>8. Forks(D, p, i) <=> p[i] = 0 /\ \E r \in on : r[i] = 1
    BY DEF Forks, Parts, Agree
  <2> QED
    BY <2>6, <2>7, <2>8
<1>2. LastZero(D, p) = IF zeros = {} THEN 255 ELSE CHOOSE i \in zeros : \A j \in zeros : j <= i
  BY DEF LastZero
<1>3. zeros \in SUBSET (1..Bits)
  OBVIOUS
<1> HIDE DEF zeros
<1>4. zeros # {} => LastZero(D, p) \in zeros /\ \A j \in zeros : j <= LastZero(D, p)
  <2>1. zeros # {} => \E i \in zeros : \A j \in zeros : j <= i
    BY <1>3, GreatestBit
  <2> QED
    BY <1>2, <2>1
<1>5. zeros # {} => LastZero(D, p) # 255
  BY <1>3, <1>4, BitsNat
<1> QED
  BY <1>1, <1>2, <1>3, <1>4, <1>5

LEMMA SearchTyped ==
  ASSUME NEW D \in SUBSET Roms, NEW s \in Searches, NEW code \in Code, NEW x,
         x = Searched(D, s, code), x.ok
  PROVE  x.code \in D /\ [last |-> x.last, done |-> x.done] \in Searches
<1> DEFINE p == Path(D, Dir(s, code))
<1>1. Dir(s, code) \in Code /\ x = Found(D, s, p)
  BY SearchedFound
<1>2. p \in Valid /\ x = [ok |-> TRUE, last |-> LastZero(D, p),
                          done |-> LastZero(D, p) \in {s.last, 255}, code |-> p]
  <2> HIDE DEF p
  <2> QED
    BY <1>1 DEF Found, Again
<1>3. D # {}
  BY <1>1, <1>2, PathSilent
<1>4. p \in D
  BY <1>1, <1>3, PathIn
<1>5. LastZero(D, p) \in 1..Bits \cup {255}
  <2> HIDE DEF p
  <2> QED
    BY <1>4, LastZeroIs
<1> HIDE DEF p
<1> QED
  BY <1>2, <1>4, <1>5, BitsNat DEF Searches

Later(D, c) == {r \in D : Before(c, r)}

\* The state of a search in which c has been found last: only the devices after c count.
Proper(D, s, c) ==
  /\ c \in Roms
  /\ s.last # 255 => s.last \in 1..Bits /\ Forks(D, c, s.last)
  /\ \A i \in 1..Bits : Forks(D, c, i) => s.last # 255 /\ i <= s.last
  /\ s.done <=> s.last = 255

Going(D, s, c) == s = Start0 \/ Proper(D, s, c)

\* The devices still to be found.
Pending(D, s, c) == IF s = Start0 THEN D ELSE Later(D, c)

\* A search that begins finds the first device.
LEMMA FindsFirst ==
  ASSUME NEW D \in SUBSET Roms, NEW dir \in Code, dir = Zero, NEW p, p = Path(D, dir),
         NEW q \in D, q # p
  PROVE  Before(p, q)
<1>1. p \in D /\ p \in Code /\ q \in Code
  BY PathIn, Codes
<1> SUFFICES ASSUME Before(q, p) PROVE FALSE
  BY <1>1, Total
<1>2. PICK i \in 1..Bits : Parts(q, p, i)
  BY DEF Before
<1>3. p[i] = dir[i]
  <2>1. Agree(q, p, i - 1) /\ q[i] = 0 /\ p[i] = 1 /\ Agree(p, p, i - 1)
    BY <1>2 DEF Parts, Agree
  <2> QED
    BY <1>1, <2>1, PathBit
<1> QED
  BY <1>2, <1>3 DEF Parts, Zero

\* A search that goes on leaves the way of the last one at its last discrepancy.
LEMMA PathLeaves ==
  ASSUME NEW D \in SUBSET Roms, NEW s \in Searches, NEW c \in Roms, Proper(D, s, c), s.last # 255,
         NEW p, p = Path(D, Dir(s, c))
  PROVE  p \in D /\ p \in Code /\ Parts(c, p, s.last)
<1> DEFINE L == s.last
           dir == Dir(s, c)
<1>1. L \in 1..Bits
  BY DEF Proper
<1>2. PICK r \in D : Parts(c, r, L)
  BY DEF Proper, Forks
<1>3. dir \in Code /\ dir[L] = 1 /\ \A i \in 1..L - 1 : dir[i] = c[i]
  <2>1. \A i \in 1..L - 1 : i \in 1..Bits /\ i < L
    BY <1>1, BitsNat
  <2>2. dir \in Code
    BY Codes, SearchedFound
  <2>3. ~(L > L) /\ ~(L < L) /\ L # 255 /\ \A i \in 1..L - 1 : ~(i > L)
    BY <1>1, BitsNat
  <2>4. dir[L] = 1
    BY <1>1, <2>3 DEF Dir
  <2>5. \A i \in 1..L - 1 : dir[i] = c[i]
    BY <2>1, <2>3 DEF Dir
  <2> QED
    BY <2>2, <2>4, <2>5
<1>4. p \in D /\ p \in Code /\ c \in Code /\ r \in Code
  BY <1>2, <1>3, PathIn, Codes
<1> HIDE DEF dir
<1>5. ASSUME NEW i \in 1..Bits, Agree(p, c, i - 1), p[i] # c[i] PROVE i >= L
  <2> SUFFICES ASSUME i < L PROVE FALSE
    BY <1>1, BitsNat
  <2>1. Agree(r, p, i - 1) /\ r[i] = c[i] /\ i \in 1..L - 1
    BY <1>1, <1>2, <1>5, BitsNat DEF Parts, Agree
  <2>2. r[i] \in {0, 1} /\ p[i] \in {0, 1} /\ dir[i] = r[i]
    BY <1>3, <1>4, <2>1 DEF Code, Bit
  <2>3. r[i] # p[i] /\ p[i] # dir[i]
    BY <1>5, <2>1, <2>2
  <2>4. Agree(p, p, i - 1)
    BY DEF Agree
  <2> QED
    BY <1>3, <1>4, <2>1, <2>2, <2>3, <2>4, PathBit DEF dir
<1>6. Agree(p, c, L - 1)
  <2> SUFFICES ASSUME ~Agree(p, c, L - 1) PROVE FALSE
    OBVIOUS
  <2>1. PICK j \in 1..L - 1 : p[j] # c[j]
    BY DEF Agree
  <2>2. PICK i \in 1..Bits : Agree(p, c, i - 1) /\ p[i] # c[i]
    BY <1>4, <2>1, FirstDifference
  <2> QED
    BY <1>1, <1>5, <2>1, <2>2, BitsNat DEF Agree
<1>7. Agree(c, p, L - 1) /\ Agree(r, p, L - 1) /\ r[L] = 1 /\ c[L] = 0 /\ Agree(p, p, L - 1)
  BY <1>2, <1>6 DEF Parts, Agree
<1>8. p[L] = 1
  <2> SUFFICES ASSUME p[L] = 0 PROVE FALSE
    BY <1>1, <1>4 DEF Code, Bit
  <2> QED
    BY <1>1, <1>3, <1>4, <1>7, PathBit DEF dir
<1> QED
  BY <1>1, <1>4, <1>7, <1>8 DEF Parts

\* It finds the first one after the last one found.
LEMMA FindsLater ==
  ASSUME NEW D \in SUBSET Roms, NEW s \in Searches, NEW c \in Roms, Proper(D, s, c), s.last # 255,
         NEW p, p = Path(D, Dir(s, c)), NEW q \in Later(D, c), q # p
  PROVE  Before(p, q)
<1> DEFINE L == s.last
           dir == Dir(s, c)
<1>1. p \in D /\ p \in Code /\ Parts(c, p, L) /\ L \in 1..Bits /\ c \in Code /\ q \in Code /\ q \in D
  BY PathLeaves, Codes DEF Proper, Later
<1> SUFFICES ASSUME Before(q, p) PROVE FALSE
  BY <1>1, Total
<1>2. PICK i \in 1..Bits : Parts(q, p, i)
  BY DEF Before
<1>3. dir \in Code
  BY <1>1, SearchedFound
<1>4. p[i] = dir[i]
  <2>1. Agree(q, p, i - 1) /\ q[i] = 0 /\ p[i] = 1 /\ Agree(p, p, i - 1)
    BY <1>2 DEF Parts, Agree
  <2> HIDE DEF dir
  <2> QED
    BY <1>1, <1>3, <2>1, PathBit DEF dir
<1>5. i <= L /\ (i < L => c[i] = 1)
  <2>1. dir[i] = 1
    BY <1>2, <1>4 DEF Parts
  <2> QED
    BY <1>1, <2>1, BitsNat DEF Dir
<1>6. CASE i < L
  <2>1. Parts(q, c, i)
    BY <1>1, <1>2, <1>5, <1>6, BitsNat DEF Parts, Agree
  <2>2. Before(q, c) /\ Before(c, q)
    BY <2>1 DEF Before, Later
  <2> QED
    BY <1>1, <2>2, Asymmetric
<1>7. CASE i = L
  <2>1. PICK k \in 1..Bits : Parts(c, q, k)
    BY DEF Later, Before
  <2>2. k <= L
    BY <1>1, <2>1 DEF Proper, Forks
  <2>3. Agree(q, c, L - 1) /\ q[L] = 0
    BY <1>1, <1>2, <1>7 DEF Parts, Agree
  <2> QED
    BY <1>1, <2>1, <2>2, <2>3, BitsNat DEF Parts, Agree
<1> QED
  BY <1>1, <1>5, <1>6, <1>7, BitsNat

\* One call of a search that goes on.
LEMMA SearchNext ==
  ASSUME NEW D \in SUBSET Roms, NEW s \in Searches, NEW c \in Roms \cup {Zero}, Going(D, s, c),
         NEW x, x = Searched(D, s, c),
         NEW t, t = [last |-> x.last, done |-> x.done]
  PROVE  /\ Pending(D, s, c) = {} => ~x.ok
         /\ Pending(D, s, c) # {} =>
              /\ x.ok /\ x.code \in Pending(D, s, c)
              /\ \A q \in Pending(D, s, c) : q = x.code \/ Before(x.code, q)
              /\ Proper(D, t, x.code)
              /\ Later(D, x.code) = Pending(D, s, c) \ {x.code}
<1> DEFINE p == Path(D, Dir(s, c))
           P == Pending(D, s, c)
           L == LastZero(D, p)
<1>1. c \in Code /\ Dir(s, c) \in Code /\ x = Found(D, s, p)
  BY Codes, SearchedFound
<1> HIDE DEF p
<1>2. CASE s = Start0 /\ D = {}
  <2>1. P = {} /\ p \notin Valid
    BY <1>1, <1>2, PathSilent DEF Pending, p
  <2> QED
    BY <1>1, <2>1 DEF Found, Again
<1>3. CASE s # Start0 /\ s.last = 255
  <2>1. Proper(D, s, c) /\ s.done
    BY <1>3 DEF Going, Proper
  <2>2. P = {}
    BY <1>3, <2>1 DEF Pending, Later, Before, Proper, Forks
  <2>3. ~x.ok
    BY <1>1, <2>1 DEF Found, Again
  <2> QED
    BY <2>2, <2>3
<1>4. CASE (s = Start0 /\ D # {}) \/ (s # Start0 /\ s.last # 255)
  <2>1. /\ p \in D /\ p \in P /\ \A q \in P : q = p \/ Before(p, q)
        /\ s.last # Bits - 1 /\ ~s.done
        /\ s # Start0 => p[s.last] = 1 /\ Before(c, p) /\ c \in Code
    <3>1. CASE s = Start0
      <4>1. Dir(s, c) = Zero
        BY <3>1, BitsNat DEF Dir, Start0, Zero
      <4>2. p \in D /\ P = D
        BY <1>1, <1>4, <3>1, PathIn DEF Pending, p
      <4>3. ASSUME NEW q \in D, q # p PROVE Before(p, q)
        BY <1>1, <4>1, <4>3, FindsFirst DEF p
      <4> QED
        BY <3>1, <4>2, <4>3, BitsNat DEF Start0
    <3>2. CASE s # Start0
      <4>1. Proper(D, s, c) /\ c \in Roms /\ s.last # 255 /\ s.last \in 1..Bits
        BY <1>4, <3>2 DEF Going, Proper
      <4>2. p \in D /\ Parts(c, p, s.last)
        BY <4>1, PathLeaves DEF p
      <4>3. P = Later(D, c) /\ p \in P
        BY <3>2, <4>1, <4>2 DEF Pending, Later, Before
      <4>4. ASSUME NEW q \in P, q # p PROVE Before(p, q)
        BY <4>1, <4>3, <4>4, FindsLater DEF p
      <4>5. s.last # Bits - 1
        <5> SUFFICES ASSUME s.last = Bits - 1 PROVE FALSE
          OBVIOUS
        <5>1. Agree(c, p, Bits - 2) /\ c[s.last] # p[s.last] /\ p \in Roms
          BY <4>2, BitsNat DEF Parts, Agree
        <5>2. c # p
          BY <5>1
        <5> QED
          BY <4>1, <5>1, <5>2, RomAssumption DEF Agree
      <4>6. p[s.last] = 1 /\ Before(c, p)
        BY <4>1, <4>2 DEF Before, Parts
      <4> QED
        BY <1>1, <4>1, <4>2, <4>3, <4>4, <4>5, <4>6 DEF Proper
    <3> QED
      BY <3>1, <3>2
  <2>2. p \in Roms /\ p \in Valid /\ ~NoFamily(p) /\ p \in Code
    BY <2>1, NetAssumption, RomAssumption, Codes
  <2>3. x = [ok |-> TRUE, last |-> L, done |-> L \in {s.last, 255}, code |-> p]
    BY <1>1, <2>1, <2>2 DEF Found
  <2>4. /\ L \in 1..Bits \cup {255}
        /\ L = 255 => \A i \in 1..Bits : ~Forks(D, p, i)
        /\ L # 255 => Forks(D, p, L) /\ \A i \in 1..Bits : Forks(D, p, i) => i <= L
    BY <2>1, LastZeroIs
  <2> HIDE DEF L
  <2>5. L # s.last
    <3>1. CASE s = Start0
      BY <2>4, <3>1, BitsNat DEF Start0
    <3>2. CASE s # Start0
      BY <1>4, <2>1, <2>4, <3>2 DEF Forks, Parts
    <3> QED
      BY <3>1, <3>2
  <2>6. Proper(D, t, p)
    <3>1. x.last = L /\ x.done = (L \in {s.last, 255})
      BY <2>3
    <3>2. t.last = L /\ t.done = (L = 255)
      BY <2>5, <3>1
    <3> QED
      BY <2>2, <2>4, <3>2 DEF Proper
  <2>7. Later(D, p) = P \ {p}
    <3>1. ASSUME NEW q \in Later(D, p) PROVE q \in P /\ q # p
      <4>1. q \in D /\ Before(p, q) /\ q \in Code
        BY <3>1, Codes DEF Later
      <4>2. q # p
        BY <2>2, <4>1, Irreflexive
      <4>3. s # Start0 => Before(c, q)
        BY <2>1, <2>2, <4>1, Transitive
      <4> QED
        BY <4>1, <4>2, <4>3 DEF Pending, Later
    <3>2. P \subseteq D
      BY DEF Pending, Later
    <3> QED
      BY <2>1, <3>1, <3>2 DEF Later
  <2> QED
    BY <2>1, <2>3, <2>6, <2>7
<1>5. s.last = 255 => s # Start0
  BY DEF Start0
<1> QED
  BY <1>2, <1>3, <1>4, <1>5

-----------------------------------------------------------------------------
(* What the operators of the model return.                                  *)

LanEntries == [hub : {Zero}, line : {"lan"}, rom : Roms]
BranchEntries == [hub : Couplers, line : {"main", "aux"}, rom : Roms]
Entries == LanEntries \cup BranchEntries

\* The sensors of a coupler in the order of their numbers.
Sensors(c) ==
  [k \in DOMAIN c.main |-> Entry(c.rom, "main", c.main[k])] \o
  [k \in DOMAIN c.aux  |-> Entry(c.rom, "aux", c.aux[k])]

Direct(l) == [i \in DOMAIN l.direct |-> Entry(Zero, "lan", l.direct[i])]

LEMMA IsSeq ==
  ASSUME NEW T, NEW n \in Nat, NEW f \in [1..n -> T]
  PROVE  f \in Seq(T) /\ Len(f) = n
OBVIOUS

LEMMA SensorsTyped ==
  ASSUME NEW c \in Coupler
  PROVE  /\ [k \in DOMAIN c.main |-> Entry(c.rom, "main", c.main[k])] \in Seq(Entries)
         /\ [k \in DOMAIN c.aux |-> Entry(c.rom, "aux", c.aux[k])] \in Seq(Entries)
         /\ Sensors(c) \in Seq(Entries) /\ Len(Sensors(c)) = Len(c.main) + Len(c.aux)
         /\ c.main \in Seq(Roms) /\ c.aux \in Seq(Roms) /\ c.rom \in Couplers
<1> DEFINE m == [k \in DOMAIN c.main |-> Entry(c.rom, "main", c.main[k])]
           a == [k \in DOMAIN c.aux |-> Entry(c.rom, "aux", c.aux[k])]
<1>1. c.main \in Seq(Roms) /\ c.aux \in Seq(Roms) /\ c.rom \in Couplers
  BY DEF Coupler
<1>2. m \in Seq(Entries) /\ Len(m) = Len(c.main)
  <2>1. m \in [1..Len(c.main) -> Entries] /\ Len(c.main) \in Nat
    BY <1>1 DEF Entry, Entries, BranchEntries
  <2> QED
    BY <2>1, IsSeq
<1>3. a \in Seq(Entries) /\ Len(a) = Len(c.aux)
  <2>1. a \in [1..Len(c.aux) -> Entries] /\ Len(c.aux) \in Nat
    BY <1>1 DEF Entry, Entries, BranchEntries
  <2> QED
    BY <2>1, IsSeq
<1>4. Sensors(c) = m \o a
  BY DEF Sensors
<1> HIDE DEF m, a
<1>5. m \o a \in Seq(Entries) /\ Len(m \o a) = Len(m) + Len(a)
  BY <1>2, <1>3, ConcatProperties
<1>6. m \in Seq(Entries) /\ a \in Seq(Entries)
  BY <1>2, <1>3
<1> USE DEF m, a
<1> QED
  BY <1>1, <1>2, <1>3, <1>4, <1>5, <1>6

LEMMA FlatIs ==
  ASSUME NEW l \in Lists
  PROVE  /\ l.direct \in Seq(Roms) /\ l.couplers \in Seq(Coupler)
         /\ Direct(l) \in Seq(Entries) /\ Len(Direct(l)) = Len(l.direct)
         /\ [i \in DOMAIN l.couplers |-> Sensors(l.couplers[i])] \in Seq(Seq(Entries))
         /\ Flat(l) = Direct(l) \o FlattenSeq([i \in DOMAIN l.couplers |-> Sensors(l.couplers[i])])
         /\ Flat(l) \in Seq(Entries)
<1> DEFINE S == [i \in DOMAIN l.couplers |-> Sensors(l.couplers[i])]
<1>1. l.direct \in Seq(Roms) /\ l.couplers \in Seq(Coupler)
  BY DEF Lists
<1>2. Direct(l) \in Seq(Entries) /\ Len(Direct(l)) = Len(l.direct)
  <2>1. Direct(l) \in [1..Len(l.direct) -> Entries] /\ Len(l.direct) \in Nat
    BY <1>1, Codes DEF Direct, Entry, Entries, LanEntries
  <2> QED
    BY <2>1, IsSeq
<1>3. S \in Seq(Seq(Entries))
  <2>1. \A i \in DOMAIN l.couplers : l.couplers[i] \in Coupler
    BY <1>1
  <2>2. \A i \in DOMAIN l.couplers : Sensors(l.couplers[i]) \in Seq(Entries)
    BY <2>1, SensorsTyped
  <2> QED
    BY <1>1, <2>2
<1>4. Flat(l) = Direct(l) \o FlattenSeq(S)
  BY DEF Flat, Direct, Sensors
<1> HIDE DEF S
<1>5. FlattenSeq(S) \in Seq(Entries)
  BY <1>3, FlattenTyped
<1>6. Flat(l) \in Seq(Entries)
  BY <1>2, <1>4, <1>5
<1> USE DEF S
<1> QED
  BY <1>1, <1>2, <1>3, <1>4, <1>6

LEMMA WantedTyped ==
  ASSUME list \in Lists, opt \in Options
  PROVE  Wanted \in Seq(Nat)
<1>1. opt.sensor \in Nat
  BY OptionAssumption
<1>2. [i \in DOMAIN Flat(list) |-> i - 1] \in Seq(Nat)
  BY FlatIs
<1>3. <<>> \in Seq(Nat) /\ <<opt.sensor>> \in Seq(Nat)
  BY <1>1
<1> QED
  BY <1>2, <1>3 DEF Wanted

LEMMA ReadTyped ==
  ASSUME NEW f \in Rcfile
  PROVE  read_rcfile(f) \in Lists
<1>1. f.croms \in Seq(Crom) /\ f.couplers \in Seq(Couplers) /\ f.roms \in Seq(Roms)
  BY DEF Rcfile
<1> DEFINE P(i, way) == Picked(f.croms, {k \in DOMAIN f.croms : f.croms[k].at = i /\ f.croms[k].line = way})
           s(i, way) == [k \in DOMAIN P(i, way) |-> P(i, way)[k].rom]
           c == [i \in DOMAIN f.couplers |->
                  [rom |-> f.couplers[i], main |-> s(i, "main"), aux |-> s(i, "aux")]]
<1>2. ASSUME NEW i, NEW way
      PROVE  s(i, way) \in Seq(Roms)
  <2>1. P(i, way) \in Seq(Crom)
    BY <1>1, PickedTyped
  <2>2. PICK p : p = P(i, way)
    OBVIOUS
  <2>3. s(i, way) = [k \in DOMAIN p |-> p[k].rom]
    BY <2>2
  <2>4. p \in Seq(Crom)
    BY <2>1, <2>2
  <2> HIDE DEF P, s
  <2>5. [k \in DOMAIN p |-> p[k].rom] \in [1..Len(p) -> Roms] /\ Len(p) \in Nat
    <3>1. Len(p) \in Nat /\ DOMAIN p = 1..Len(p) /\ \A k \in 1..Len(p) : p[k] \in Crom
      BY <2>4
    <3>2. \A e \in Crom : e.rom \in Roms
      BY DEF Crom
    <3> QED
      BY <3>1, <3>2
  <2> QED
    BY <2>3, <2>5, IsSeq
<1>3. read_rcfile(f) = [couplers |-> c, direct |-> f.roms]
  BY DEF read_rcfile
<1>4. c \in Seq(Coupler)
  <2> HIDE DEF s
  <2>1. c \in [1..Len(f.couplers) -> Coupler] /\ Len(f.couplers) \in Nat
    BY <1>1, <1>2 DEF Coupler
  <2> QED
    BY <2>1, IsSeq
<1> HIDE DEF c
<1> QED
  BY <1>1, <1>3, <1>4 DEF Lists

\* The lines of the branches of a coupler.
CromLines(i, way, s) == [k \in DOMAIN s |-> [line |-> way, at |-> i, rom |-> s[k]]]
CouplerLines(i, c) == CromLines(i, "main", c.main) \o CromLines(i, "aux", c.aux)

LEMMA LinesTyped ==
  ASSUME NEW i \in Nat, NEW way \in {"main", "aux"}, NEW s \in Seq(Roms)
  PROVE  /\ CromLines(i, way, s) \in Seq(Crom) /\ Len(CromLines(i, way, s)) = Len(s)
         /\ \A k \in 1..Len(s) : CromLines(i, way, s)[k] = [line |-> way, at |-> i, rom |-> s[k]]
<1>1. CromLines(i, way, s) \in [1..Len(s) -> Crom] /\ Len(s) \in Nat
  BY DEF CromLines, Crom
<1> QED
  BY <1>1, IsSeq DEF CromLines

LEMMA WrittenIs ==
  ASSUME NEW l \in Lists
  PROVE  /\ [i \in DOMAIN l.couplers |-> CouplerLines(i, l.couplers[i])] \in Seq(Seq(Crom))
         /\ write_rcfile(l) \in Rcfile
         /\ write_rcfile(l) =
              [roms |-> l.direct, couplers |-> [i \in DOMAIN l.couplers |-> l.couplers[i].rom],
               croms |-> FlattenSeq([i \in DOMAIN l.couplers |-> CouplerLines(i, l.couplers[i])])]
<1> DEFINE S == [i \in DOMAIN l.couplers |-> CouplerLines(i, l.couplers[i])]
<1>1. l.couplers \in Seq(Coupler) /\ l.direct \in Seq(Roms)
  BY DEF Lists
<1>2. ASSUME NEW i \in DOMAIN l.couplers
      PROVE  CouplerLines(i, l.couplers[i]) \in Seq(Crom) /\ l.couplers[i].rom \in Couplers
  <2>1. l.couplers[i] \in Coupler /\ i \in Nat
    BY <1>1
  <2>2. /\ CromLines(i, "main", l.couplers[i].main) \in Seq(Crom)
        /\ CromLines(i, "aux", l.couplers[i].aux) \in Seq(Crom)
    BY <2>1, LinesTyped DEF Coupler
  <2> QED
    BY <2>1, <2>2 DEF CouplerLines, Coupler
<1>3. S \in Seq(Seq(Crom))
  BY <1>1, <1>2
<1>4. [i \in DOMAIN l.couplers |-> l.couplers[i].rom] \in Seq(Couplers)
  BY <1>1, <1>2
<1>5. write_rcfile(l) = [roms |-> l.direct, couplers |-> [i \in DOMAIN l.couplers |-> l.couplers[i].rom],
                         croms |-> FlattenSeq(S)]
  BY DEF write_rcfile, CouplerLines, CromLines
<1> HIDE DEF S
<1>6. FlattenSeq(S) \in Seq(Crom)
  BY <1>3, FlattenTyped
<1>7. write_rcfile(l) \in Rcfile
  BY <1>1, <1>4, <1>5, <1>6 DEF Rcfile
<1> USE DEF S
<1> QED
  BY <1>3, <1>5, <1>7

-----------------------------------------------------------------------------
(* Requests.                                                                *)

FaultOK == faults \in 0..MaxFaults /\ calm \in 0..3 /\ bad \in BOOLEAN /\ dark \in BOOLEAN

LEMMA FaultStep ==
  ASSUME FaultOK, Fine \/ Fails
  PROVE  FaultOK'
<1>1. MaxFaults \in Nat
  BY OptionAssumption
<1>2. CASE Fine
  BY <1>2 DEF Fine, fault, FaultOK
<1>3. CASE Fails
  BY <1>1, <1>3 DEF Fails, FaultOK
<1> QED
  BY <1>2, <1>3

LEMMA SwitchStep ==
  ASSUME NetTypeOK, NEW c, NEW to \in {"off", "main", "aux"}, Switched(c, to) \/ NotSwitched(c, to)
  PROVE  /\ NetTypeOK' /\ UNCHANGED <<place, chip>> /\ (Fine \/ Fails)
         /\ branch' \in {branch, [branch EXCEPT ![c] = to]}
<1>1. CASE Switched(c, to)
  BY <1>1 DEF Switched, NetTypeOK
<1>2. CASE NotSwitched(c, to)
  BY <1>2 DEF NotSwitched, NetTypeOK
<1> QED
  BY <1>1, <1>2

LEMMA Reachable ==
  /\ Visible \in SUBSET Roms
  /\ \A c, l : Behind(c, l) \in SUBSET Roms
BY DEF Visible, Behind

LEMMA FindStep ==
  ASSUME NEW D \in SUBSET Roms, search \in Searches, serial \in Roms \cup {Zero},
         Finds(D) \/ FindsNone(D)
  PROVE  /\ search' \in Searches /\ serial' \in Roms \cup {Zero} /\ (Fine \/ Fails)
         /\ Finds(D) => serial' \in D
<1>1. serial \in Code
  BY Codes
<1>2. ASSUME Finds(D)
      PROVE  Fine /\ search' \in Searches /\ serial' \in D
  <2>1. PICK s : /\ s = Searched(D, search, serial) /\ s.ok /\ Fine
                 /\ serial' = s.code /\ search' = [last |-> s.last, done |-> s.done]
    BY <1>2 DEF Finds
  <2> QED
    BY <1>1, <2>1, SearchTyped
<1>3. ASSUME FindsNone(D)
      PROVE  (Fine \/ Fails) /\ search' \in Searches /\ serial' = serial
  BY <1>3, BitsNat DEF FindsNone, Start0, Searches
<1>4. CASE Finds(D)
  BY <1>2, <1>4
<1>5. CASE FindsNone(D)
  <2>1. ~Finds(D) \/ serial' \in D
    BY <1>2
  <2> QED
    BY <1>3, <1>5, <2>1
<1> QED
  BY <1>4, <1>5

-----------------------------------------------------------------------------
(* The types, and what may be where.                                        *)

DiskOK == file \in Rcfile /\ list \in Lists /\ opt \in Options
FlowOK == pc \in Pcs /\ search \in Searches /\ serial \in Roms \cup {Zero}
Shown == [hub : Code, line : {"lan", "main", "aux"}, rom : Roms]
WalkOK ==
  /\ walked \in Seq(Couplers) /\ shown \in Seq(Shown)
  /\ ci \in Nat \ {0} /\ line \in {"main", "aux"} /\ first \in BOOLEAN
SampleOK == /\ Last2409 \in Branches \cup {Unknown} /\ row \in Seq(Logged)
            /\ round \in Nat /\ next \in Nat \ {0}
ReadingOK == /\ try \in 0 .. MAX_READ_TRIES - 1 /\ seen \subseteq {"glitch", "start"}
             /\ got \in Seq(Sources \cup {"error", "fresh", "none"})

Reading == {"convert", "scratch", "logger", "count", "volts", "temperature", "pio"}
InSample == Reading \cup {"select", "rowEnd", "round"}

\* The kinds that are read at a place.
Reads(kind) ==
  CASE kind = "DS1820" -> {"convert", "scratch"}
    [] kind = "DS28EA00" -> {"convert", "scratch", "pio"}
    [] kind = "DS2413" -> {"pio"}
    [] kind = "DS1923" -> {"logger"}
    [] kind = "DS2423" -> {"count"}
    [] kind = "DS2438" -> {"volts", "temperature"}
    [] OTHER -> {}

HubsThere == \A c \in Couplers : place[c] \in {Nowhere, Lan}
AtBranch  == pc = "branchNext" => ci \in DOMAIN Hubs
AtReading ==
  /\ pc \in Reading => next \in DOMAIN Wanted /\ serial \in Roms /\ pc \in Reads(Kind[serial])
  /\ pc = "scratch" => got \in {<<"fresh">>, <<"none">>}
  /\ pc = "select" => try = 0 /\ seen = {} /\ got = <<>>
Before1 == pc \notin InSample \cup {"leave"} => row = <<>> /\ Last2409 = Unknown

Placed ==
  /\ NetTypeOK /\ DiskOK /\ FlowOK /\ WalkOK /\ SampleOK /\ ReadingOK /\ FaultOK
  /\ HubsThere /\ AtBranch /\ AtReading /\ Before1
  /\ pc = "listOff" => opt.walk

LEMMA PlacedTypes == Placed => TypeOK
BY DEF Placed, TypeOK, DiskOK, FlowOK, WalkOK, SampleOK, ReadingOK, FaultOK, Searches, Shown

LEMMA PlacedInit == Init => Placed
<1> SUFFICES ASSUME Init PROVE Placed
  OBVIOUS
<1>1. NetTypeOK /\ HubsThere
  BY OptionAssumption DEF Init, NetInit, NetTypeOK, HubsThere
<1>2. DiskOK
  <2>1. NoOption \in Options
    BY OptionAssumption DEF NoOption
  <2> QED
    BY <2>1, OptionAssumption DEF Init, DiskOK, NoList, Lists
<1>3. FlowOK /\ WalkOK
  BY BitsNat DEF Init, FlowOK, WalkOK, Pcs, Start0, Searches
<1>4. SampleOK /\ ReadingOK /\ FaultOK
  <2>1. <<>> \in Seq(Logged) /\ <<>> \in Seq(Sources \cup {"error", "fresh", "none"})
    OBVIOUS
  <2>2. SampleOK
    BY <2>1 DEF Init, SampleOK
  <2>3. ReadingOK
    BY <2>1 DEF Init, ReadingOK, MAX_READ_TRIES
  <2>4. MaxFaults \in Nat
    BY OptionAssumption
  <2>5. FaultOK
    <3>1. faults = 0 /\ calm = 0 /\ bad = FALSE /\ dark = FALSE
      BY DEF Init
    <3>2. 0 \in 0..MaxFaults /\ 0 \in 0..3
      BY <2>4
    <3>3. bad \in BOOLEAN /\ dark \in BOOLEAN
      BY <3>1
    <3> QED
      BY <3>1, <3>2, <3>3 DEF FaultOK
  <2> QED
    BY <2>2, <2>3, <2>5
<1>5. AtBranch /\ AtReading /\ Before1 /\ (pc = "listOff" => opt.walk)
  BY DEF Init, AtBranch, AtReading, Before1, Reading, InSample
<1> QED
  BY <1>1, <1>2, <1>3, <1>4, <1>5 DEF Placed

LEMMA Cleared ==
  ASSUME ClearProcess, MaxFaults \in Nat, faults' \in 0..MaxFaults
  PROVE  /\ WalkOK' /\ SampleOK' /\ ReadingOK' /\ FaultOK'
         /\ search' \in Searches /\ serial' \in Roms \cup {Zero}
         /\ row' = <<>> /\ Last2409' = Unknown
<1>1. /\ <<>> \in Seq(Logged) /\ <<>> \in Seq(Sources \cup {"error", "fresh", "none"})
      /\ <<>> \in Seq(Couplers) /\ <<>> \in Seq(Shown)
  OBVIOUS
<1>2. WalkOK'
  BY <1>1 DEF ClearProcess, ClearWalk, WalkOK
<1>3. SampleOK'
  BY <1>1 DEF ClearProcess, SampleOK
<1>4. ReadingOK'
  BY <1>1 DEF ClearProcess, ClearReading, ReadingOK, MAX_READ_TRIES
<1>5. FaultOK'
  <2>1. calm' = 0 /\ bad' = FALSE /\ dark' = FALSE
    BY DEF ClearProcess
  <2>2. bad' \in BOOLEAN /\ dark' \in BOOLEAN
    BY <2>1
  <2>3. 0 \in 0..3
    OBVIOUS
  <2> QED
    BY <2>1, <2>2, <2>3 DEF FaultOK
<1>6. search' \in Searches /\ serial' \in Roms \cup {Zero} /\ row' = <<>> /\ Last2409' = Unknown
  BY BitsNat DEF ClearProcess, Start0, Searches
<1> QED
  BY <1>2, <1>3, <1>4, <1>5, <1>6

\* A process begins or ends.
LEMMA PlacedProcess ==
  ASSUME Placed, (\E o \in Options : Begin(o)) \/ Kill \/ NoAdapter \/ Exit
  PROVE  Placed'
<1>1. MaxFaults \in Nat /\ NoOption \in Options /\ NoList \in Lists
  BY OptionAssumption DEF NoOption, NoList, Lists
<1>2. ClearProcess /\ UNCHANGED <<net, file>> /\ faults' \in 0..MaxFaults
  BY <1>1 DEF Placed, FaultOK, Begin, Kill, NoAdapter, Exit, Ended, disk
<1>3. pc' \in {"acquire", "idle"}
  BY DEF Begin, Kill, NoAdapter, Exit, Ended, Goto
<1>4. opt' \in Options /\ list' \in Lists
  <2>1. CASE \E o \in Options : Begin(o)
    BY <2>1, ReadTyped DEF Placed, DiskOK, Begin
  <2>2. CASE Kill \/ NoAdapter \/ Exit
    BY <1>1, <2>2 DEF Kill, NoAdapter, Exit, Ended
  <2> QED
    BY <2>1, <2>2
<1>5. NetTypeOK' /\ HubsThere' /\ DiskOK'
  BY <1>2, <1>4 DEF Placed, net, NetTypeOK, HubsThere, DiskOK
<1>6. AtBranch' /\ AtReading' /\ Before1' /\ (pc = "listOff" => opt.walk)'
  BY <1>1, <1>2, <1>3, Cleared DEF AtBranch, AtReading, Before1, Reading
<1>7. FlowOK'
  BY <1>1, <1>2, <1>3, Cleared DEF FlowOK, Pcs
<1> QED
  BY <1>1, <1>2, <1>5, <1>6, <1>7, Cleared DEF Placed

\* What an action leaves alone.
LEMMA Frames ==
  ASSUME Placed
  PROVE  /\ UNCHANGED net => NetTypeOK'
         /\ UNCHANGED place => HubsThere'
         /\ UNCHANGED <<disk, lists>> => DiskOK'
         /\ UNCHANGED walk => WalkOK'
         /\ UNCHANGED sample => SampleOK'
         /\ UNCHANGED reading => ReadingOK'
         /\ UNCHANGED fault => FaultOK'
<1>1. UNCHANGED net => NetTypeOK'
  BY DEF Placed, net, NetTypeOK
<1>2. UNCHANGED place => HubsThere'
  BY DEF Placed, HubsThere
<1>3. UNCHANGED <<disk, lists>> => DiskOK'
  BY DEF Placed, disk, lists, DiskOK
<1>4. UNCHANGED walk => WalkOK'
  BY DEF Placed, walk, WalkOK
<1>5. UNCHANGED sample => SampleOK'
  BY DEF Placed, sample, SampleOK
<1>6. UNCHANGED reading => ReadingOK'
  BY DEF Placed, reading, ReadingOK
<1>7. UNCHANGED fault => FaultOK'
  BY DEF Placed, fault, FaultOK
<1> QED
  BY <1>1, <1>2, <1>3, <1>4, <1>5, <1>6, <1>7

\* The couplers are turned off before the list is made and at the end; the power fails.
LEMMA PlacedOff ==
  ASSUME Placed, Acquire \/ TurnOff \/ Forgotten \/ Brownout
  PROVE  Placed'
<1>1. MaxFaults \in Nat /\ NoList \in Lists
  BY OptionAssumption DEF NoList, Lists
<1>2. CASE Acquire
  <2>1. pc = "acquire" /\ pc' \in {"sweep", "forget", "round"}
    BY <1>2 DEF Acquire, Goto
  <2>2. NetTypeOK' /\ HubsThere' /\ DiskOK' /\ WalkOK' /\ SampleOK' /\ ReadingOK' /\ FaultOK'
    BY <1>2, Frames DEF Acquire, net, Fine
  <2>3. FlowOK' /\ AtBranch' /\ AtReading' /\ Before1' /\ (pc = "listOff" => opt.walk)'
    BY <1>2, <2>1 DEF Placed, Acquire, FlowOK, AtBranch, AtReading, Before1, Reading, InSample,
       Pcs, sample
  <2> QED
    BY <2>2, <2>3 DEF Placed
<1>3. CASE TurnOff
  <2>1. /\ pc \in {"forget", "leave"} /\ pc' = pc /\ ci' = ci + 1
        /\ UNCHANGED <<disk, lists, search, serial, walked, shown, line, first, sample, reading>>
    BY <1>3 DEF TurnOff
  <2>2. PICK c : Switched(c, "off") \/ NotSwitched(c, "off")
    BY <1>3 DEF TurnOff
  <2>3. NetTypeOK' /\ UNCHANGED <<place, chip>> /\ (Fine \/ Fails)
    BY <2>2, SwitchStep DEF Placed
  <2>4. HubsThere' /\ DiskOK' /\ SampleOK' /\ ReadingOK' /\ FaultOK'
    BY <2>1, <2>3, Frames, FaultStep DEF Placed
  <2>5. WalkOK'
    BY <2>1 DEF Placed, WalkOK
  <2>6. FlowOK' /\ AtBranch' /\ AtReading' /\ Before1' /\ (pc = "listOff" => opt.walk)'
    BY <2>1 DEF Placed, FlowOK, AtBranch, AtReading, Before1, Reading, InSample, sample
  <2> QED
    BY <2>3, <2>4, <2>5, <2>6 DEF Placed
<1>4. CASE Forgotten
  <2>1. /\ pc = "forget" /\ pc' = "sweep" /\ list' = NoList /\ search' = Start0
        /\ UNCHANGED <<net, disk, opt, serial, walk, sample, reading, fault>>
    BY <1>4 DEF Forgotten, Goto
  <2>2. NetTypeOK' /\ HubsThere' /\ WalkOK' /\ SampleOK' /\ ReadingOK' /\ FaultOK'
    BY <2>1, Frames DEF net
  <2>3. DiskOK'
    BY <1>1, <2>1 DEF Placed, DiskOK, disk
  <2>4. FlowOK' /\ AtBranch' /\ AtReading' /\ Before1' /\ (pc = "listOff" => opt.walk)'
    BY <2>1, BitsNat DEF Placed, FlowOK, AtBranch, AtReading, Before1, Reading, InSample, sample,
       Pcs, Start0, Searches
  <2> QED
    BY <2>2, <2>3, <2>4 DEF Placed
<1>5. CASE Brownout
  <2>1. /\ branch' = [c \in Couplers |-> "off"] /\ faults' \in 0..MaxFaults
        /\ calm' = 0 /\ bad' = TRUE /\ dark' = TRUE
        /\ UNCHANGED <<place, chip, disk, lists, pc, search, serial, walk, sample, reading>>
    BY <1>1, <1>5 DEF Brownout, Placed, FaultOK
  <2>2. NetTypeOK'
    BY <2>1 DEF Placed, NetTypeOK
  <2>3. HubsThere' /\ DiskOK' /\ WalkOK' /\ SampleOK' /\ ReadingOK'
    BY <2>1, Frames
  <2>4. FaultOK'
    <3>1. 0 \in 0..3 /\ bad' \in BOOLEAN /\ dark' \in BOOLEAN
      BY <2>1
    <3> QED
      BY <2>1, <3>1 DEF FaultOK
  <2>5. FlowOK' /\ Before1' /\ (pc = "listOff" => opt.walk)'
    BY <2>1 DEF Placed, FlowOK, Before1, sample, lists
  <2>6. AtBranch' /\ AtReading'
    BY <2>1 DEF Placed, AtBranch, AtReading, Hubs, Wanted, walk, lists, sample, reading
  <2> QED
    BY <2>2, <2>3, <2>4, <2>5, <2>6 DEF Placed
<1> QED
  BY <1>2, <1>3, <1>4, <1>5

\* The steps of Init1WireLan and Walk1Wire touch neither samples nor readings.
LEMMA Unsampled ==
  ASSUME Placed, UNCHANGED <<sample, reading>>, pc \notin InSample \cup {"leave"},
         pc' \in Pcs \ (Reading \cup {"select"})
  PROVE  SampleOK' /\ ReadingOK' /\ AtReading' /\ Before1'
<1>1. SampleOK' /\ ReadingOK'
  BY Frames
<1>2. Before1'
  BY DEF Placed, Before1, sample
<1>3. AtReading'
  BY DEF AtReading, Reading
<1> QED
  BY <1>1, <1>2, <1>3

\* The devices of one kind belong to the lists.
LEMMA ListedTyped ==
  ASSUME list \in Lists, NEW r \in Roms
  PROVE  Listed(r) \in Lists /\ (ci \in Nat => ListedBehind(r) \in Lists)
<1>1. list.direct \in Seq(Roms) /\ list.couplers \in Seq(Coupler)
      /\ list = [direct |-> list.direct, couplers |-> list.couplers]
  BY DEF Lists
<1>2. Listed(r) \in Lists
  <2>1. ASSUME r \in Couplers
        PROVE  Append(list.couplers, [rom |-> r, main |-> <<>>, aux |-> <<>>]) \in Seq(Coupler)
    BY <1>1, <2>1 DEF Coupler
  <2>2. Append(list.direct, r) \in Seq(Roms)
    BY <1>1
  <2> QED
    BY <1>1, <2>1, <2>2 DEF Listed, Lists, Couplers
<1>3. ASSUME ci \in Nat
      PROVE  ListedBehind(r) \in Lists
  <2>1. CASE ci \in DOMAIN list.couplers
    <3>1. PICK c : c = list.couplers[ci]
      OBVIOUS
    <3>2. c \in Coupler /\ c.main \in Seq(Roms) /\ c.aux \in Seq(Roms)
      <4>1. c \in Coupler
        BY <1>1, <2>1, <3>1
      <4> QED
        BY <4>1 DEF Coupler
    <3>3. PICK m : m = Append(c.main, r)
      OBVIOUS
    <3>4. PICK a : a = Append(c.aux, r)
      OBVIOUS
    <3>5. m \in Seq(Roms) /\ a \in Seq(Roms)
      BY <3>2, <3>3, <3>4
    <3>6. [c EXCEPT !.main = m] \in Coupler /\ [c EXCEPT !.aux = a] \in Coupler
      BY <3>2, <3>5 DEF Coupler
    <3>7. ASSUME NEW d \in Coupler
          PROVE  [list EXCEPT !.couplers = [@ EXCEPT ![ci] = d]] \in Lists
      <4>1. [list.couplers EXCEPT ![ci] = d] \in Seq(Coupler)
        BY <1>1, <2>1
      <4> QED
        BY <1>1, <4>1 DEF Lists
    <3>8. /\ ListedBehind(r) = list
          \/ ListedBehind(r) = [list EXCEPT !.couplers = [@ EXCEPT ![ci] = [c EXCEPT !.main = m]]]
          \/ ListedBehind(r) = [list EXCEPT !.couplers = [@ EXCEPT ![ci] = [c EXCEPT !.aux = a]]]
      BY <3>1, <3>3, <3>4 DEF ListedBehind
    <3> QED
      BY <3>6, <3>7, <3>8
  <2>2. CASE ci \notin DOMAIN list.couplers
    <3>1. ListedBehind(r) = list
      BY <1>1, <2>2 DEF ListedBehind
    <3> QED
      BY <3>1
  <2> QED
    BY <2>1, <2>2
<1> QED
  BY <1>2, <1>3

LEMMA PlacedSweep ==
  ASSUME Placed, Sweep \/ CouplerOff("sweepOff", "sweep") \/ CouplerOff("listOff", "list") \/ ListLan
  PROVE  Placed'
<1>1. CASE Sweep
  <2>1. /\ pc = "sweep" /\ pc' \in {"sweep", "sweepOff", "list"}
        /\ UNCHANGED <<net, disk, lists, walk, sample, reading>>
        /\ Finds(Visible) \/ FindsNone(Visible)
    BY <1>1 DEF Sweep, Goto
  <2>2. search' \in Searches /\ serial' \in Roms \cup {Zero} /\ (Fine \/ Fails)
    BY <2>1, FindStep, Reachable DEF Placed, FlowOK
  <2>3. NetTypeOK' /\ HubsThere' /\ DiskOK' /\ WalkOK' /\ FaultOK'
    BY <2>1, <2>2, Frames, FaultStep DEF net, Placed
  <2>4. SampleOK' /\ ReadingOK' /\ AtReading' /\ Before1'
    BY <2>1, Unsampled DEF InSample, Reading, Pcs
  <2>5. FlowOK' /\ AtBranch' /\ (pc = "listOff" => opt.walk)'
    BY <2>1, <2>2 DEF FlowOK, AtBranch, Pcs
  <2> QED
    BY <2>3, <2>4, <2>5 DEF Placed
<1>2. ASSUME NEW here, NEW there, CouplerOff(here, there),
             <<here, there>> \in {<<"sweepOff", "sweep">>, <<"listOff", "list">>}
      PROVE  Placed'
  <2>1. /\ pc \in {"sweepOff", "listOff"} /\ pc' \in {"sweep", "list", "leave"}
        /\ ci' = 1 /\ list' \in {list, NoList}
        /\ UNCHANGED <<disk, opt, search, serial, walked, shown, line, first, sample, reading>>
        /\ Switched(serial, "off") \/ NotSwitched(serial, "off")
    BY <1>2 DEF CouplerOff, Goto
  <2>2. NetTypeOK' /\ UNCHANGED <<place, chip>> /\ (Fine \/ Fails)
    BY <2>1, SwitchStep DEF Placed
  <2>3. HubsThere' /\ FaultOK'
    BY <2>2, Frames, FaultStep DEF Placed
  <2>4. DiskOK' /\ WalkOK'
    <3>1. NoList \in Lists
      BY DEF NoList, Lists
    <3> QED
      BY <2>1, <3>1 DEF Placed, DiskOK, WalkOK, disk
  <2>5. SampleOK' /\ ReadingOK' /\ AtReading' /\ Before1'
    BY <2>1, Unsampled DEF InSample, Reading, Pcs
  <2>6. FlowOK' /\ AtBranch' /\ (pc = "listOff" => opt.walk)'
    BY <2>1 DEF Placed, FlowOK, AtBranch, Pcs
  <2> QED
    BY <2>2, <2>3, <2>4, <2>5, <2>6 DEF Placed
<1>3. CASE ListLan
  <2>1. /\ pc = "list" /\ pc' \in {"list", "listOff", "branch"} /\ (pc' = "listOff" => opt.walk)
        /\ UNCHANGED <<net, disk, opt, ci, line, first, sample, reading>>
        /\ Finds(Visible) \/ FindsNone(Visible)
    BY <1>3 DEF ListLan, Goto
  <2>2. /\ search' \in Searches /\ serial' \in Roms \cup {Zero} /\ (Fine \/ Fails)
        /\ Finds(Visible) => serial' \in Roms
    BY <2>1, FindStep, Reachable DEF Placed, FlowOK
  <2>3. NetTypeOK' /\ HubsThere' /\ FaultOK'
    BY <2>1, <2>2, Frames, FaultStep DEF net, Placed
  <2>4. WalkOK'
    <3>1. /\ shown' = shown \/ (Finds(Visible) /\ shown' = Append(shown, Entry(Zero, "lan", serial')))
          /\ walked' = walked \/ (Finds(Visible) /\ Kind[serial'] = "DS2409" /\ walked' = Append(walked, serial'))
      BY <1>3 DEF ListLan
    <3>2. Finds(Visible) => Entry(Zero, "lan", serial') \in Shown
      BY <2>2, Codes DEF Entry, Shown
    <3>3. Finds(Visible) /\ Kind[serial'] = "DS2409" => serial' \in Couplers
      BY <2>2 DEF Couplers
    <3>4. first' \in BOOLEAN
      BY <2>1 DEF Placed, WalkOK
    <3>5. shown' \in Seq(Shown)
      BY <3>1, <3>2 DEF Placed, WalkOK
    <3>6. walked' \in Seq(Couplers)
      BY <3>1, <3>3 DEF Placed, WalkOK
    <3> QED
      BY <2>1, <3>4, <3>5, <3>6 DEF Placed, WalkOK
  <2>5. DiskOK'
    <3>1. list' = list \/ (Finds(Visible) /\ list' = Listed(serial'))
      BY <1>3 DEF ListLan
    <3>2. list' \in Lists
      BY <2>2, <3>1, ListedTyped DEF Placed, DiskOK
    <3> QED
      BY <2>1, <3>2 DEF Placed, DiskOK, disk
  <2>6. SampleOK' /\ ReadingOK' /\ AtReading' /\ Before1'
    BY <2>1, Unsampled DEF InSample, Reading, Pcs
  <2>7. FlowOK' /\ AtBranch' /\ (pc = "listOff" => opt.walk)'
    BY <2>1, <2>2 DEF FlowOK, AtBranch, Pcs
  <2> QED
    BY <2>3, <2>4, <2>5, <2>6, <2>7 DEF Placed
<1> QED
  BY <1>1, <1>2, <1>3

LEMMA PlacedBranch ==
  ASSUME Placed, ConnectBranch \/ SearchBranch \/ BranchesDone \/ OpenFile \/ CloseFile
  PROVE  Placed'
<1>1. CASE ConnectBranch
  <2>1. /\ pc = "branch" /\ pc' \in {"branch", "branchNext"} /\ ci \in DOMAIN Hubs
        /\ UNCHANGED <<disk, lists, serial, walked, shown, sample, reading>>
    BY <1>1 DEF ConnectBranch, NextBranch, Goto
  <2>2. /\ search' \in {search, Start0} /\ first' \in {first, TRUE} /\ ci' \in {ci, ci + 1}
        /\ line' \in {line, "main", "aux"} /\ (pc' = "branchNext" => ci' = ci)
    BY <1>1 DEF ConnectBranch, NextBranch, Goto
  <2>3. PICK c : Switched(c, line) \/ NotSwitched(c, line)
    BY <1>1 DEF ConnectBranch
  <2>4. line \in {"off", "main", "aux"}
    BY DEF Placed, WalkOK
  <2>5. NetTypeOK' /\ UNCHANGED <<place, chip>> /\ (Fine \/ Fails)
    BY <2>3, <2>4, SwitchStep DEF Placed
  <2>6. HubsThere' /\ FaultOK' /\ DiskOK'
    BY <2>1, <2>5, Frames, FaultStep DEF Placed
  <2>7. WalkOK'
    <3>1. first' \in BOOLEAN
      BY <2>2 DEF Placed, WalkOK
    <3>2. first' \in BOOLEAN => WalkOK'
      BY <2>1, <2>2 DEF Placed, WalkOK
    <3> QED
      BY <3>1, <3>2
  <2>8. SampleOK' /\ ReadingOK' /\ AtReading' /\ Before1'
    BY <2>1, Unsampled DEF InSample, Reading, Pcs
  <2>9. FlowOK' /\ AtBranch' /\ (pc = "listOff" => opt.walk)'
    <3>1. Start0 \in Searches
      BY BitsNat DEF Start0, Searches
    <3>2. FlowOK'
      BY <2>1, <2>2, <3>1 DEF Placed, FlowOK, Pcs
    <3>3. Hubs' = Hubs
      BY <2>1 DEF Hubs, lists
    <3>4. AtBranch'
      BY <2>1, <2>2, <3>3 DEF AtBranch
    <3> QED
      BY <2>1, <3>2, <3>4
  <2> QED
    BY <2>5, <2>6, <2>7, <2>8, <2>9 DEF Placed
<1>2. CASE SearchBranch
  <2> DEFINE c == Hubs[ci]
             devices == IF branch[c] = line THEN Behind(c, line) ELSE {}
  <2>1. /\ pc = "branchNext" /\ pc' = "branch"
        /\ UNCHANGED <<net, disk, opt, walked, sample, reading>>
        /\ Finds(devices) \/ FindsNone(devices)
    BY <1>2 DEF SearchBranch, NextBranch, Goto
  <2>2. /\ first' \in {TRUE, FALSE} /\ ci' \in {ci, ci + 1} /\ line' \in {line, "main", "aux"}
        /\ shown' = shown \/ (Finds(devices) /\ shown' = Append(shown, Entry(c, line, serial')))
        /\ list' = list \/ (Finds(devices) /\ list' = ListedBehind(serial'))
    BY <1>2 DEF SearchBranch, NextBranch
  <2>3. devices \in SUBSET Roms
    BY Reachable
  <2>4. c \in Code
    <3>1. Hubs \in Seq(Couplers)
      <4>1. list.couplers \in Seq(Coupler)
        BY DEF Placed, DiskOK, Lists
      <4>2. \A d \in Coupler : d.rom \in Couplers
        BY DEF Coupler
      <4>3. [i \in DOMAIN list.couplers |-> list.couplers[i].rom] \in Seq(Couplers)
        BY <4>1, <4>2
      <4> QED
        BY <4>3 DEF Hubs, Placed, WalkOK
    <3>2. ci \in DOMAIN Hubs
      BY <2>1 DEF Placed, AtBranch
    <3>3. c \in Couplers
      BY <3>1, <3>2
    <3> QED
      BY <3>3, Codes
  <2> HIDE DEF c, devices
  <2>5. /\ search' \in Searches /\ serial' \in Roms \cup {Zero} /\ (Fine \/ Fails)
        /\ Finds(devices) => serial' \in Roms
    BY <2>1, <2>3, FindStep DEF Placed, FlowOK
  <2>6. NetTypeOK' /\ HubsThere' /\ FaultOK'
    BY <2>1, <2>5, Frames, FaultStep DEF net, Placed
  <2>7. WalkOK'
    <3>1. ASSUME Finds(devices)
          PROVE  Entry(c, line, serial') \in Shown
      BY <2>4, <2>5, <3>1 DEF Entry, Shown, Placed, WalkOK
    <3>2. shown' \in Seq(Shown)
      BY <2>2, <3>1 DEF Placed, WalkOK
    <3>3. first' \in BOOLEAN
      BY <2>2
    <3>4. first' \in BOOLEAN => WalkOK'
      BY <2>1, <2>2, <3>2 DEF Placed, WalkOK
    <3> QED
      BY <3>3, <3>4
  <2>8. DiskOK'
    <3>1. list' \in Lists
      BY <2>2, <2>5, ListedTyped DEF Placed, DiskOK, WalkOK
    <3> QED
      BY <2>1, <3>1 DEF Placed, DiskOK, disk
  <2>9. SampleOK' /\ ReadingOK' /\ AtReading' /\ Before1'
    BY <2>1, Unsampled DEF InSample, Reading, Pcs
  <2>10. FlowOK' /\ AtBranch' /\ (pc = "listOff" => opt.walk)'
    BY <2>1, <2>5 DEF FlowOK, AtBranch, Pcs
  <2> QED
    BY <2>6, <2>7, <2>8, <2>9, <2>10 DEF Placed
<1>3. CASE BranchesDone
  <2>1. /\ pc = "branch" /\ pc' \in {"leave", "write", "round"} /\ ci' = 1
        /\ UNCHANGED <<net, disk, lists, search, serial, walked, shown, line, first, sample, reading, fault>>
    BY <1>3 DEF BranchesDone, Goto
  <2>2. NetTypeOK' /\ HubsThere' /\ DiskOK' /\ FaultOK'
    BY <2>1, Frames DEF net
  <2>3. SampleOK' /\ ReadingOK' /\ AtReading' /\ Before1'
    BY <2>1, Unsampled DEF InSample, Reading, Pcs
  <2>4. WalkOK' /\ FlowOK' /\ AtBranch' /\ (pc = "listOff" => opt.walk)'
    BY <2>1 DEF Placed, WalkOK, FlowOK, AtBranch, Pcs
  <2> QED
    BY <2>2, <2>3, <2>4 DEF Placed
<1>4. CASE OpenFile \/ CloseFile
  <2>1. /\ pc \in {"write", "close"} /\ pc' \in {"close", "round"} /\ file' \in {file, NoFile, write_rcfile(list)}
        /\ UNCHANGED <<net, lists, search, serial, walk, sample, reading>> /\ (Fine \/ Fails)
    BY <1>4 DEF OpenFile, CloseFile, Goto, Fine
  <2>2. NetTypeOK' /\ HubsThere' /\ FaultOK' /\ WalkOK'
    BY <2>1, Frames, FaultStep DEF net, Placed
  <2>3. DiskOK'
    <3>1. NoFile \in Rcfile
      BY DEF NoFile, Rcfile
    <3>2. write_rcfile(list) \in Rcfile
      BY WrittenIs DEF Placed, DiskOK
    <3> QED
      BY <2>1, <3>1, <3>2 DEF Placed, DiskOK, lists
  <2>4. SampleOK' /\ ReadingOK' /\ AtReading' /\ Before1'
    BY <2>1, Unsampled DEF InSample, Reading, Pcs
  <2>5. FlowOK' /\ AtBranch' /\ (pc = "listOff" => opt.walk)'
    BY <2>1 DEF Placed, FlowOK, AtBranch, Pcs
  <2> QED
    BY <2>2, <2>3, <2>4, <2>5 DEF Placed
<1> QED
  BY <1>1, <1>2, <1>3, <1>4

-----------------------------------------------------------------------------
(* The types while sampling.                                                *)

\* How the steps of a reading go on: with the next sensor, or with another step.
Stays ==
  /\ next' = next /\ pc' \in Reads(Kind[serial])
  /\ try' \in 0 .. MAX_READ_TRIES - 1 /\ seen' \subseteq {"glitch", "start"}
  /\ got' \in Seq(Sources \cup {"error", "fresh", "none"})
  /\ pc' = "scratch" => got' \in {<<"fresh">>, <<"none">>}

LogsOne == \E r \in Roms \cup {Zero}, what \in {"fresh", "none"} : Log(r, what)

ReadingFrame == UNCHANGED <<disk, lists, search, serial, walk, Last2409, round>>

LEMMA ReadsAre ==
  /\ \A k : Reads(k) \subseteq Reading
  /\ Reading \subseteq Pcs /\ InSample \subseteq Pcs /\ Reading \subseteq InSample
BY DEF Reads, Reading, InSample, Pcs

LEMMA LoggedTyped ==
  ASSUME Placed, next \in DOMAIN Wanted, row' = row \/ LogsOne
  PROVE  row' \in Seq(Logged)
<1>1. Wanted[next] \in Nat
  BY WantedTyped DEF Placed, DiskOK
<1>2. CASE row' = row
  BY <1>2 DEF Placed, SampleOK
<1>3. CASE LogsOne
  <2>1. PICK r \in Roms \cup {Zero}, what \in {"fresh", "none"} : Log(r, what)
    BY <1>3 DEF LogsOne
  <2>2. [rom |-> r, n |-> Wanted[next], what |-> what] \in Logged
    BY <1>1 DEF Logged
  <2> QED
    BY <2>1, <2>2 DEF Log, Placed, SampleOK
<1> QED
  BY <1>2, <1>3

LEMMA ClearedReading == ASSUME ClearReading PROVE ReadingOK' /\ try' = 0 /\ seen' = {} /\ got' = <<>>
<1>1. <<>> \in Seq(Sources \cup {"error", "fresh", "none"})
  OBVIOUS
<1> QED
  BY <1>1 DEF ClearReading, ReadingOK, MAX_READ_TRIES

LEMMA PlacedReading ==
  ASSUME Placed, pc \in Reading, ReadingFrame, Fine \/ Fails, NetTypeOK', UNCHANGED place,
         row' = row \/ LogsOne, NextSensor \/ Stays
  PROVE  Placed'
<1>1. next \in DOMAIN Wanted /\ serial \in Roms /\ next \in Nat \ {0}
  BY DEF Placed, AtReading, SampleOK
<1>2. UNCHANGED <<disk, lists, search, serial, walk, Last2409, round>>
  BY DEF ReadingFrame
<1>3. HubsThere' /\ DiskOK' /\ WalkOK' /\ FaultOK'
  BY <1>2, Frames, FaultStep DEF Placed
<1>4. row' \in Seq(Logged)
  BY <1>1, LoggedTyped
<1>5. Wanted' = Wanted
  BY <1>2 DEF lists, Wanted
<1>6. CASE NextSensor
  <2>1. next' = next + 1 /\ pc' = "select" /\ ClearReading
    BY <1>6 DEF NextSensor, Goto
  <2>2. ReadingOK' /\ AtReading'
    BY <2>1, ClearedReading DEF AtReading, Reading
  <2>3. SampleOK' /\ FlowOK' /\ AtBranch' /\ Before1' /\ (pc = "listOff" => opt.walk)'
    BY <1>1, <1>2, <1>4, <2>1
       DEF Placed, SampleOK, FlowOK, AtBranch, Before1, InSample, Pcs
  <2> QED
    BY <1>3, <2>2, <2>3 DEF Placed
<1>7. CASE Stays
  <2>1. pc' \in Reading /\ next' = next /\ pc' \in Reads(Kind[serial])
    BY <1>7, ReadsAre DEF Stays
  <2>2. ReadingOK'
    BY <1>7 DEF Stays, ReadingOK
  <2>3. AtReading'
    BY <1>1, <1>2, <1>5, <1>7, <2>1 DEF Stays, AtReading, Reading
  <2>4. FlowOK'
    BY <1>2, <2>1, ReadsAre DEF Placed, FlowOK
  <2>5. SampleOK' /\ AtBranch' /\ Before1' /\ (pc = "listOff" => opt.walk)'
    BY <1>1, <1>2, <1>4, <2>1 DEF Placed, SampleOK, AtBranch, Before1, InSample, Reading
  <2> QED
    BY <1>3, <2>2, <2>3, <2>4, <2>5 DEF Placed
<1> QED
  BY <1>6, <1>7

\* The same step once more.
LEMMA RetryStays ==
  ASSUME Placed, NEW step \in Reads(Kind[serial]), step # "scratch", Retry(step)
  PROVE  NextSensor \/ Stays
<1>1. CASE try + 1 < MAX_READ_TRIES
  <2>1. try' = try + 1 /\ got' = <<>> /\ pc' = step /\ UNCHANGED <<seen, next>>
    BY <1>1 DEF Retry, Goto
  <2>2. try \in 0..2 /\ seen \subseteq {"glitch", "start"}
    BY DEF Placed, ReadingOK, MAX_READ_TRIES
  <2>3. <<>> \in Seq(Sources \cup {"error", "fresh", "none"})
    OBVIOUS
  <2>4. try' \in 0 .. MAX_READ_TRIES - 1
    BY <1>1, <2>1, <2>2 DEF MAX_READ_TRIES
  <2> QED
    BY <2>1, <2>2, <2>3, <2>4 DEF Stays
<1>2. CASE ~(try + 1 < MAX_READ_TRIES)
  BY <1>2 DEF Retry
<1> QED
  BY <1>1, <1>2

LEMMA KindRead ==
  ASSUME Placed
  PROVE  /\ pc \in {"convert", "scratch"} =>
              Kind[serial] \in {"DS1820", "DS28EA00"} /\ {"convert", "scratch"} \subseteq Reads(Kind[serial])
         /\ pc = "pio" => Kind[serial] \in {"DS28EA00", "DS2413"}
         /\ pc = "logger" => Kind[serial] = "DS1923" /\ "logger" \in Reads(Kind[serial])
         /\ pc = "count" => Kind[serial] = "DS2423" /\ "count" \in Reads(Kind[serial])
         /\ pc \in {"volts", "temperature"} =>
              /\ Kind[serial] = "DS2438" /\ serial \in Batteries
              /\ {"volts", "temperature"} \subseteq Reads(Kind[serial])
         /\ pc \in Reading => serial \in Roms
BY DEF Placed, AtReading, Reading, Reads, Batteries

\* One step of a reading.
ReadStep ==
  /\ pc \in Reading /\ ReadingFrame /\ (Fine \/ Fails) /\ NetTypeOK' /\ UNCHANGED place
  /\ row' = row \/ LogsOne
  /\ NextSensor \/ Stays

LEMMA ConvertStep == ASSUME Placed, Convert PROVE ReadStep
<1>1. pc = "convert" /\ ReadingFrame /\ UNCHANGED <<net, row>>
  BY DEF Convert, ReadingFrame
<1>2. Fine \/ Fails
  BY DEF Convert, NoAccess
<1>3. {"convert", "scratch"} \subseteq Reads(Kind[serial])
  BY <1>1, KindRead
<1>4. NextSensor \/ Stays
  <2>1. CASE pc' = "scratch" /\ got' = <<IF Here THEN "fresh" ELSE "none">> /\ UNCHANGED <<next, try, seen>>
    <3>1. <<"fresh">> \in Seq(Sources \cup {"error", "fresh", "none"})
          /\ <<"none">> \in Seq(Sources \cup {"error", "fresh", "none"})
      OBVIOUS
    <3> QED
      BY <1>3, <2>1, <3>1 DEF Stays, Placed, ReadingOK
  <2>2. CASE Retry("convert")
    BY <1>3, <2>2, RetryStays
  <2> QED
    BY <2>1, <2>2 DEF Convert, Goto
<1> QED
  BY <1>1, <1>2, <1>4, Frames DEF ReadStep, Reading, net

LEMMA ScratchStep == ASSUME Placed, Scratch PROVE ReadStep
<1>1. pc = "scratch" /\ ReadingFrame /\ UNCHANGED net
  BY DEF Scratch, ReadingFrame
<1>2. Fine \/ Fails
  BY DEF Scratch, NoAccess
<1>3. {"convert", "scratch"} \subseteq Reads(Kind[serial]) /\ serial \in Roms
  BY <1>1, KindRead DEF Reading
<1>4. NextSensor \/ Stays
  <2>1. ASSUME NEW c \in {"glitch", "start"}, try + 1 < MAX_READ_TRIES, seen' = seen \cup {c},
               try' = try + 1, got' = <<>>, pc' = "convert", UNCHANGED next
        PROVE  Stays
    <3>1. <<>> \in Seq(Sources \cup {"error", "fresh", "none"})
      OBVIOUS
    <3>2. try' \in 0 .. MAX_READ_TRIES - 1 /\ seen' \subseteq {"glitch", "start"}
      BY <2>1 DEF Placed, ReadingOK, MAX_READ_TRIES
    <3> QED
      BY <1>3, <2>1, <3>1, <3>2 DEF Stays
  <2>2. ASSUME Retry("convert") PROVE NextSensor \/ Stays
    BY <1>3, <2>2, RetryStays
  <2> QED
    BY <2>1, <2>2 DEF Scratch, Goto
<1>5. row' = row \/ LogsOne
  <2>1. got[1] \in {"fresh", "none"}
    BY <1>1 DEF Placed, AtReading
  <2> QED
    BY <1>3, <2>1 DEF Scratch, LogsOne
<1> QED
  BY <1>1, <1>2, <1>4, <1>5, Frames DEF ReadStep, Reading, net

LEMMA LoggerStep == ASSUME Placed, ReadLogger PROVE ReadStep
<1>1. pc = "logger" /\ ReadingFrame /\ UNCHANGED net
  BY DEF ReadLogger, ReadingFrame
<1>2. Fine \/ Fails
  BY DEF ReadLogger, NoAccess
<1>3. "logger" \in Reads(Kind[serial]) /\ serial \in Roms
  BY <1>1, KindRead DEF Reading
<1>4. NextSensor \/ Stays
  BY <1>3, RetryStays DEF ReadLogger
<1>5. row' = row \/ LogsOne
  BY <1>3 DEF ReadLogger, LogsOne
<1> QED
  BY <1>1, <1>2, <1>4, <1>5, Frames DEF ReadStep, Reading, net

LEMMA CountStep == ASSUME Placed, Count PROVE ReadStep
<1>1. pc = "count" /\ ReadingFrame /\ UNCHANGED net
  BY DEF Count, ReadingFrame
<1>2. Fine \/ Fails
  BY DEF Count, ReadCounter
<1>3. "count" \in Reads(Kind[serial]) /\ serial \in Roms
  BY <1>1, KindRead DEF Reading
<1>4. NextSensor \/ Stays
  <2>1. CASE try' = 1 /\ UNCHANGED <<pc, next, seen, got>>
    <3>1. 1 \in 0 .. MAX_READ_TRIES - 1
      BY DEF MAX_READ_TRIES
    <3> QED
      BY <1>1, <1>3, <2>1, <3>1 DEF Stays, Placed, ReadingOK
  <2> QED
    BY <2>1 DEF Count
<1>5. row' = row \/ LogsOne
  BY <1>3 DEF Count, LogsOne
<1> QED
  BY <1>1, <1>2, <1>4, <1>5, Frames DEF ReadStep, Reading, net

LEMMA PioStep == ASSUME Placed, Pio PROVE ReadStep
<1>1. pc = "pio" /\ ReadingFrame /\ UNCHANGED net
  BY DEF Pio, ReadingFrame
<1>2. Fine \/ Fails
  BY DEF Pio, Get_2800_Pio
<1>3. serial \in Roms
  BY <1>1, KindRead DEF Reading
<1>4. NextSensor
  BY DEF Pio
<1>5. row' = row \/ LogsOne
  BY <1>3 DEF Pio, LogsOne
<1> QED
  BY <1>1, <1>2, <1>4, <1>5, Frames DEF ReadStep, Reading, net

\* A DS2438 remains one of which both sources are known.
LEMMA ChipTyped ==
  ASSUME Placed, pc \in {"volts", "temperature"}
  PROVE  /\ chip[serial].cfg \in Sources /\ chip[serial].pad \in Sources /\ Source \in Sources
         /\ \A s \in Sources, p \in Sources :
              [chip EXCEPT ![serial] = [pad |-> p, cfg |-> s]] \in [Batteries -> [cfg : Sources, pad : Sources]]
         /\ [chip EXCEPT ![serial].pad = chip[serial].cfg] \in [Batteries -> [cfg : Sources, pad : Sources]]
         /\ chip \in [Batteries -> [cfg : Sources, pad : Sources]]
<1>1. chip \in [Batteries -> [cfg : Sources, pad : Sources]] /\ serial \in Batteries
  BY KindRead DEF Placed, NetTypeOK
<1>2. chip[serial] \in [cfg : Sources, pad : Sources]
  BY <1>1
<1>3. chip[serial].cfg \in Sources /\ chip[serial].pad \in Sources
  BY <1>2
<1>4. Source \in Sources
  BY DEF Source, Sources
<1> QED
  BY <1>1, <1>2, <1>3, <1>4

LEMMA VoltStep ==
  ASSUME Placed, pc = "volts", NEW answer, VoltReading(answer)
  PROVE  NetTypeOK' /\ UNCHANGED <<place, branch>> /\ (Fine \/ Fails)
<1>1. UNCHANGED <<place, branch>> /\ (Fine \/ Fails)
  BY DEF VoltReading
<1>2. SetTo(chip[serial], Source) \in Sources
  BY ChipTyped DEF SetTo
<1>3. chip' \in [Batteries -> [cfg : Sources, pad : Sources]]
  <2>1. \/ chip' = chip
        \/ \E s \in Sources, p \in Sources : chip' = [chip EXCEPT ![serial] = [pad |-> p, cfg |-> s]]
    BY <1>2, ChipTyped DEF VoltReading
  <2> QED
    BY <2>1, ChipTyped
<1> QED
  BY <1>1, <1>3 DEF Placed, NetTypeOK

LEMMA TemperatureTyped ==
  ASSUME Placed, pc = "temperature", NEW answer, GetTemperature(answer)
  PROVE  NetTypeOK' /\ UNCHANGED <<place, branch>> /\ (Fine \/ Fails)
<1>1. UNCHANGED <<place, branch>> /\ (Fine \/ Fails)
  BY DEF GetTemperature
<1>2. chip' \in [Batteries -> [cfg : Sources, pad : Sources]]
  <2>1. chip' \in {chip, [chip EXCEPT ![serial].pad = chip[serial].cfg]}
    BY DEF GetTemperature
  <2> QED
    BY <2>1, ChipTyped
<1> QED
  BY <1>1, <1>2 DEF Placed, NetTypeOK

LEMMA BatteryLogs == ASSUME Placed, pc \in Reading, NEW s, BatteryEnd(s) PROVE LogsOne /\ NextSensor
BY KindRead DEF BatteryEnd, LogsOne

LEMMA VoltsStep == ASSUME Placed, Volts PROVE ReadStep
<1>1. pc = "volts" /\ UNCHANGED <<disk, lists, search, serial, walk, Last2409, round>>
  BY DEF Volts
<1>2. PICK answer \in Sources \cup {"error"} :
        /\ VoltReading(answer)
        /\ IF answer = "error" /\ ~opt.ad THEN Retry("volts") /\ UNCHANGED row
           ELSE IF Len(got) = 2 THEN BatteryEnd(Append(got, answer))
           ELSE /\ got' = Append(got, answer) /\ UNCHANGED <<next, try, seen, row>>
                /\ pc' = IF Len(got) = 1 /\ ~opt.ad THEN "temperature" ELSE "volts"
  BY DEF Volts, Goto
<1>3. NetTypeOK' /\ UNCHANGED place /\ (Fine \/ Fails)
  BY <1>1, <1>2, VoltStep
<1>4. {"volts", "temperature"} \subseteq Reads(Kind[serial])
  BY <1>1, KindRead
<1>5. (row' = row \/ LogsOne) /\ (NextSensor \/ Stays)
  <2>1. CASE answer = "error" /\ ~opt.ad
    BY <1>2, <1>4, <2>1, RetryStays
  <2>2. CASE ~(answer = "error" /\ ~opt.ad) /\ Len(got) = 2
    BY <1>1, <1>2, <2>2, BatteryLogs DEF Reading
  <2>3. CASE ~(answer = "error" /\ ~opt.ad) /\ Len(got) # 2
    <3>1. /\ got' = Append(got, answer) /\ UNCHANGED <<next, try, seen, row>>
          /\ pc' \in {"volts", "temperature"}
      BY <1>2, <2>3
    <3>2. got' \in Seq(Sources \cup {"error", "fresh", "none"})
      BY <3>1 DEF Placed, ReadingOK
    <3> QED
      BY <1>4, <3>1, <3>2 DEF Stays, Placed, ReadingOK
  <2> QED
    BY <2>1, <2>2, <2>3
<1> QED
  BY <1>1, <1>3, <1>5 DEF ReadStep, ReadingFrame, Reading

LEMMA TemperatureStep == ASSUME Placed, Temperature PROVE ReadStep
<1>1. pc = "temperature" /\ UNCHANGED <<disk, lists, search, serial, walk, Last2409, round>>
  BY DEF Temperature
<1>2. PICK answer \in {"fresh", "none"} :
        /\ GetTemperature(answer)
        /\ IF opt.ad THEN got' = <<answer>> /\ pc' = "volts" /\ UNCHANGED <<next, try, seen, row>>
           ELSE BatteryEnd(Append(got, answer))
  BY DEF Temperature, Goto
<1>3. NetTypeOK' /\ UNCHANGED place /\ (Fine \/ Fails)
  BY <1>1, <1>2, TemperatureTyped
<1>4. {"volts", "temperature"} \subseteq Reads(Kind[serial])
  BY <1>1, KindRead
<1>5. (row' = row \/ LogsOne) /\ (NextSensor \/ Stays)
  <2>1. CASE opt.ad
    <3>1. <<answer>> \in Seq(Sources \cup {"error", "fresh", "none"})
      OBVIOUS
    <3> QED
      BY <1>2, <1>4, <2>1, <3>1 DEF Stays, Placed, ReadingOK
  <2>2. CASE ~opt.ad
    BY <1>1, <1>2, <2>2, BatteryLogs DEF Reading
  <2> QED
    BY <2>1, <2>2
<1> QED
  BY <1>1, <1>3, <1>5 DEF ReadStep, ReadingFrame, Reading

-----------------------------------------------------------------------------
(* Which sensor has a number.                                               *)

\* The first i sequences one after another.
UpTo(s, i) == FlattenSeq(SubSeq(s, 1, i))

LEMMA UpToTyped ==
  ASSUME NEW T, NEW s \in Seq(Seq(T)), NEW i \in 0..Len(s)
  PROVE  UpTo(s, i) \in Seq(T) /\ Len(UpTo(s, i)) \in Nat
<1>1. SubSeq(s, 1, i) \in Seq(Seq(T))
  OBVIOUS
<1>2. UpTo(s, i) \in Seq(T)
  BY <1>1, FlattenTyped DEF UpTo
<1> QED
  BY <1>2

LEMMA UpToStep ==
  ASSUME NEW T, NEW s \in Seq(Seq(T))
  PROVE  /\ UpTo(s, 0) = <<>> /\ UpTo(s, Len(s)) = FlattenSeq(s)
         /\ \A i \in 1..Len(s) : UpTo(s, i) = UpTo(s, i - 1) \o s[i]
<1>1. UpTo(s, 0) = <<>>
  <2>1. SubSeq(s, 1, 0) = <<>>
    OBVIOUS
  <2> QED
    BY <2>1, FlattenEmpty DEF UpTo
<1>2. UpTo(s, Len(s)) = FlattenSeq(s)
  <2>1. SubSeq(s, 1, Len(s)) = s
    OBVIOUS
  <2> QED
    BY <2>1 DEF UpTo
<1>3. ASSUME NEW i \in 1..Len(s)
      PROVE  UpTo(s, i) = UpTo(s, i - 1) \o s[i]
  <2>1. PICK b : b = SubSeq(s, 1, i - 1)
    OBVIOUS
  <2>2. b \in Seq(Seq(T)) /\ s[i] \in Seq(T)
    BY <2>1
  <2>3. SubSeq(s, 1, i) = Append(b, s[i])
    BY <2>1
  <2>4. FlattenSeq(Append(b, s[i])) = FlattenSeq(b) \o s[i]
    BY <2>2, FlattenLast
  <2> QED
    BY <2>1, <2>3, <2>4 DEF UpTo
<1> QED
  BY <1>1, <1>2, <1>3

LEMMA UpToKeeps ==
  ASSUME NEW T, NEW s \in Seq(Seq(T)), NEW i \in 0..Len(s)
  PROVE  \A k \in i..Len(s) :
           /\ Len(UpTo(s, i)) <= Len(UpTo(s, k))
           /\ \A p \in 1..Len(UpTo(s, i)) : UpTo(s, k)[p] = UpTo(s, i)[p]
<1> DEFINE Keeps(k) == /\ Len(UpTo(s, i)) <= Len(UpTo(s, k))
                       /\ \A p \in 1..Len(UpTo(s, i)) : UpTo(s, k)[p] = UpTo(s, i)[p]
           S == {k \in Nat : i <= k /\ k <= Len(s) => Keeps(k)}
<1>1. 0 \in S
  <2>1. i <= 0 => i = 0
    OBVIOUS
  <2> QED
    BY <2>1, UpToTyped
<1>2. ASSUME NEW k \in Nat, k \in S PROVE k + 1 \in S
  <2> SUFFICES ASSUME i <= k + 1, k + 1 <= Len(s) PROVE Keeps(k + 1)
    OBVIOUS
  <2>1. PICK a : a = UpTo(s, i)
    OBVIOUS
  <2>2. PICK b : b = UpTo(s, k)
    OBVIOUS
  <2>3. PICK x : x = s[k + 1]
    OBVIOUS
  <2>4. a \in Seq(T) /\ b \in Seq(T) /\ x \in Seq(T)
    BY <2>1, <2>2, <2>3, UpToTyped
  <2>5. CASE i = k + 1
    BY <2>1, <2>4, <2>5
  <2>6. CASE i # k + 1
    <3>1. k + 1 \in 1..Len(s) /\ (k + 1) - 1 = k
      OBVIOUS
    <3>2. UpTo(s, k + 1) = b \o x
      BY <2>2, <2>3, <3>1, UpToStep
    <3>3. Len(a) <= Len(b) /\ \A p \in 1..Len(a) : b[p] = a[p]
      BY <1>2, <2>1, <2>2, <2>6
    <3>4. Len(a) <= Len(b \o x) /\ \A p \in 1..Len(a) : (b \o x)[p] = a[p]
      BY <2>4, <3>3, ConcatProperties
    <3> QED
      BY <2>1, <3>2, <3>4
  <2> QED
    BY <2>5, <2>6
<1> HIDE DEF S
<1>3. \A k \in Nat : k \in S
  BY <1>1, <1>2, Induction
<1> QED
  BY <1>3 DEF S

LEMMA FlattenAt ==
  ASSUME NEW T, NEW s \in Seq(Seq(T)), NEW i \in 1..Len(s), NEW q \in 1..Len(s[i]),
         NEW p, p = Len(UpTo(s, i - 1)) + q
  PROVE  p \in 1..Len(FlattenSeq(s)) /\ FlattenSeq(s)[p] = s[i][q]
<1>1. PICK a : a = UpTo(s, i - 1)
  OBVIOUS
<1>2. PICK x : x = s[i]
  OBVIOUS
<1>3. PICK b : b = UpTo(s, i)
  OBVIOUS
<1>4. a \in Seq(T) /\ x \in Seq(T) /\ b \in Seq(T) /\ b = a \o x /\ i \in 0..Len(s)
  <2>1. i - 1 \in 0..Len(s) /\ i \in 0..Len(s)
    OBVIOUS
  <2>2. a \in Seq(T) /\ b \in Seq(T)
    BY <1>1, <1>3, <2>1, UpToTyped
  <2>3. b = a \o x
    BY <1>1, <1>2, <1>3, UpToStep
  <2> QED
    BY <1>2, <2>1, <2>2, <2>3
<1>5. Len(a) \in Nat /\ Len(x) \in Nat /\ q \in 1..Len(x) /\ p = Len(a) + q
  BY <1>1, <1>2, <1>4
<1>6. p \in 1..Len(b) /\ b[p] = x[q]
  BY <1>4, <1>5, ConcatProperties
<1>7. Len(s) \in i..Len(s)
  OBVIOUS
<1>10. UpTo(s, Len(s)) = FlattenSeq(s)
  BY UpToStep
<1>8. Len(b) <= Len(FlattenSeq(s)) /\ \A r \in 1..Len(b) : FlattenSeq(s)[r] = b[r]
  BY <1>3, <1>4, <1>7, <1>10, UpToKeeps
<1>9. FlattenSeq(s) \in Seq(T) /\ Len(b) \in Nat
  BY <1>4, FlattenTyped
<1> QED
  BY <1>2, <1>6, <1>8, <1>9

LEMMA FlattenFrom ==
  ASSUME NEW T, NEW s \in Seq(Seq(T)), NEW p \in 1..Len(FlattenSeq(s))
  PROVE  \E i \in 1..Len(s) : \E q \in 1..Len(s[i]) : p = Len(UpTo(s, i - 1)) + q
<1> DEFINE S == {k \in Nat : k <= Len(s) /\ p <= Len(UpTo(s, k)) =>
                   \E i \in 1..k : \E q \in 1..Len(s[i]) : p = Len(UpTo(s, i - 1)) + q}
<1>1. 0 \in S
  <2>1. UpTo(s, 0) = <<>>
    BY UpToStep
  <2> QED
    BY <2>1
<1>2. ASSUME NEW k \in Nat, k \in S PROVE k + 1 \in S
  <2> SUFFICES ASSUME k + 1 <= Len(s), p <= Len(UpTo(s, k + 1))
               PROVE  \E i \in 1..k + 1 : \E q \in 1..Len(s[i]) : p = Len(UpTo(s, i - 1)) + q
    OBVIOUS
  <2>1. PICK b : b = UpTo(s, k)
    OBVIOUS
  <2>2. PICK x : x = s[k + 1]
    OBVIOUS
  <2>3. b \in Seq(T) /\ x \in Seq(T)
    BY <2>1, <2>2, UpToTyped
  <2>4. k + 1 \in 1..Len(s) /\ (k + 1) - 1 = k /\ k + 1 \in 1..k + 1
    OBVIOUS
  <2>5. UpTo(s, k + 1) = b \o x
    BY <2>1, <2>2, <2>4, UpToStep
  <2>6. Len(b) \in Nat /\ Len(x) \in Nat /\ p <= Len(b) + Len(x)
    BY <2>3, <2>5, ConcatProperties
  <2>7. CASE p <= Len(b)
    <3>1. PICK i \in 1..k : \E q \in 1..Len(s[i]) : p = Len(UpTo(s, i - 1)) + q
      BY <1>2, <2>1, <2>7
    <3>2. i \in 1..k + 1
      OBVIOUS
    <3> QED
      BY <3>1, <3>2
  <2>8. CASE p > Len(b)
    <3>1. PICK q : q = p - Len(b)
      OBVIOUS
    <3>2. q \in 1..Len(x) /\ p = Len(b) + q
      BY <2>6, <2>8, <3>1
    <3> QED
      BY <2>1, <2>2, <2>4, <3>2
  <2> QED
    BY <2>6, <2>7, <2>8
<1> HIDE DEF S
<1>3. \A k \in Nat : k \in S
  BY <1>1, <1>2, Induction
<1>4. Len(s) \in Nat
  OBVIOUS
<1>6. UpTo(s, Len(s)) = FlattenSeq(s)
  BY UpToStep
<1>5. p <= Len(FlattenSeq(s))
  OBVIOUS
<1> QED
  BY <1>3, <1>4, <1>5, <1>6 DEF S

SensorLists(l) == [i \in DOMAIN l.couplers |-> Sensors(l.couplers[i])]

LEMMA SensorListsTyped ==
  ASSUME NEW l \in Lists
  PROVE  /\ SensorLists(l) \in Seq(Seq(Entries)) /\ Len(SensorLists(l)) = Len(l.couplers)
         /\ DOMAIN l.couplers = 1..Len(l.couplers) /\ Len(l.couplers) \in Nat
         /\ \A i \in 1..Len(l.couplers) :
              l.couplers[i] \in Coupler /\ SensorLists(l)[i] = Sensors(l.couplers[i])
<1>1. l.couplers \in Seq(Coupler)
  BY FlatIs
<1>2. SensorLists(l) \in Seq(Seq(Entries))
  BY FlatIs DEF SensorLists
<1>3. DOMAIN SensorLists(l) = 1..Len(l.couplers) /\ Len(l.couplers) \in Nat
  BY <1>1 DEF SensorLists
<1>4. Len(SensorLists(l)) = Len(l.couplers)
  BY <1>2, <1>3
<1>5. \A i \in 1..Len(l.couplers) : l.couplers[i] \in Coupler /\ SensorLists(l)[i] = Sensors(l.couplers[i])
  BY <1>1 DEF SensorLists
<1> QED
  BY <1>1, <1>2, <1>3, <1>4, <1>5

\* g[j]: the sensors before those of coupler j, for the couplers up to i.
Sums(g, i) ==
  g = [j \in 1..i |->
         IF j = 1 THEN Len(list.direct)
         ELSE g[j - 1] + Len(list.couplers[j - 1].main) + Len(list.couplers[j - 1].aux)]

LEMMA Before0Is ==
  ASSUME list \in Lists, NEW i \in DOMAIN list.couplers
  PROVE  Before0(i) = Len(list.direct) + Len(UpTo(SensorLists(list), i - 1))
<1> DEFINE s == SensorLists(list)
           d == Len(list.direct)
           L == [j \in 0..Len(s) |-> Len(UpTo(s, j))]
           w == [j \in 1..i |-> d + L[j - 1]]
           g == CHOOSE g : Sums(g, i)
<1>1. s \in Seq(Seq(Entries)) /\ i \in 1..Len(s) /\ d \in Nat /\ Len(s) \in Nat /\ i \in Nat /\ 1 <= i
  BY SensorListsTyped, FlatIs
<1>2. \A j \in 0..Len(s) : L[j] \in Nat
  BY <1>1, UpToTyped
<1>3. L[0] = 0
  <2>1. UpTo(s, 0) = <<>>
    BY <1>1, UpToStep
  <2> QED
    BY <1>1, <2>1
<1>4. ASSUME NEW j \in 1..i
      PROVE  L[j] = L[j - 1] + Len(list.couplers[j].main) + Len(list.couplers[j].aux)
  <2>1. j \in 1..Len(s) /\ list.couplers[j] \in Coupler /\ s[j] = Sensors(list.couplers[j])
    BY <1>1, SensorListsTyped
  <2>2. UpTo(s, j) = UpTo(s, j - 1) \o s[j]
    BY <1>1, <2>1, UpToStep
  <2>3. Len(s[j]) = Len(list.couplers[j].main) + Len(list.couplers[j].aux) /\ s[j] \in Seq(Entries)
        /\ list.couplers[j].main \in Seq(Roms) /\ list.couplers[j].aux \in Seq(Roms)
    BY <2>1, SensorsTyped
  <2>4. j - 1 \in 0..Len(s)
    BY <2>1
  <2>5. PICK b : b = UpTo(s, j - 1)
    OBVIOUS
  <2>6. b \in Seq(Entries)
    BY <1>1, <2>4, <2>5, UpToTyped
  <2>7. Len(b \o s[j]) = Len(b) + Len(s[j])
    BY <2>3, <2>6, ConcatProperties
  <2>8. Len(b) \in Nat /\ Len(list.couplers[j].main) \in Nat /\ Len(list.couplers[j].aux) \in Nat
    BY <2>3, <2>6
  <2>9. L[j] = Len(b \o s[j])
    BY <2>1, <2>2, <2>5
  <2>10. L[j - 1] = Len(b)
    BY <2>4, <2>5
  <2>11. Len(b \o s[j]) = Len(b) + Len(list.couplers[j].main) + Len(list.couplers[j].aux)
    <3>1. PICK m : m = Len(list.couplers[j].main)
      OBVIOUS
    <3>2. PICK a : a = Len(list.couplers[j].aux)
      OBVIOUS
    <3>3. PICK c : c = Len(b)
      OBVIOUS
    <3>4. Len(b \o s[j]) = c + (m + a) /\ c \in Nat /\ m \in Nat /\ a \in Nat
      BY <2>3, <2>7, <2>8, <3>1, <3>2, <3>3
    <3>5. c + (m + a) = c + m + a
      BY <3>4
    <3> QED
      BY <3>1, <3>2, <3>3, <3>4, <3>5
  <2> QED
    BY <2>9, <2>10, <2>11
<1> HIDE DEF s, d, L
<1>5. Sums(w, i)
  <2>1. ASSUME NEW j \in 1..i, j # 1
        PROVE  w[j] = w[j - 1] + Len(list.couplers[j - 1].main) + Len(list.couplers[j - 1].aux)
    <3>1. PICK k : k = j - 1
      OBVIOUS
    <3>2. k \in 1..i /\ k \in 0..Len(s) /\ k - 1 \in 0..Len(s) /\ j - 1 = k
      BY <1>1, <2>1, <3>1
    <3>3. w[j] = d + L[k] /\ w[k] = d + L[k - 1]
      BY <3>1, <3>2
    <3>4. L[k] = L[k - 1] + Len(list.couplers[k].main) + Len(list.couplers[k].aux)
      BY <1>4, <3>2
    <3>5. L[k - 1] \in Nat /\ Len(list.couplers[k].main) \in Nat /\ Len(list.couplers[k].aux) \in Nat
      <4>1. list.couplers[k] \in Coupler
        BY <1>1, <3>2, SensorListsTyped DEF s
      <4>2. list.couplers[k].main \in Seq(Roms) /\ list.couplers[k].aux \in Seq(Roms)
        BY <4>1, SensorsTyped
      <4>3. L[k - 1] \in Nat
        BY <1>2, <3>2
      <4> QED
        BY <4>2, <4>3
    <3> HIDE DEF w
    <3>6. d + L[k] = d + L[k - 1] + Len(list.couplers[k].main) + Len(list.couplers[k].aux)
      <4>1. PICK x : x = L[k - 1]
        OBVIOUS
      <4>2. PICK m : m = Len(list.couplers[k].main)
        OBVIOUS
      <4>3. PICK a : a = Len(list.couplers[k].aux)
        OBVIOUS
      <4>4. L[k] = x + m + a /\ x \in Nat /\ m \in Nat /\ a \in Nat /\ d \in Nat
        BY <1>1, <3>4, <3>5, <4>1, <4>2, <4>3
      <4>5. d + (x + m + a) = d + x + m + a
        BY <4>4
      <4> QED
        BY <4>1, <4>2, <4>3, <4>4, <4>5
    <3>7. w[j] = w[k] + Len(list.couplers[k].main) + Len(list.couplers[k].aux)
      BY <3>3, <3>6
    <3> QED
      BY <3>2, <3>7
  <2>2. w[1] = d
    <3>1. 1 \in 1..i /\ 1 - 1 = 0
      BY <1>1
    <3> QED
      BY <1>1, <1>3, <3>1
  <2>3. \A j \in 1..i : w[j] = IF j = 1 THEN d
                               ELSE w[j - 1] + Len(list.couplers[j - 1].main) + Len(list.couplers[j - 1].aux)
    BY <2>1, <2>2
  <2>4. w = [j \in 1..i |-> w[j]]
    OBVIOUS
  <2> HIDE DEF w
  <2> QED
    BY <2>3, <2>4 DEF Sums, d
<1>6. Sums(g, i)
  BY <1>5
<1>7. Before0(i) = g[i]
  BY DEF Before0, Sums
<1>12. L[i - 1] = Len(UpTo(SensorLists(list), i - 1))
  BY <1>1 DEF L, s
<1>13. w[i] = d + L[i - 1]
  BY <1>1
<1> HIDE DEF g, w
<1> DEFINE S == {j \in Nat : 1 <= j /\ j <= i => g[j] = w[j]}
<1>8. 0 \in S
  OBVIOUS
<1>9. ASSUME NEW j \in Nat, j \in S PROVE j + 1 \in S
  <2> SUFFICES ASSUME j + 1 <= i PROVE g[j + 1] = w[j + 1]
    OBVIOUS
  <2>1. j + 1 \in 1..i /\ (j + 1) - 1 = j
    OBVIOUS
  <2>2. ASSUME NEW h, Sums(h, i)
        PROVE  h[j + 1] = IF j + 1 = 1 THEN Len(list.direct)
                          ELSE h[j] + Len(list.couplers[j].main) + Len(list.couplers[j].aux)
    BY <2>1, <2>2 DEF Sums
  <2>3. j # 0 => g[j] = w[j]
    <3>1. j # 0 => 1 <= j /\ j <= i
      BY <1>1
    <3> QED
      BY <1>9, <3>1
  <2> QED
    BY <1>5, <1>6, <2>2, <2>3
<1> HIDE DEF S
<1>10. \A j \in Nat : j \in S
  BY <1>8, <1>9, Induction
<1>11. g[i] = w[i]
  BY <1>1, <1>10 DEF S
<1> QED
  BY <1>7, <1>11, <1>12, <1>13 DEF d

\* The sensors of one coupler of which the first has the number 0.
OneOf(c, s) ==
  (IF s \in 0 .. Len(c.main) - 1 THEN {Entry(c.rom, "main", c.main[s + 1])} ELSE {}) \cup
  (IF s - Len(c.main) \in 0 .. Len(c.aux) - 1
   THEN {Entry(c.rom, "aux", c.aux[s - Len(c.main) + 1])} ELSE {})

LEMMA OneOfIs ==
  ASSUME NEW c \in Coupler, NEW s \in Int
  PROVE  OneOf(c, s) = IF s + 1 \in 1..Len(Sensors(c)) THEN {Sensors(c)[s + 1]} ELSE {}
<1> DEFINE m == [k \in DOMAIN c.main |-> Entry(c.rom, "main", c.main[k])]
           a == [k \in DOMAIN c.aux |-> Entry(c.rom, "aux", c.aux[k])]
<1>1. /\ c.main \in Seq(Roms) /\ c.aux \in Seq(Roms)
      /\ m \in Seq(Entries) /\ a \in Seq(Entries) /\ Sensors(c) = m \o a
      /\ Len(m) = Len(c.main) /\ Len(a) = Len(c.aux)
  <2>1. c.main \in Seq(Roms) /\ c.aux \in Seq(Roms) /\ m \in Seq(Entries) /\ a \in Seq(Entries)
    BY SensorsTyped
  <2>2. Sensors(c) = m \o a
    BY DEF Sensors
  <2>3. Len(m) = Len(c.main) /\ Len(a) = Len(c.aux)
    BY <2>1
  <2> QED
    BY <2>1, <2>2, <2>3
<1>2. PICK x : x = Len(c.main)
  OBVIOUS
<1>3. PICK y : y = Len(c.aux)
  OBVIOUS
<1>4. x \in Nat /\ y \in Nat
  BY <1>1, <1>2, <1>3
<1>5. DOMAIN c.main = 1..x /\ DOMAIN c.aux = 1..y
  BY <1>1, <1>2, <1>3
<1>6. \A k \in 1..x : m[k] = Entry(c.rom, "main", c.main[k])
  BY <1>5
<1>7. \A k \in 1..y : a[k] = Entry(c.rom, "aux", c.aux[k])
  BY <1>5
<1>8. PICK z : z = m \o a
  OBVIOUS
<1> HIDE DEF m, a
<1>9. Len(z) = x + y /\ \A i \in 1..x + y : z[i] = IF i <= x THEN m[i] ELSE a[i - x]
  <2>1. m \in Seq(Entries) /\ a \in Seq(Entries)
    BY <1>1
  <2>2. /\ Len(m \o a) = Len(m) + Len(a)
        /\ \A i \in 1..Len(m) + Len(a) : (m \o a)[i] = IF i <= Len(m) THEN m[i] ELSE a[i - Len(m)]
    BY <2>1, ConcatProperties
  <2>3. Len(m) = x /\ Len(a) = y
    BY <1>1, <1>2, <1>3
  <2> QED
    BY <1>8, <2>2, <2>3
<1>10. CASE s \in 0 .. x - 1
  <2>1. s + 1 \in 1..x /\ s + 1 \in 1..x + y /\ s - x \notin 0 .. y - 1
    BY <1>4, <1>10
  <2>2. z[s + 1] = Entry(c.rom, "main", c.main[s + 1])
    <3>1. z[s + 1] = m[s + 1]
      BY <1>9, <2>1
    <3> QED
      BY <1>6, <2>1, <3>1
  <2>3. OneOf(c, s) = {Entry(c.rom, "main", c.main[s + 1])}
    BY <1>2, <1>3, <1>10, <2>1 DEF OneOf
  <2> QED
    BY <1>1, <1>8, <1>9, <2>1, <2>2, <2>3
<1>11. CASE s - x \in 0 .. y - 1
  <2>1. /\ s \notin 0 .. x - 1 /\ s + 1 \in 1..x + y /\ ~(s + 1 <= x)
        /\ s + 1 - x = s - x + 1 /\ s - x + 1 \in 1..y
    BY <1>4, <1>11
  <2>2. z[s + 1] = Entry(c.rom, "aux", c.aux[s - x + 1])
    <3>1. PICK t : t = s + 1
      OBVIOUS
    <3>2. t \in 1..x + y /\ ~(t <= x)
      BY <2>1, <3>1
    <3>3. z[t] = a[t - x]
      BY <1>9, <3>2
    <3>4. t - x = s - x + 1
      BY <1>4, <3>1
    <3> QED
      BY <1>7, <2>1, <3>1, <3>3, <3>4
  <2>3. OneOf(c, s) = {Entry(c.rom, "aux", c.aux[s - x + 1])}
    BY <1>2, <1>3, <1>11, <2>1 DEF OneOf
  <2> QED
    BY <1>1, <1>8, <1>9, <2>1, <2>2, <2>3
<1>12. CASE s \notin 0 .. x - 1 /\ s - x \notin 0 .. y - 1
  <2>1. s + 1 \notin 1..x + y
    BY <1>4, <1>12
  <2>2. OneOf(c, s) = {}
    BY <1>2, <1>3, <1>12 DEF OneOf
  <2> QED
    BY <1>1, <1>8, <1>9, <2>1, <2>2
<1> QED
  BY <1>10, <1>11, <1>12

\* The numbers of the sensors are their places in Flat.
LEMMA ChosenIs ==
  ASSUME list \in Lists, NEW n \in Nat
  PROVE  Chosen(n) = IF n < Len(Flat(list)) THEN {Flat(list)[n + 1]} ELSE {}
<1> DEFINE s == SensorLists(list)
           F == FlattenSeq(s)
           m == Len(list.couplers)
           D == Direct(list)
<1>1. /\ D \in Seq(Entries) /\ Len(D) = Len(list.direct) /\ Flat(list) = D \o F /\ F \in Seq(Entries)
      /\ s \in Seq(Seq(Entries)) /\ Len(s) = m /\ DOMAIN list.couplers = 1..m /\ m \in Nat
      /\ list.direct \in Seq(Roms)
  <2>1. s \in Seq(Seq(Entries)) /\ Len(s) = m /\ DOMAIN list.couplers = 1..m /\ m \in Nat
    BY SensorListsTyped
  <2>2. D \in Seq(Entries) /\ Len(D) = Len(list.direct) /\ Flat(list) = D \o F /\ list.direct \in Seq(Roms)
    BY FlatIs DEF SensorLists
  <2>3. F \in Seq(Entries)
    BY <2>1, FlattenTyped
  <2> QED
    BY <2>1, <2>2, <2>3
<1>2. PICK d : d = Len(list.direct)
  OBVIOUS
<1>3. PICK z : z = Flat(list)
  OBVIOUS
<1>4. PICK f : f = F
  OBVIOUS
<1> HIDE DEF F, D
<1>5. /\ d \in Nat /\ Len(f) \in Nat /\ Len(z) = d + Len(f)
      /\ \A i \in 1..d + Len(f) : z[i] = IF i <= d THEN D[i] ELSE f[i - d]
  <2>1. Len(D \o f) = Len(D) + Len(f) /\
        \A i \in 1..Len(D) + Len(f) : (D \o f)[i] = IF i <= Len(D) THEN D[i] ELSE f[i - Len(D)]
    <3>1. D \in Seq(Entries) /\ f \in Seq(Entries)
      BY <1>1, <1>4
    <3> QED
      BY <3>1, ConcatProperties
  <2>2. d = Len(D) /\ d \in Nat /\ Len(f) \in Nat /\ z = D \o f
    BY <1>1, <1>2, <1>3, <1>4
  <2> QED
    BY <2>1, <2>2
<1>6. CASE n < d
  <2>1. Chosen(n) = {Entry(Zero, "lan", list.direct[n + 1])}
    BY <1>2, <1>6 DEF Chosen
  <2>2. n + 1 \in 1..d /\ n + 1 \in 1..d + Len(f) /\ n + 1 <= d /\ n < d + Len(f)
    BY <1>5, <1>6
  <2>3. z[n + 1] = D[n + 1]
    BY <1>5, <2>2
  <2>4. D[n + 1] = Entry(Zero, "lan", list.direct[n + 1])
    <3>1. n + 1 \in DOMAIN list.direct
      BY <1>1, <1>2, <2>2
    <3> QED
      BY <3>1 DEF D, Direct
  <2> QED
    BY <1>3, <1>5, <2>1, <2>2, <2>3, <2>4
<1>7. CASE ~(n < d)
  <2>1. PICK p : p = n - d + 1
    OBVIOUS
  <2>2. p \in Nat /\ p >= 1 /\ n = d + p - 1 /\ n + 1 - d = p
    BY <1>5, <1>7, <2>1
  <2>3. Chosen(n) = UNION {OneOf(list.couplers[i], n - Before0(i)) : i \in DOMAIN list.couplers}
    BY <1>2, <1>7 DEF Chosen, OneOf
  <2>4. ASSUME NEW i \in 1..m
        PROVE  /\ Len(UpTo(s, i - 1)) \in Nat /\ list.couplers[i] \in Coupler
               /\ OneOf(list.couplers[i], n - Before0(i)) =
                    IF p - Len(UpTo(s, i - 1)) \in 1..Len(s[i]) THEN {s[i][p - Len(UpTo(s, i - 1))]} ELSE {}
    <3>1. list.couplers[i] \in Coupler /\ s[i] = Sensors(list.couplers[i])
      BY SensorListsTyped
    <3>2. PICK u : u = Len(UpTo(s, i - 1))
      OBVIOUS
    <3>3. Before0(i) = d + u
      BY <1>1, <1>2, <3>2, Before0Is
    <3>4. u \in Nat
      <4>1. i - 1 \in 0..Len(s)
        BY <1>1
      <4> QED
        BY <1>1, <3>2, <4>1, UpToTyped
    <3>5. PICK t : t = n - Before0(i)
      OBVIOUS
    <3>6. t \in Int /\ t + 1 = p - u
      BY <1>5, <2>2, <3>3, <3>4, <3>5
    <3>7. OneOf(list.couplers[i], t) = IF t + 1 \in 1..Len(s[i]) THEN {s[i][t + 1]} ELSE {}
      BY <3>1, <3>6, OneOfIs
    <3> QED
      BY <3>1, <3>2, <3>4, <3>5, <3>6, <3>7
  <2>5. ASSUME NEW i \in 1..m, NEW e \in OneOf(list.couplers[i], n - Before0(i))
        PROVE  p \in 1..Len(f) /\ e = f[p]
    <3>1. PICK q : q = p - Len(UpTo(s, i - 1))
      OBVIOUS
    <3>4. OneOf(list.couplers[i], n - Before0(i)) = IF q \in 1..Len(s[i]) THEN {s[i][q]} ELSE {}
      BY <2>4, <3>1
    <3>5. q \in 1..Len(s[i]) /\ e = s[i][q]
      BY <2>5, <3>4
    <3>6. p = Len(UpTo(s, i - 1)) + q
      <4>1. PICK u : u = Len(UpTo(s, i - 1))
        OBVIOUS
      <4>2. u \in Nat /\ q = p - u
        BY <2>4, <3>1, <4>1
      <4> QED
        BY <2>2, <4>1, <4>2
    <3>2. q \in 1..Len(s[i]) /\ e = s[i][q] /\ p = Len(UpTo(s, i - 1)) + q
      BY <3>5, <3>6
    <3>3. i \in 1..Len(s)
      BY <1>1
    <3> QED
      BY <1>1, <1>4, <3>2, <3>3, FlattenAt DEF F
  <2>6. CASE p \in 1..Len(f)
    <3>1. p \in 1..Len(FlattenSeq(s))
      BY <1>4, <2>6 DEF F
    <3>2. PICK i \in 1..Len(s) : \E q \in 1..Len(s[i]) : p = Len(UpTo(s, i - 1)) + q
      BY <1>1, <3>1, FlattenFrom
    <3>3. PICK q \in 1..Len(s[i]) : p = Len(UpTo(s, i - 1)) + q
      BY <3>2
    <3>4. i \in 1..m
      BY <1>1
    <3>5. p - Len(UpTo(s, i - 1)) = q
      BY <2>4, <3>3, <3>4
    <3>6. OneOf(list.couplers[i], n - Before0(i)) = {s[i][q]}
      BY <2>4, <3>3, <3>4, <3>5
    <3>7. Chosen(n) = {f[p]}
      <4>1. s[i][q] \in Chosen(n)
        BY <1>1, <2>3, <3>4, <3>6
      <4>2. \A e \in Chosen(n) : e = f[p]
        <5>1. \A e \in Chosen(n) : \E j \in 1..m : e \in OneOf(list.couplers[j], n - Before0(j))
          BY <1>1, <2>3
        <5> QED
          BY <2>5, <5>1
      <4> QED
        BY <4>1, <4>2
    <3>8. n < Len(z) /\ z[n + 1] = f[p]
      <4>1. PICK t : t = n + 1
        OBVIOUS
      <4>2. t \in 1..d + Len(f) /\ ~(t <= d) /\ t - d = p /\ n < d + Len(f)
        BY <1>5, <1>7, <2>2, <2>6, <4>1
      <4> QED
        BY <1>5, <4>1, <4>2
    <3> QED
      BY <1>3, <3>7, <3>8
  <2>7. CASE p \notin 1..Len(f)
    <3>1. Chosen(n) = {}
      BY <1>1, <2>3, <2>5, <2>7
    <3>2. ~(n < Len(z))
      BY <1>5, <2>2, <2>7
    <3> QED
      BY <1>3, <3>1, <3>2
  <2> QED
    BY <2>6, <2>7
<1> QED
  BY <1>6, <1>7

-----------------------------------------------------------------------------
(* The invariant of the types.                                              *)

LEMMA EntriesAre ==
  ASSUME NEW e \in Entries
  PROVE  /\ e.rom \in Roms /\ e.line \in {"lan", "main", "aux"}
         /\ e.line = "lan" => e.hub = Zero
         /\ e.line # "lan" => e.hub \in Couplers /\ e.line \in {"main", "aux"}
BY DEF Entries, LanEntries, BranchEntries

LEMMA ChosenTyped ==
  ASSUME list \in Lists, NEW n \in Nat, NEW e \in Chosen(n)
  PROVE  e \in Entries /\ n < Len(Flat(list)) /\ e = Flat(list)[n + 1]
<1>1. Flat(list) \in Seq(Entries)
  BY FlatIs
<1>2. n < Len(Flat(list)) /\ e = Flat(list)[n + 1]
  BY ChosenIs
<1>3. n + 1 \in 1..Len(Flat(list))
  BY <1>1, <1>2
<1> QED
  BY <1>1, <1>2, <1>3

LEMMA ReadFirst ==
  ASSUME NEW r, FirstStep(r) # "select"
  PROVE  r \in Roms /\ FirstStep(r) \in Reads(Kind[r]) /\ FirstStep(r) # "scratch" /\ FirstStep(r) \in Reading
BY DEF FirstStep, Reads, Reading

LEMMA PlacedSelect == ASSUME Placed, Select PROVE Placed'
<1>1. /\ pc = "select" /\ next \in DOMAIN Wanted
      /\ UNCHANGED <<disk, lists, search, walk, round, row>>
  BY DEF Select
<1>2. next \in Nat \ {0} /\ serial \in Roms \cup {Zero} /\ Last2409 \in Branches \cup {Unknown}
      /\ list \in Lists /\ opt \in Options
  BY DEF Placed, SampleOK, FlowOK, DiskOK
<1>3. Wanted[next] \in Nat /\ Wanted' = Wanted
  <2>1. Wanted \in Seq(Nat)
    BY <1>2, WantedTyped
  <2>2. Wanted' = Wanted
    BY <1>1 DEF lists, Wanted
  <2> QED
    BY <1>1, <2>1, <2>2
<1>4. \A e \in Chosen(Wanted[next]) :
        e.rom \in Roms /\ (~Connected(e) => e.hub \in Couplers /\ e.line \in {"main", "aux"})
  BY <1>2, <1>3, ChosenTyped, EntriesAre DEF Connected
<1>5. /\ NetTypeOK' /\ UNCHANGED place /\ FaultOK'
      /\ Last2409' \in Branches \cup {Unknown}
      /\ serial' \in Roms \cup {Zero} /\ (NextSensor \/ Read(serial'))
  <2>1. CASE \E e \in Chosen(Wanted[next]) : /\ Connected(e) /\ serial' = e.rom /\ Read(e.rom)
                                             /\ UNCHANGED <<net, Last2409, fault>>
    BY <1>2, <1>4, <2>1, Frames DEF net
  <2>2. CASE Read(serial) /\ UNCHANGED <<net, serial, Last2409, fault>>
    BY <1>2, <2>2, Frames DEF net
  <2>3. ASSUME NEW e \in Chosen(Wanted[next]), ~Connected(e),
               Switched(e.hub, e.line), Last2409' = [hub |-> e.hub, line |-> e.line],
               serial' = e.rom, Read(e.rom)
        PROVE  <1>5!:
    <3>1. e.rom \in Roms /\ e.hub \in Couplers /\ e.line \in {"off", "main", "aux"}
          /\ [hub |-> e.hub, line |-> e.line] \in Branches
      BY <1>4, <2>3 DEF Branches
    <3>2. NetTypeOK' /\ UNCHANGED place /\ (Fine \/ Fails)
      BY <2>3, <3>1, SwitchStep DEF Placed
    <3> QED
      BY <2>3, <3>1, <3>2, FaultStep DEF Placed
  <2>4. ASSUME NEW e \in Chosen(Wanted[next]), ~Connected(e),
               NotSwitched(e.hub, e.line), NextSensor, UNCHANGED <<serial, Last2409>>
        PROVE  <1>5!:
    <3>1. e.line \in {"off", "main", "aux"}
      BY <1>4, <2>4
    <3>2. NetTypeOK' /\ UNCHANGED place /\ (Fine \/ Fails)
      BY <2>4, <3>1, SwitchStep DEF Placed
    <3> QED
      BY <1>2, <2>4, <3>2, FaultStep DEF Placed
  <2> QED
    BY <2>1, <2>2, <2>3, <2>4 DEF Select
<1>6. HubsThere' /\ DiskOK' /\ WalkOK'
  BY <1>1, <1>5, Frames
<1>7. CASE NextSensor
  <2>1. next' = next + 1 /\ pc' = "select" /\ ClearReading
    BY <1>7 DEF NextSensor, Goto
  <2>2. ReadingOK' /\ AtReading'
    BY <2>1, ClearedReading DEF AtReading, Reading
  <2>3. SampleOK' /\ FlowOK' /\ AtBranch' /\ Before1' /\ (pc = "listOff" => opt.walk)'
    BY <1>1, <1>2, <1>5, <2>1
       DEF Placed, SampleOK, FlowOK, AtBranch, Before1, InSample, Pcs
  <2> QED
    BY <1>5, <1>6, <2>2, <2>3 DEF Placed
<1>8. CASE Read(serial') /\ ~NextSensor
  <2>1. pc' = FirstStep(serial') /\ FirstStep(serial') # "select" /\ UNCHANGED <<next, reading>>
    BY <1>8 DEF Read, Goto
  <2>2. serial' \in Roms /\ pc' \in Reads(Kind[serial']) /\ pc' # "scratch" /\ pc' \in Reading
    BY <2>1, ReadFirst
  <2>3. ReadingOK' /\ AtReading'
    BY <1>1, <1>3, <2>1, <2>2, Frames DEF AtReading, Reading
  <2>4. SampleOK' /\ FlowOK' /\ AtBranch' /\ Before1' /\ (pc = "listOff" => opt.walk)'
    BY <1>1, <1>2, <1>5, <2>1, <2>2, ReadsAre
       DEF Placed, SampleOK, FlowOK, AtBranch, Before1, InSample, Reading
  <2> QED
    BY <1>5, <1>6, <2>3, <2>4 DEF Placed
<1> QED
  BY <1>5, <1>7, <1>8

LEMMA PlacedRound ==
  ASSUME Placed, NewRound \/ RowDone \/ NextSample
  PROVE  Placed'
<1>1. CASE NewRound
  <2>1. /\ pc = "round" /\ pc' = "select" /\ next' = 1 /\ row' = <<>> /\ ClearReading
        /\ calm' = (IF calm < 3 THEN calm + 1 ELSE 3)
        /\ UNCHANGED <<faults, bad, dark, net, disk, lists, search, serial, walk, Last2409, round>>
    BY <1>1 DEF NewRound, Goto
  <2>2. NetTypeOK' /\ HubsThere' /\ DiskOK' /\ WalkOK'
    BY <2>1, Frames DEF net
  <2>3. FaultOK'
    <3>1. calm' \in 0..3
      BY <2>1 DEF Placed, FaultOK
    <3> QED
      BY <2>1, <3>1 DEF Placed, FaultOK
  <2>4. ReadingOK' /\ AtReading'
    BY <2>1, ClearedReading DEF AtReading, Reading
  <2>5. SampleOK'
    <3>1. <<>> \in Seq(Logged)
      OBVIOUS
    <3> QED
      BY <2>1, <3>1 DEF Placed, SampleOK
  <2>6. FlowOK' /\ AtBranch' /\ Before1' /\ (pc = "listOff" => opt.walk)'
    BY <2>1 DEF Placed, FlowOK, AtBranch, Before1, InSample, Pcs
  <2> QED
    BY <2>2, <2>3, <2>4, <2>5, <2>6 DEF Placed
<1>2. CASE RowDone
  <2>1. /\ pc' = "rowEnd"
        /\ UNCHANGED <<net, disk, lists, search, serial, walk, sample, reading, fault>>
    BY <1>2 DEF RowDone, Goto
  <2>2. NetTypeOK' /\ HubsThere' /\ DiskOK' /\ WalkOK' /\ SampleOK' /\ ReadingOK' /\ FaultOK'
    BY <2>1, Frames DEF net
  <2>3. FlowOK' /\ AtBranch' /\ AtReading' /\ Before1' /\ (pc = "listOff" => opt.walk)'
    BY <2>1 DEF Placed, FlowOK, AtBranch, AtReading, Before1, InSample, Reading, Pcs
  <2> QED
    BY <2>2, <2>3 DEF Placed
<1>3. CASE NextSample
  <2>1. /\ pc = "rowEnd" /\ pc' \in {"round", "leave"} /\ ci' = 1 /\ round' \in {0, round + 1}
        /\ UNCHANGED <<net, disk, lists, search, serial, walked, shown, line, first, Last2409, next, row,
                       reading, fault>>
    BY <1>3 DEF NextSample, Goto
  <2>2. NetTypeOK' /\ HubsThere' /\ DiskOK' /\ ReadingOK' /\ FaultOK'
    BY <2>1, Frames DEF net
  <2>3. WalkOK' /\ SampleOK'
    BY <2>1 DEF Placed, WalkOK, SampleOK
  <2>4. FlowOK' /\ AtBranch' /\ AtReading' /\ Before1' /\ (pc = "listOff" => opt.walk)'
    BY <2>1 DEF Placed, FlowOK, AtBranch, AtReading, Before1, InSample, Reading, Pcs
  <2> QED
    BY <2>2, <2>3, <2>4 DEF Placed
<1> QED
  BY <1>1, <1>2, <1>3

LEMMA PlacedStep == Placed /\ [Next]_vars => Placed'
<1> SUFFICES ASSUME Placed, [Next]_vars PROVE Placed'
  OBVIOUS
<1>1. CASE (\E o \in Options : Begin(o)) \/ Kill \/ NoAdapter \/ Exit
  BY <1>1, PlacedProcess
<1>2. CASE Acquire \/ TurnOff \/ Forgotten \/ Brownout
  BY <1>2, PlacedOff
<1>3. CASE Sweep \/ CouplerOff("sweepOff", "sweep") \/ CouplerOff("listOff", "list") \/ ListLan
  BY <1>3, PlacedSweep
<1>4. CASE ConnectBranch \/ SearchBranch \/ BranchesDone \/ OpenFile \/ CloseFile
  BY <1>4, PlacedBranch
<1>5. CASE NewRound \/ RowDone \/ NextSample
  BY <1>5, PlacedRound
<1>6. CASE Select
  BY <1>6, PlacedSelect
<1>7. CASE Convert \/ Scratch \/ ReadLogger \/ Count \/ Pio \/ Volts \/ Temperature
  <2>1. ReadStep
    BY <1>7, ConvertStep, ScratchStep, LoggerStep, CountStep, PioStep, VoltsStep, TemperatureStep
  <2> QED
    BY <2>1, PlacedReading DEF ReadStep
<1>8. CASE UNCHANGED vars
  <2>1. UNCHANGED <<net, disk, lists, pc, search, serial, walk, sample, reading, fault>>
    BY <1>8 DEF vars
  <2>2. NetTypeOK' /\ HubsThere' /\ DiskOK' /\ WalkOK' /\ SampleOK' /\ ReadingOK' /\ FaultOK'
    BY <2>1, Frames DEF net
  <2>3. FlowOK' /\ Before1' /\ (pc = "listOff" => opt.walk)'
    BY <2>1 DEF Placed, FlowOK, Before1, sample, lists
  <2>4. AtBranch' /\ AtReading'
    BY <2>1 DEF Placed, AtBranch, AtReading, Hubs, Wanted, walk, lists, sample, reading
  <2> QED
    BY <2>2, <2>3, <2>4 DEF Placed
<1> QED
  BY <1>1, <1>2, <1>3, <1>4, <1>5, <1>6, <1>7, <1>8 DEF Next, Process, InitLan, Sampling

\* What each place of the program takes for granted: couplers are on the main LAN or away, a
\* branch that is searched is that of a coupler found before, what is read is a wanted
\* sensor of a kind that is read in this way, and before the samples no coupler is remembered
\* and nothing has been logged.  (main, Init1WireLan, read_device)
THEOREM Digitemp_Placed == Spec => []Placed
BY PlacedInit, PlacedStep, PTL DEF Spec

\* Every variable stays within its type, for whatever nets, rc files, command lines and
\* numbers of failures: no place in the lists of couplers and sensors, in the tries of a
\* reading or in what it has given is ever left.
THEOREM Digitemp_TypeOK == Spec => []TypeOK
BY Digitemp_Placed, PlacedTypes, PTL

-----------------------------------------------------------------------------
(* Lists in the order of the search.                                        *)

LEMMA InOrderEmpty == InOrder(<<>>, {})
BY DEF InOrder, Range

LEMMA InOrderAppend ==
  ASSUME NEW s \in Seq(Roms), NEW S, NEW x \in Roms, InOrder(s, S), \A q \in S : Before(q, x),
         NEW T, T = S \cup {x}
  PROVE  InOrder(Append(s, x), T)
<1> DEFINE t == Append(s, x)
           n == Len(s)
<1>1. /\ DOMAIN t = 1..n + 1 /\ DOMAIN s = 1..n /\ n \in Nat
      /\ \A i \in 1..n : t[i] = s[i]
      /\ t[n + 1] = x
  OBVIOUS
<1> HIDE DEF t, n
<1>2. Range(s) = S /\ \A i, j \in DOMAIN s : i < j => Before(s[i], s[j])
  BY DEF InOrder
<1>3. \A i \in 1..n + 1 : i \in 1..n \/ i = n + 1
  BY <1>1
<1>4. Range(t) = T
  <2>1. \A y \in T : \E i \in DOMAIN t : t[i] = y
    <3>1. \A y \in S : \E i \in 1..n : s[i] = y
      BY <1>1, <1>2 DEF Range
    <3>2. \A i \in 1..n : i \in 1..n + 1
      BY <1>1
    <3>3. n + 1 \in 1..n + 1
      BY <1>1
    <3> QED
      BY <1>1, <3>1, <3>2, <3>3
  <2>2. \A i \in DOMAIN t : t[i] \in T
    <3>1. \A i \in 1..n : s[i] \in S
      BY <1>1, <1>2 DEF Range
    <3> QED
      BY <1>1, <1>3, <3>1
  <2> QED
    BY <2>1, <2>2 DEF Range
<1>5. ASSUME NEW i \in DOMAIN t, NEW j \in DOMAIN t, i < j
      PROVE  Before(t[i], t[j])
  <2>1. i \in 1..n
    BY <1>1, <1>5
  <2>2. CASE j \in 1..n
    BY <1>1, <1>2, <1>5, <2>1, <2>2
  <2>3. CASE j = n + 1
    <3>1. s[i] \in S
      BY <1>1, <1>2, <2>1 DEF Range
    <3> QED
      BY <1>1, <2>1, <2>3, <3>1
  <2> QED
    BY <1>1, <1>3, <2>2, <2>3
<1> QED
  BY <1>4, <1>5 DEF InOrder, t

\* No element comes twice.
LEMMA InOrderOnce ==
  ASSUME NEW s \in Seq(Roms), NEW S, InOrder(s, S), NEW i \in DOMAIN s, NEW j \in DOMAIN s, s[i] = s[j]
  PROVE  i = j
<1>1. s[i] \in Code /\ s[j] \in Code /\ i \in Nat /\ j \in Nat
  BY Codes
<1>2. ~(i < j) /\ ~(j < i)
  BY <1>1, Irreflexive DEF InOrder
<1> QED
  BY <1>1, <1>2

-----------------------------------------------------------------------------
(* What a search among some devices has found, and what is still to be found. *)

Seen(D, s, c) == D \ Pending(D, s, c)

LEMMA SeenBefore ==
  ASSUME NEW D \in SUBSET Roms, NEW s, NEW c \in Roms \cup {Zero},
         NEW q \in Seen(D, s, c), NEW p \in Pending(D, s, c)
  PROVE  Before(q, p)
<1>1. q \in Code /\ p \in Code /\ c \in Code /\ q \in D /\ p \in D
  BY Codes DEF Seen, Pending, Later
<1>2. s # Start0 /\ ~Before(c, q) /\ Before(c, p)
  BY DEF Seen, Pending, Later
<1>3. q = c \/ Before(q, c)
  BY <1>1, <1>2, Total
<1> QED
  BY <1>1, <1>2, <1>3, Transitive

LEMMA ProperGoes == ASSUME NEW D, NEW s, NEW c, Proper(D, s, c) PROVE s # Start0
BY DEF Proper, Start0

LEMMA FoundNext ==
  ASSUME NEW D \in SUBSET Roms, search \in Searches, serial \in Roms \cup {Zero},
         Going(D, search, serial), Finds(D)
  PROVE  /\ Fine /\ serial' \in D /\ serial' \in Roms
         /\ Going(D, search', serial') /\ search' # Start0
         /\ serial' \in Pending(D, search, serial)
         /\ Pending(D, search', serial') = Pending(D, search, serial) \ {serial'}
         /\ Pending(D, search', serial') = Later(D, serial')
         /\ Seen(D, search', serial') = Seen(D, search, serial) \cup {serial'}
         /\ \A q \in Seen(D, search, serial) : Before(q, serial')
<1>1. PICK x : /\ x = Searched(D, search, serial) /\ x.ok /\ Fine
               /\ serial' = x.code /\ search' = [last |-> x.last, done |-> x.done]
  BY DEF Finds
<1> DEFINE P == Pending(D, search, serial)
<1>2. /\ P # {} /\ x.code \in P /\ Proper(D, [last |-> x.last, done |-> x.done], x.code)
      /\ Later(D, x.code) = P \ {x.code}
  BY <1>1, SearchNext
<1>3. Going(D, search', serial') /\ search' # Start0
  BY <1>1, <1>2, ProperGoes DEF Going
<1>4. Pending(D, search', serial') = P \ {serial'} /\ Pending(D, search', serial') = Later(D, serial')
  BY <1>1, <1>2, <1>3 DEF Pending
<1>5. P \subseteq D
  BY DEF Pending, Later
<1>6. Seen(D, search', serial') = Seen(D, search, serial) \cup {serial'}
  BY <1>1, <1>2, <1>4, <1>5 DEF Seen
<1>7. \A q \in Seen(D, search, serial) : Before(q, serial')
  BY <1>1, <1>2, SeenBefore
<1> QED
  BY <1>1, <1>2, <1>3, <1>4, <1>5, <1>6, <1>7

LEMMA FoundAll ==
  ASSUME NEW D \in SUBSET Roms, search \in Searches, serial \in Roms \cup {Zero},
         Going(D, search, serial), FindsNone(D), ~bad'
  PROVE  /\ Fine /\ search' = Start0 /\ serial' = serial
         /\ Pending(D, search, serial) = {} /\ Seen(D, search, serial) = D
<1>1. Fine /\ ~Searched(D, search, serial).ok /\ search' = Start0 /\ serial' = serial
  BY DEF FindsNone, Fails
<1>2. Pending(D, search, serial) = {}
  <2>1. PICK x : x = Searched(D, search, serial)
    OBVIOUS
  <2>2. PICK t : t = [last |-> x.last, done |-> x.done]
    OBVIOUS
  <2>3. Pending(D, search, serial) # {} => x.ok
    BY <2>1, <2>2, SearchNext
  <2> QED
    BY <1>1, <2>1, <2>3
<1> QED
  BY <1>1, <1>2 DEF Seen

LEMMA SeenNone == ASSUME NEW D, NEW c PROVE Seen(D, Start0, c) = {} /\ Going(D, Start0, c) /\ Pending(D, Start0, c) = D
BY DEF Seen, Pending, Going

-----------------------------------------------------------------------------
(* The list, as long as no request has failed.                              *)

HubRoms(l) == [i \in DOMAIN l.couplers |-> l.couplers[i].rom]

OnHubs == OnLan \cap Couplers
AllOff(but) == \A c \in OnHubs : branch[c] = "off" \/ c \in but

\* Once(s, S): the elements of S, each once.
Once(s, S) == Range(s) = S /\ \A i, j \in DOMAIN s : s[i] = s[j] => i = j

Starting ==
  pc \in {"acquire", "forget"} => shown = <<>> /\ walked = <<>> /\ search = Start0 /\ line = "main"

\* While the couplers are turned off: those that are still to be found may have connected
\* a branch, and as couplers are found last, what they hide or show then has been found.
Swept ==
  pc \in {"sweep", "sweepOff"} =>
    /\ shown = <<>> /\ walked = <<>> /\ line = "main" /\ (~opt.walk => list = NoList)
    /\ Going(Visible, search, serial)
    /\ pc = "sweep" => /\ AllOff(Pending(Visible, search, serial))
                       /\ ci = 1 \/ OnHubs \subseteq Pending(Visible, search, serial)
    /\ pc = "sweepOff" => /\ serial \in OnHubs /\ search # Start0
                          /\ AllOff(Later(Visible, serial) \cup {serial})

\* What is found on the main LAN is listed in the order in which it is found.
LanEntry(S) == {Entry(Zero, "lan", r) : r \in S}
LanLists(S) ==
  /\ InOrder(Hubs, S \cap Couplers)
  /\ opt.walk => Once(shown, LanEntry(S))
  /\ ~opt.walk => /\ InOrder(list.direct, S \cap Supported)
                  /\ \A i \in DOMAIN list.couplers :
                       list.couplers[i].main = <<>> /\ list.couplers[i].aux = <<>>

LanListed ==
  pc \in {"list", "listOff"} =>
    /\ AllOff({}) /\ line = "main" /\ (ci = 1 \/ OnHubs = {})
    /\ Going(OnLan, search, serial)
    /\ pc = "listOff" => serial \in OnHubs
    /\ LanLists(Seen(OnLan, search, serial))

\* What has been found on a branch.
FoundOn(i, l) ==
  IF i < ci \/ (i = ci /\ l = "main" /\ line = "aux") THEN Behind(Hubs[i], l)
  ELSE IF i = ci /\ l = line THEN Seen(Behind(Hubs[i], l), search, serial)
  ELSE {}

BranchEntry ==
  {e \in Shown : e.line # "lan" /\ \E i \in DOMAIN Hubs : e.hub = Hubs[i] /\ e.rom \in FoundOn(i, e.line)}

BranchLists ==
  /\ opt.walk => Once(shown, LanEntry(OnLan) \cup BranchEntry)
  /\ ~opt.walk => /\ InOrder(list.direct, OnLan \cap Supported)
                  /\ \A i \in DOMAIN list.couplers :
                       /\ InOrder(list.couplers[i].main, FoundOn(i, "main") \cap Supported)
                       /\ InOrder(list.couplers[i].aux, FoundOn(i, "aux") \cap Supported)

BranchListed ==
  pc \in {"branch", "branchNext"} =>
    /\ InOrder(Hubs, OnHubs) /\ (ci # 0 \/ Hubs = <<>>)
    /\ ci \in DOMAIN Hubs => Going(Behind(Hubs[ci], line), search, serial)
    /\ pc = "branchNext" => branch[Hubs[ci]] = line
    /\ BranchLists

Complete ==
  /\ InOrder(list.direct, OnLan \cap Supported)
  /\ InOrder(HubRoms(list), OnHubs)
  /\ \A i \in DOMAIN list.couplers :
       LET c == list.couplers[i]
       IN /\ InOrder(c.main, Behind(c.rom, "main") \cap Supported)
          /\ InOrder(c.aux, Behind(c.rom, "aux") \cap Supported)

Done ==
  /\ pc \in {"write", "close"} \cup InSample => ~opt.walk
  /\ pc \in {"write", "close"} \cup InSample /\ opt.init => Complete
  /\ pc \in InSample /\ opt.init /\ Flat(list) # <<>> => read_rcfile(file) = list
  /\ pc = "leave" /\ opt.walk => Once(shown, ShouldShow)

ListOK == Starting /\ Swept /\ LanListed /\ BranchListed /\ Done

-----------------------------------------------------------------------------
(* Where devices are.                                                       *)

LEMMA HubsOnLan ==
  ASSUME Placed
  PROVE  /\ OnHubs \subseteq Visible /\ OnHubs \subseteq Couplers /\ OnLan \in SUBSET Roms
         /\ \A r \in Visible \cap Couplers : r \in OnHubs
         /\ \A c \in Couplers : \A l : Behind(c, l) \cap Couplers = {}
         /\ \A c \in Couplers, l \in {"main", "aux"} : Behind(c, l) # {} => c \in OnHubs
         /\ branch \in [Couplers -> {"off", "main", "aux"}]
<1>1. OnHubs \subseteq Visible /\ OnHubs \subseteq Couplers /\ OnLan \in SUBSET Roms
  BY DEF OnHubs, OnLan, On, Visible
<1>2. \A c \in Couplers : place[c] = Nowhere \/ place[c] = Lan
  BY DEF Placed, HubsThere
<1>3. \A c \in Couplers : \A l : [hub |-> c, line |-> l] # Nowhere /\ [hub |-> c, line |-> l] # Lan
  BY Codes DEF Nowhere, Lan
<1>4. \A c \in Couplers : \A l : Behind(c, l) \cap Couplers = {}
  BY <1>2, <1>3 DEF Behind
<1>5. \A r \in Visible \cap Couplers : r \in OnHubs
  BY <1>2, <1>4 DEF Visible, OnHubs, OnLan, On
<1>6. \A c \in Couplers, l \in {"main", "aux"} : Behind(c, l) # {} => c \in OnHubs
  BY Codes DEF Behind, OnHubs, OnLan, On
<1>7. branch \in [Couplers -> {"off", "main", "aux"}]
  BY DEF Placed, NetTypeOK
<1> QED
  BY <1>1, <1>4, <1>5, <1>6, <1>7

LEMMA OffSees == ASSUME Placed, AllOff({}) PROVE Visible = OnLan
<1>1. \A c \in Couplers : branch[c] # "off" => Behind(c, branch[c]) = {}
  BY Codes DEF AllOff, OnHubs, OnLan, Behind
<1> QED
  BY <1>1 DEF Visible, OnLan, On

\* Turning off the coupler found last hides only devices that have been found before.
LEMMA OffKeeps ==
  ASSUME Placed, serial \in OnHubs, UNCHANGED place, branch' = [branch EXCEPT ![serial] = "off"]
  PROVE  /\ Later(Visible', serial) = Later(Visible, serial)
         /\ \A i \in 1..Bits : Forks(Visible', serial, i) <=> Forks(Visible, serial, i)
<1>1. serial \in Couplers /\ branch \in [Couplers -> {"off", "main", "aux"}]
  BY HubsOnLan
<1>2. \A c, l : Behind(c, l)' = Behind(c, l)
  BY DEF Behind, On
<1>3. Visible' \subseteq Visible
  BY <1>1, <1>2 DEF Visible
<1>4. ASSUME NEW r \in Visible, r \notin Visible'
      PROVE  r \in Roms \ Couplers
  <2>1. r \in Behind(serial, branch[serial])
    BY <1>1, <1>2, <1>4 DEF Visible
  <2>2. Behind(serial, branch[serial]) \cap Couplers = {}
    BY <1>1, HubsOnLan
  <2> QED
    BY <2>1, <2>2, Reachable
<1>5. \A r \in Visible : r \notin Visible' => Before(r, serial)
  BY <1>1, <1>4, NetAssumption
<1>6. \A r \in Visible : r \notin Visible' => ~Before(serial, r)
  <2>1. \A r \in Visible : r \in Code
    BY Reachable, Codes
  <2> QED
    BY <1>1, <1>5, <2>1, Asymmetric, Codes
<1>7. Later(Visible', serial) = Later(Visible, serial)
  BY <1>3, <1>6 DEF Later
<1>8. ASSUME NEW i \in 1..Bits
      PROVE  Forks(Visible', serial, i) <=> Forks(Visible, serial, i)
  BY <1>3, <1>6 DEF Forks, Before
<1> QED
  BY <1>7, <1>8

LEMMA PlaceFrame ==
  ASSUME UNCHANGED place
  PROVE  /\ OnLan' = OnLan /\ OnHubs' = OnHubs /\ ShouldShow' = ShouldShow
         /\ \A c, l : Behind(c, l)' = Behind(c, l)
<1>1. \A c, l : Behind(c, l)' = Behind(c, l)
  BY DEF Behind, On
<1>2. OnLan' = OnLan /\ OnHubs' = OnHubs
  BY DEF OnLan, OnHubs, On
<1>3. ShouldShow' = ShouldShow
  BY <1>1, <1>2 DEF ShouldShow
<1> QED
  BY <1>1, <1>2, <1>3

LEMMA ListProcess ==
  ASSUME (\E o \in Options : Begin(o)) \/ Kill \/ NoAdapter \/ Exit
  PROVE  ListOK'
<1>1. pc' \in {"acquire", "idle"} /\ ClearProcess
  BY DEF Begin, Kill, NoAdapter, Exit, Ended, Goto
<1>2. Starting'
  BY <1>1 DEF Starting, ClearProcess, ClearWalk
<1>3. Swept' /\ LanListed' /\ BranchListed' /\ Done'
  BY <1>1 DEF Swept, LanListed, BranchListed, Done, InSample, Reading
<1> QED
  BY <1>2, <1>3 DEF ListOK

LEMMA ListStart ==
  ASSUME Placed, ListOK, Acquire \/ TurnOff \/ Forgotten
  PROVE  ListOK'
<1>1. CASE Acquire
  <2>1. /\ pc = "acquire" /\ UNCHANGED <<net, disk, lists, search, serial, walk, sample, reading>>
        /\ pc' = IF opt.walk THEN "sweep" ELSE IF opt.init THEN "forget" ELSE "round"
    BY <1>1 DEF Acquire, Goto
  <2>2. shown = <<>> /\ walked = <<>> /\ search = Start0 /\ line = "main"
    BY <2>1 DEF ListOK, Starting
  <2>3. Starting'
    BY <2>1, <2>2 DEF Starting, walk
  <2>4. Swept'
    <3>1. CASE ~opt.walk
      BY <2>1, <3>1 DEF Swept
    <3>2. CASE opt.walk
      <4>1. pc' = "sweep" /\ opt' = opt /\ search' = Start0 /\ shown' = <<>> /\ walked' = <<>>
            /\ line' = "main"
        BY <2>1, <2>2, <3>2 DEF lists, walk
      <4>2. UNCHANGED <<place, branch>>
        BY <2>1 DEF net
      <4>3. Visible' = Visible /\ OnHubs' = OnHubs
        BY <4>2, PlaceFrame DEF Visible
      <4>4. Going(Visible', search', serial') /\ Pending(Visible', search', serial') = Visible
        BY <4>1, <4>3, SeenNone
      <4>5. OnHubs' \subseteq Visible
        BY <4>3, HubsOnLan
      <4>6. AllOff(Pending(Visible, search, serial))'
        BY <4>3, <4>4, <4>5 DEF AllOff
      <4> QED
        BY <3>2, <4>1, <4>4, <4>5, <4>6 DEF Swept
    <3> QED
      BY <3>1, <3>2
  <2>5. LanListed' /\ BranchListed' /\ Done'
    BY <2>1 DEF LanListed, BranchListed, Done, InSample, Reading, lists
  <2> QED
    BY <2>3, <2>4, <2>5 DEF ListOK
<1>2. CASE TurnOff
  <2>1. /\ pc \in {"forget", "leave"} /\ pc' = pc
        /\ UNCHANGED <<opt, shown, walked, search, line>>
    BY <1>2 DEF TurnOff, lists
  <2>2. UNCHANGED place
    BY <1>2 DEF TurnOff, Switched, NotSwitched
  <2>3. Starting' /\ Swept' /\ LanListed' /\ BranchListed'
    BY <2>1 DEF ListOK, Starting, Swept, LanListed, BranchListed
  <2>4. Done'
    BY <2>1, <2>2, PlaceFrame DEF ListOK, Done, InSample, Reading, Once
  <2> QED
    BY <2>3, <2>4 DEF ListOK
<1>3. CASE Forgotten
  <2>1. /\ pc = "forget" /\ pc' = "sweep" /\ list' = NoList /\ search' = Start0
        /\ UNCHANGED <<place, branch, opt, serial, shown, walked, line>>
    BY <1>3 DEF Forgotten, Goto, walk, net
  <2>2. shown = <<>> /\ walked = <<>> /\ line = "main"
    BY <2>1 DEF ListOK, Starting
  <2>3. Visible' = Visible /\ OnHubs' = OnHubs
    BY <2>1, PlaceFrame DEF Visible
  <2>4. Going(Visible', search', serial') /\ Pending(Visible', search', serial') = Visible
    BY <2>1, <2>3, SeenNone
  <2>5. OnHubs' \subseteq Visible
    BY <2>3, HubsOnLan
  <2>6. AllOff(Pending(Visible, search, serial))'
    BY <2>3, <2>4, <2>5 DEF AllOff
  <2>7. Swept'
    BY <2>1, <2>2, <2>4, <2>5, <2>6 DEF Swept
  <2>8. Starting' /\ LanListed' /\ BranchListed' /\ Done'
    BY <2>1 DEF Starting, LanListed, BranchListed, Done, InSample, Reading
  <2> QED
    BY <2>7, <2>8 DEF ListOK
<1> QED
  BY <1>1, <1>2, <1>3

LEMMA ListSweep ==
  ASSUME Placed, ListOK, Sweep, ~bad'
  PROVE  ListOK'
<1>1. pc = "sweep" /\ UNCHANGED <<net, disk, lists, walk, sample, reading>>
  BY DEF Sweep
<1>2. UNCHANGED <<place, branch, list, opt, walked, shown, ci, line>>
  BY <1>1 DEF net, lists, walk
<1>3. Visible' = Visible /\ OnHubs' = OnHubs /\ OnLan' = OnLan
  BY <1>2, PlaceFrame DEF Visible
<1> DEFINE P == Pending(Visible, search, serial)
           Q == Pending(Visible, search', serial')
<1>4. /\ shown = <<>> /\ walked = <<>> /\ line = "main" /\ (~opt.walk => list = NoList)
      /\ Going(Visible, search, serial) /\ (ci = 1 \/ OnHubs \subseteq P) /\ AllOff(P)
  BY <1>1 DEF ListOK, Swept
<1>5. Visible \in SUBSET Roms /\ search \in Searches /\ serial \in Roms \cup {Zero}
  BY Reachable DEF Placed, FlowOK
<1>6. CASE Finds(Visible) /\ pc' = IF Kind[serial'] = "DS2409" THEN "sweepOff" ELSE "sweep"
  <2>1. /\ serial' \in Visible /\ serial' \in Roms /\ Going(Visible, search', serial') /\ search' # Start0
        /\ serial' \in P /\ Q = P \ {serial'} /\ Q = Later(Visible, serial')
    BY <1>4, <1>5, <1>6, FoundNext
  <2>2. CASE Kind[serial'] = "DS2409"
    <3>1. serial' \in OnHubs
      BY <2>1, <2>2, HubsOnLan DEF Couplers
    <3>2. pc' = "sweepOff"
      BY <1>6, <2>2
    <3>3. AllOff(Later(Visible, serial) \cup {serial})'
      BY <1>2, <1>3, <1>4, <2>1 DEF AllOff
    <3> QED
      BY <1>2, <1>3, <1>4, <2>1, <3>1, <3>2, <3>3
         DEF ListOK, Starting, Swept, LanListed, BranchListed, Done, InSample, Reading
  <2>3. CASE Kind[serial'] # "DS2409"
    <3>1. serial' \notin Couplers /\ pc' = "sweep"
      BY <1>6, <2>3 DEF Couplers
    <3>2. AllOff(Pending(Visible, search, serial))'
      BY <1>2, <1>3, <1>4, <2>1, <3>1, HubsOnLan DEF AllOff
    <3>3. ci' = 1 \/ OnHubs' \subseteq Pending(Visible', search', serial')
      BY <1>2, <1>3, <1>4, <2>1, <3>1, HubsOnLan
    <3> QED
      BY <1>2, <1>3, <1>4, <2>1, <3>1, <3>2, <3>3
         DEF ListOK, Starting, Swept, LanListed, BranchListed, Done, InSample, Reading
  <2> QED
    BY <2>2, <2>3
<1>7. CASE FindsNone(Visible) /\ pc' = "list"
  <2>1. search' = Start0 /\ serial' = serial /\ P = {}
    BY <1>4, <1>5, <1>7, FoundAll
  <2>2. AllOff({}) /\ AllOff({})' /\ (ci = 1 \/ OnHubs = {})
    BY <1>2, <1>3, <1>4, <2>1 DEF AllOff
  <2>3. Going(OnLan', search', serial') /\ Seen(OnLan', search', serial') = {}
    BY <1>3, <2>1, SeenNone
  <2>4. LanLists({})'
    <3>1. Hubs' = <<>>
      BY <1>2, <1>4 DEF Hubs, NoList
    <3>2. Once(<<>>, LanEntry({}))
      BY DEF Once, Range, LanEntry
    <3>3. {} \cap Couplers = {} /\ {} \cap Supported = {}
      OBVIOUS
    <3>4. opt'.walk => Once(shown', LanEntry({}))
      BY <1>2, <1>4, <3>2
    <3>5. ~opt'.walk => list'.direct = <<>> /\ list'.couplers = <<>>
      BY <1>2, <1>4 DEF NoList
    <3> QED
      BY <3>1, <3>3, <3>4, <3>5, InOrderEmpty DEF LanLists
  <2>5. LanListed'
    BY <1>2, <1>3, <1>4, <1>7, <2>2, <2>3, <2>4 DEF LanListed
  <2> QED
    BY <1>7, <2>5 DEF ListOK, Starting, Swept, BranchListed, Done, InSample, Reading
<1> QED
  BY <1>6, <1>7 DEF Sweep, Goto

\* A coupler that is there obeys, unless a request fails.
LEMMA Obeys ==
  ASSUME NEW c \in OnHubs, NEW to, ~bad'
  PROVE  ~NotSwitched(c, to)
BY DEF OnHubs, OnLan, NotSwitched, Fails, Reached

LEMMA ListSweepOff ==
  ASSUME Placed, ListOK, CouplerOff("sweepOff", "sweep"), ~bad'
  PROVE  ListOK'
<1>1. /\ pc = "sweepOff" /\ ci' = 1 /\ UNCHANGED <<opt, search, serial, walked, shown, line>>
  BY DEF CouplerOff
<1>2. /\ shown = <<>> /\ walked = <<>> /\ line = "main" /\ (~opt.walk => list = NoList)
      /\ Going(Visible, search, serial) /\ serial \in OnHubs /\ search # Start0
      /\ AllOff(Later(Visible, serial) \cup {serial})
  BY <1>1 DEF ListOK, Swept
<1>3. Switched(serial, "off") /\ pc' = "sweep" /\ list' = list
  BY <1>2, Obeys DEF CouplerOff, Goto
<1>4. branch' = [branch EXCEPT ![serial] = "off"] /\ UNCHANGED place
  BY <1>3 DEF Switched
<1>5. OnHubs' = OnHubs
  BY <1>4, PlaceFrame
<1>6. PICK V : V = Visible'
  OBVIOUS
<1>7. /\ Later(V, serial) = Later(Visible, serial)
      /\ \A i \in 1..Bits : Forks(V, serial, i) <=> Forks(Visible, serial, i)
  BY <1>2, <1>4, <1>6, OffKeeps
<1>8. Going(V, search, serial) /\ Pending(V, search, serial) = Later(Visible, serial)
  BY <1>2, <1>7 DEF Going, Proper, Pending
<1>9. \A c \in OnHubs : branch'[c] = "off" \/ c \in Later(Visible, serial)
  BY <1>2, <1>4, HubsOnLan DEF AllOff
<1>10. Going(Visible, search, serial)' /\ AllOff(Pending(Visible, search, serial))'
  BY <1>1, <1>5, <1>6, <1>8, <1>9 DEF AllOff
<1>11. Swept'
  BY <1>1, <1>2, <1>3, <1>10 DEF Swept
<1> QED
  BY <1>3, <1>11 DEF ListOK, Starting, LanListed, BranchListed, Done, InSample, Reading

LEMMA ListOff ==
  ASSUME Placed, ListOK, CouplerOff("listOff", "list"), ~bad'
  PROVE  ListOK'
<1>1. /\ pc = "listOff" /\ ci' = 1 /\ UNCHANGED <<opt, search, serial, walked, shown, line>>
  BY DEF CouplerOff
<1>2. /\ AllOff({}) /\ line = "main" /\ Going(OnLan, search, serial) /\ serial \in OnHubs
      /\ LanLists(Seen(OnLan, search, serial))
  BY <1>1 DEF ListOK, LanListed
<1>3. Switched(serial, "off") /\ pc' = "list" /\ list' = list
  BY <1>2, Obeys DEF CouplerOff, Goto
<1>4. branch' = [branch EXCEPT ![serial] = "off"] /\ UNCHANGED place
  BY <1>3 DEF Switched
<1>5. OnHubs' = OnHubs /\ OnLan' = OnLan
  BY <1>4, PlaceFrame
<1>6. AllOff({})'
  BY <1>2, <1>4, <1>5, HubsOnLan DEF AllOff
<1>7. LanLists(Seen(OnLan, search, serial))'
  BY <1>1, <1>2, <1>3, <1>5 DEF LanLists, Hubs, Once
<1>8. LanListed'
  BY <1>1, <1>2, <1>3, <1>5, <1>6, <1>7 DEF LanListed
<1> QED
  BY <1>3, <1>8 DEF ListOK, Starting, Swept, BranchListed, Done, InSample, Reading

LEMMA OnceAppend ==
  ASSUME NEW X, NEW s \in Seq(X), NEW S, Once(s, S), NEW x \in X, x \notin S, NEW T, T = S \cup {x}
  PROVE  Once(Append(s, x), T)
<1> DEFINE t == Append(s, x)
           n == Len(s)
<1>1. /\ DOMAIN t = 1..n + 1 /\ DOMAIN s = 1..n /\ n \in Nat
      /\ \A i \in 1..n : t[i] = s[i]
      /\ t[n + 1] = x
  OBVIOUS
<1> HIDE DEF t, n
<1>2. Range(s) = S /\ \A i, j \in DOMAIN s : s[i] = s[j] => i = j
  BY DEF Once
<1>3. \A i \in 1..n + 1 : i \in 1..n \/ i = n + 1
  BY <1>1
<1>4. \A i \in 1..n : t[i] \in S
  BY <1>1, <1>2 DEF Range
<1>5. Range(t) = T
  <2>1. \A y \in S : \E i \in 1..n : t[i] = y
    BY <1>1, <1>2 DEF Range
  <2>2. (\A i \in 1..n : i \in 1..n + 1) /\ n + 1 \in 1..n + 1
    BY <1>1
  <2> QED
    BY <1>1, <1>3, <1>4, <2>1, <2>2 DEF Range
<1>6. ASSUME NEW i \in DOMAIN t, NEW j \in DOMAIN t, t[i] = t[j]
      PROVE  i = j
  BY <1>1, <1>2, <1>3, <1>4, <1>6
<1> QED
  BY <1>5, <1>6 DEF Once, t

LEMMA HubsTyped == ASSUME Placed PROVE Hubs \in Seq(Couplers) /\ HubRoms(list) \in Seq(Couplers)
<1>1. list.couplers \in Seq(Coupler)
  BY DEF Placed, DiskOK, Lists
<1>2. \A d \in Coupler : d.rom \in Couplers
  BY DEF Coupler
<1>3. HubRoms(list) \in Seq(Couplers)
  BY <1>1, <1>2 DEF HubRoms
<1> QED
  BY <1>3 DEF Hubs, HubRoms, Placed, WalkOK

\* A device of the main LAN in the lists.
LEMMA LanAppend ==
  ASSUME Placed, NEW S \in SUBSET Roms, LanLists(S), NEW r \in Roms, r \notin S,
         \A q \in S : Before(q, r), NEW T, T = S \cup {r}, opt' = opt,
         opt.walk => /\ shown' = Append(shown, Entry(Zero, "lan", r)) /\ list' = list
                     /\ walked' = IF Kind[r] = "DS2409" THEN Append(walked, r) ELSE walked,
         ~opt.walk => list' = Listed(r) /\ shown' = shown
  PROVE  LanLists(T)'
<1>1. /\ InOrder(Hubs, S \cap Couplers)
      /\ opt.walk => Once(shown, LanEntry(S))
      /\ ~opt.walk => /\ InOrder(list.direct, S \cap Supported)
                      /\ \A i \in DOMAIN list.couplers :
                           list.couplers[i].main = <<>> /\ list.couplers[i].aux = <<>>
  BY DEF LanLists
<1>2. Couplers \subseteq Roms /\ Supported \subseteq Roms /\ Supported \cap Couplers = {}
  BY DEF Couplers, Supported
<1>3. Hubs \in Seq(Roms)
  BY <1>2, HubsTyped
<1>4. CASE r \in Couplers
  <2>1. T \cap Couplers = (S \cap Couplers) \cup {r} /\ T \cap Supported = S \cap Supported
    BY <1>2, <1>4
  <2>2. InOrder(Append(Hubs, r), T \cap Couplers)
    BY <1>1, <1>3, <2>1, InOrderAppend
  <2>3. CASE opt.walk
    <3>1. Hubs' = Append(Hubs, r)
      BY <1>4, <2>3 DEF Hubs, Couplers
    <3>2. Once(shown', LanEntry(T))
      <4>1. PICK e : e = Entry(Zero, "lan", r)
        OBVIOUS
      <4>2. e \in Shown /\ shown \in Seq(Shown)
        BY <4>1, Codes DEF Entry, Shown, Placed, WalkOK
      <4>3. e \notin LanEntry(S) /\ LanEntry(T) = LanEntry(S) \cup {e}
        BY <4>1 DEF LanEntry, Entry
      <4>4. Once(shown, LanEntry(S)) /\ shown' = Append(shown, e)
        BY <1>1, <2>3, <4>1
      <4>5. Once(Append(shown, e), LanEntry(T))
        BY <4>2, <4>3, <4>4, OnceAppend
      <4> QED
        BY <4>4, <4>5
    <3> QED
      BY <2>2, <2>3, <3>1, <3>2 DEF LanLists
  <2>4. CASE ~opt.walk
    <3>1. PICK h : h = [rom |-> r, main |-> <<>>, aux |-> <<>>]
      OBVIOUS
    <3>2. list' = [list EXCEPT !.couplers = Append(@, h)]
      BY <1>4, <2>4, <3>1 DEF Listed, Couplers
    <3>3. list.couplers \in Seq(Coupler) /\ list \in Lists
      BY DEF Placed, DiskOK, Lists
    <3>4. list'.couplers = Append(list.couplers, h) /\ list'.direct = list.direct
      BY <3>2, <3>3 DEF Lists
    <3>5. h \in Coupler
      BY <1>4, <3>1 DEF Coupler
    <3>6. \A i \in DOMAIN list'.couplers : list'.couplers[i].main = <<>> /\ list'.couplers[i].aux = <<>>
      BY <1>1, <2>4, <3>1, <3>3, <3>4, <3>5
    <3>7. Hubs' = Append(Hubs, r)
      <4>1. PICK m : m = list.couplers
        OBVIOUS
      <4>2. PICK w : w = Append(m, h)
        OBVIOUS
      <4>3. /\ Hubs = [i \in DOMAIN m |-> m[i].rom]
            /\ Hubs' = [i \in DOMAIN w |-> w[i].rom]
        BY <2>4, <3>4, <4>1, <4>2 DEF Hubs
      <4>4. PICK n : n = Len(m)
        OBVIOUS
      <4>5. /\ n \in Nat /\ DOMAIN m = 1..n /\ DOMAIN w = 1..n + 1 /\ w[n + 1] = h
            /\ \A i \in 1..n : w[i] = m[i]
        BY <3>3, <3>5, <4>1, <4>2, <4>4
      <4>6. h.rom = r
        BY <3>1
      <4>7. DOMAIN Hubs = 1..n /\ \A i \in 1..n : Hubs[i] = m[i].rom
        BY <4>3, <4>5
      <4>8. Len(Hubs) = n
        BY <1>3, <4>5, <4>7
      <4>9. PICK u : u = Append(Hubs, r)
        OBVIOUS
      <4>10. DOMAIN u = 1..n + 1 /\ u[n + 1] = r /\ \A i \in 1..n : u[i] = Hubs[i]
        <5>1. PICK q : q = Hubs
          OBVIOUS
        <5>2. q \in Seq(Roms) /\ Len(q) = n /\ u = Append(q, r)
          BY <1>3, <4>8, <4>9, <5>1
        <5>3. DOMAIN u = 1..n + 1 /\ u[n + 1] = r /\ \A i \in 1..n : u[i] = q[i]
          BY <4>5, <5>2
        <5> QED
          BY <5>1, <5>3
      <4>11. \A i \in 1..n + 1 : i \in 1..n \/ i = n + 1
        BY <4>5
      <4>12. \A i \in 1..n + 1 : w[i].rom = u[i]
        BY <4>5, <4>6, <4>7, <4>10, <4>11
      <4>13. u = [i \in 1..n + 1 |-> u[i]]
        <5>1. u \in Seq(Roms)
          BY <1>3, <4>9
        <5> QED
          BY <4>10, <5>1
      <4> QED
        BY <4>3, <4>5, <4>9, <4>12, <4>13
    <3>8. InOrder(list'.direct, T \cap Supported)
      BY <1>1, <2>1, <2>4, <3>4
    <3> QED
      BY <2>2, <2>4, <3>6, <3>7, <3>8 DEF LanLists
  <2> QED
    BY <2>3, <2>4
<1>5. CASE r \notin Couplers
  <2>1. T \cap Couplers = S \cap Couplers /\ Kind[r] # "DS2409"
    BY <1>5 DEF Couplers
  <2>2. CASE opt.walk
    <3>1. Hubs' = Hubs
      BY <2>1, <2>2 DEF Hubs
    <3>2. Once(shown', LanEntry(T))
      <4>1. PICK e : e = Entry(Zero, "lan", r)
        OBVIOUS
      <4>2. e \in Shown /\ shown \in Seq(Shown)
        BY <4>1, Codes DEF Entry, Shown, Placed, WalkOK
      <4>3. e \notin LanEntry(S) /\ LanEntry(T) = LanEntry(S) \cup {e}
        BY <4>1 DEF LanEntry, Entry
      <4>4. Once(shown, LanEntry(S)) /\ shown' = Append(shown, e)
        BY <1>1, <2>2, <4>1
      <4>5. Once(Append(shown, e), LanEntry(T))
        BY <4>2, <4>3, <4>4, OnceAppend
      <4> QED
        BY <4>4, <4>5
    <3> QED
      BY <1>1, <2>1, <2>2, <3>1, <3>2 DEF LanLists
  <2>3. CASE ~opt.walk /\ r \in Supported
    <3>1. list' = [list EXCEPT !.direct = Append(@, r)] /\ list \in Lists
      BY <2>1, <2>3 DEF Listed, Placed, DiskOK
    <3>2. list'.couplers = list.couplers /\ list'.direct = Append(list.direct, r) /\ list.direct \in Seq(Roms)
      BY <3>1 DEF Lists
    <3>3. T \cap Supported = (S \cap Supported) \cup {r}
      BY <2>3
    <3>4. InOrder(list'.direct, T \cap Supported)
      BY <1>1, <2>3, <3>2, <3>3, InOrderAppend
    <3>5. Hubs' = Hubs
      BY <2>3, <3>2 DEF Hubs
    <3> QED
      BY <1>1, <2>1, <2>3, <3>2, <3>4, <3>5 DEF LanLists
  <2>4. CASE ~opt.walk /\ r \notin Supported
    <3>1. list' = list
      BY <2>1, <2>4 DEF Listed
    <3>2. T \cap Supported = S \cap Supported /\ Hubs' = Hubs
      BY <2>4, <3>1 DEF Hubs
    <3> QED
      BY <1>1, <2>1, <2>4, <3>1, <3>2 DEF LanLists
  <2> QED
    BY <2>2, <2>3, <2>4
<1> QED
  BY <1>4, <1>5

LEMMA NoHubs == ASSUME InOrder(Hubs, {}), Placed PROVE Hubs = <<>> /\ DOMAIN Hubs = {}
<1>1. Hubs \in Seq(Couplers)
  BY HubsTyped
<1>2. DOMAIN Hubs = {}
  BY DEF InOrder, Range
<1> QED
  BY <1>1, <1>2

LEMMA ListLanFound ==
  ASSUME Placed, ListOK, ListLan, Finds(Visible), pc' # "branch", ~bad'
  PROVE  ListOK'
<1>1. pc = "list" /\ UNCHANGED <<net, disk, opt, ci, line, first, sample, reading>>
  BY DEF ListLan
<1>2. UNCHANGED <<place, branch>>
  BY <1>1 DEF net
<1>3. /\ AllOff({}) /\ line = "main" /\ (ci = 1 \/ OnHubs = {}) /\ Going(OnLan, search, serial)
      /\ LanLists(Seen(OnLan, search, serial))
  BY <1>1 DEF ListOK, LanListed
<1>4. Visible = OnLan /\ OnLan' = OnLan /\ OnHubs' = OnHubs
  BY <1>2, <1>3, OffSees, PlaceFrame
<1>5. OnLan \in SUBSET Roms /\ search \in Searches /\ serial \in Roms \cup {Zero}
  BY HubsOnLan DEF Placed, FlowOK
<1>6. PICK r, S, T : r = serial' /\ S = Seen(OnLan, search, serial) /\ T = Seen(OnLan, search', serial')
  OBVIOUS
<1>7. /\ serial' \in OnLan /\ serial' \in Roms /\ Going(OnLan, search', serial')
      /\ serial' \in Pending(OnLan, search, serial)
      /\ Seen(OnLan, search', serial') = Seen(OnLan, search, serial) \cup {serial'}
      /\ \A q \in Seen(OnLan, search, serial) : Before(q, serial')
  BY <1>3, <1>4, <1>5, FoundNext
<1>8. S \in SUBSET Roms /\ r \in Roms /\ r \notin S /\ T = S \cup {r} /\ \A q \in S : Before(q, r)
  BY <1>5, <1>6, <1>7 DEF Seen
<1>9. /\ opt.walk => /\ shown' = Append(shown, Entry(Zero, "lan", r)) /\ list' = list
                     /\ walked' = IF Kind[r] = "DS2409" THEN Append(walked, r) ELSE walked
                     /\ pc' = IF Kind[r] = "DS2409" THEN "listOff" ELSE "list"
      /\ ~opt.walk => list' = Listed(r) /\ shown' = shown /\ pc' = "list"
  BY <1>6 DEF ListLan, Goto
<1>10. LanLists(T)'
  BY <1>1, <1>3, <1>6, <1>8, <1>9, LanAppend
<1>11. pc' \in {"list", "listOff"} /\ (pc' = "listOff" => serial' \in OnHubs)
  BY <1>6, <1>7, <1>9 DEF OnHubs, Couplers
<1>12. AllOff({})'
  BY <1>2, <1>3, <1>4 DEF AllOff
<1>13. LanLists(Seen(OnLan, search, serial))'
  BY <1>4, <1>6, <1>10 DEF LanLists
<1>14. LanListed'
  BY <1>1, <1>3, <1>4, <1>7, <1>11, <1>12, <1>13 DEF LanListed
<1> QED
  BY <1>11, <1>14 DEF ListOK, Starting, Swept, BranchListed, Done, InSample, Reading

LEMMA ListLanDone ==
  ASSUME Placed, ListOK, ListLan, FindsNone(Visible), pc' = "branch", UNCHANGED <<list, walked, shown>>, ~bad'
  PROVE  ListOK'
<1>1. pc = "list" /\ UNCHANGED <<net, disk, opt, ci, line, first, sample, reading>>
  BY DEF ListLan
<1>2. UNCHANGED <<place, branch>>
  BY <1>1 DEF net
<1>3. /\ AllOff({}) /\ line = "main" /\ (ci = 1 \/ OnHubs = {}) /\ Going(OnLan, search, serial)
      /\ LanLists(Seen(OnLan, search, serial))
  BY <1>1 DEF ListOK, LanListed
<1>4. Visible = OnLan /\ OnLan' = OnLan /\ OnHubs' = OnHubs
  BY <1>2, <1>3, OffSees, PlaceFrame
<1>5. OnLan \in SUBSET Roms /\ search \in Searches /\ serial \in Roms \cup {Zero}
  BY HubsOnLan DEF Placed, FlowOK
<1>6. search' = Start0 /\ serial' = serial /\ Seen(OnLan, search, serial) = OnLan
  BY <1>3, <1>4, <1>5, FoundAll
<1>7. /\ InOrder(Hubs, OnHubs) /\ (opt.walk => Once(shown, LanEntry(OnLan)))
      /\ ~opt.walk => /\ InOrder(list.direct, OnLan \cap Supported)
                      /\ \A i \in DOMAIN list.couplers :
                           list.couplers[i].main = <<>> /\ list.couplers[i].aux = <<>>
  BY <1>3, <1>6 DEF LanLists, OnHubs
<1>8. Hubs' = Hubs
  BY <1>1 DEF Hubs
<1>9. ci = 1 \/ (Hubs = <<>> /\ DOMAIN Hubs = {})
  BY <1>3, <1>7, NoHubs
<1>10. ASSUME NEW i \in DOMAIN Hubs, NEW l \in {"main", "aux"}
       PROVE  FoundOn(i, l)' = {}
  <2>1. i \in Nat /\ i >= 1 /\ ci = 1
    <3>1. Hubs \in Seq(Couplers)
      BY HubsTyped
    <3> QED
      BY <1>9, <3>1
  <2>2. ~(i < ci') /\ line' = "main"
    BY <1>1, <1>3, <2>1
  <2>3. Seen(Behind(Hubs[i], l)', search', serial') = {}
    BY <1>6, SeenNone
  <2> QED
    BY <2>2, <2>3 DEF FoundOn
<1>11. BranchEntry' = {}
  <2>1. \A e \in Shown : e.line # "lan" => e.line \in {"main", "aux"}
    BY DEF Shown
  <2>2. \A e \in Shown : e.line # "lan" => \A i \in DOMAIN Hubs : FoundOn(i, e.line)' = {}
    BY <1>10, <2>1
  <2> QED
    BY <1>8, <2>2 DEF BranchEntry
<1>12. ~opt.walk => DOMAIN list.couplers = DOMAIN Hubs
  BY DEF Hubs
<1>13. BranchLists'
  <2>1. CASE opt.walk
    <3>1. Once(shown', LanEntry(OnLan)' \cup BranchEntry')
      BY <1>4, <1>7, <1>11, <2>1 DEF LanEntry
    <3> QED
      BY <1>1, <2>1, <3>1 DEF BranchLists
  <2>2. CASE ~opt.walk
    <3>1. \A i \in DOMAIN list.couplers : FoundOn(i, "main")' \cap Supported = {} /\ FoundOn(i, "aux")' \cap Supported = {}
      BY <1>10, <1>12, <2>2
    <3>2. \A i \in DOMAIN list'.couplers :
             /\ InOrder(list'.couplers[i].main, FoundOn(i, "main")' \cap Supported)
             /\ InOrder(list'.couplers[i].aux, FoundOn(i, "aux")' \cap Supported)
      BY <1>7, <2>2, <3>1, InOrderEmpty
    <3>3. InOrder(list'.direct, OnLan' \cap Supported)
      BY <1>4, <1>7, <2>2
    <3> QED
      BY <1>1, <2>2, <3>2, <3>3 DEF BranchLists
  <2> QED
    BY <2>1, <2>2
<1>14. Going(Behind(Hubs[ci], line)', search', serial')
  BY <1>6, SeenNone
<1>15. InOrder(Hubs', OnHubs') /\ (ci' # 0 \/ Hubs' = <<>>)
  BY <1>1, <1>4, <1>7, <1>8, <1>9
<1>16. BranchListed'
  BY <1>13, <1>14, <1>15 DEF BranchListed
<1> QED
  BY <1>16 DEF ListOK, Starting, Swept, LanListed, Done, InSample, Reading

LEMMA ListOnLan == ASSUME Placed, ListOK, ListLan, ~bad' PROVE ListOK'
<1>1. CASE Finds(Visible) /\ pc' # "branch"
  BY <1>1, ListLanFound
<1>2. CASE FindsNone(Visible) /\ pc' = "branch" /\ UNCHANGED <<list, walked, shown>>
  BY <1>2, ListLanDone
<1>3. \/ Finds(Visible) /\ pc' # "branch"
      \/ FindsNone(Visible) /\ pc' = "branch" /\ UNCHANGED <<list, walked, shown>>
  BY DEF ListLan, Goto
<1> QED
  BY <1>1, <1>2, <1>3

\* Going on with the next branch, all devices of this one being found.
LEMMA NextKeeps ==
  ASSUME Placed, UNCHANGED <<place, list, walked, opt>>, NextBranch, ci \in DOMAIN Hubs,
         Seen(Behind(Hubs[ci], line), search, serial) = Behind(Hubs[ci], line)
  PROVE  \A i \in DOMAIN Hubs, l \in {"main", "aux"} : FoundOn(i, l)' = FoundOn(i, l)
<1>1. Hubs \in Seq(Couplers)
  BY HubsTyped
<1>2. Hubs' = Hubs
  BY DEF Hubs
<1>3. /\ search' = Start0 /\ ci \in Nat /\ line \in {"main", "aux"}
      /\ line' = IF line = "main" THEN "aux" ELSE "main"
      /\ ci' = IF line = "main" THEN ci ELSE ci + 1
  BY <1>1 DEF NextBranch, Placed, WalkOK
<1>4. SUFFICES ASSUME NEW i \in DOMAIN Hubs, NEW l \in {"main", "aux"}
               PROVE  FoundOn(i, l)' = FoundOn(i, l)
  OBVIOUS
<1>5. i \in Nat
  BY <1>1
<1>6. PICK B : B = Behind(Hubs[i], l)
  OBVIOUS
<1>7. Behind(Hubs[i], l)' = B /\ Seen(B, search', serial') = {}
  BY <1>2, <1>3, <1>6, PlaceFrame, SeenNone
<1>8. FoundOn(i, l)' = IF i < ci' \/ (i = ci' /\ l = "main" /\ line' = "aux") THEN B ELSE {}
  BY <1>7 DEF FoundOn
<1>9. FoundOn(i, l) = IF i < ci \/ (i = ci /\ l = "main" /\ line = "aux") THEN B
                      ELSE IF i = ci /\ l = line THEN B ELSE {}
  BY <1>6 DEF FoundOn
<1>10. i < ci' \/ (i = ci' /\ l = "main" /\ line' = "aux")
         <=> i < ci \/ (i = ci /\ l = "main" /\ line = "aux") \/ (i = ci /\ l = line)
  <2>1. CASE line = "main"
    <3>1. ci' = ci /\ line' = "aux"
      BY <1>3, <2>1
    <3> QED
      BY <2>1, <3>1
  <2>2. CASE line = "aux"
    <3>1. ci' = ci + 1 /\ line' = "main"
      BY <1>3, <2>2
    <3>2. i < ci + 1 <=> i < ci \/ i = ci
      BY <1>3, <1>5
    <3> QED
      BY <2>2, <3>1, <3>2
  <2> QED
    BY <1>3, <2>1, <2>2
<1> QED
  BY <1>8, <1>9, <1>10

LEMMA BranchKeeps ==
  ASSUME Placed, BranchLists, UNCHANGED <<place, list, walked, opt, shown>>,
         \A i \in DOMAIN Hubs, l \in {"main", "aux"} : FoundOn(i, l)' = FoundOn(i, l)
  PROVE  BranchLists'
<1>1. Hubs' = Hubs /\ OnLan' = OnLan
  BY PlaceFrame DEF Hubs
<1>2. CASE opt.walk
  <2>1. BranchEntry' = BranchEntry
    <3>1. \A e \in Shown : e.line # "lan" => e.line \in {"main", "aux"}
      BY DEF Shown
    <3>2. \A e \in Shown : e.line # "lan" =>
            \A i \in DOMAIN Hubs : FoundOn(i, e.line)' = FoundOn(i, e.line)
      BY <3>1
    <3> QED
      BY <1>1, <3>2 DEF BranchEntry
  <2>2. LanEntry(OnLan)' = LanEntry(OnLan)
    BY <1>1 DEF LanEntry
  <2>3. Once(shown', LanEntry(OnLan)' \cup BranchEntry')
    BY <1>2, <2>1, <2>2 DEF BranchLists
  <2> QED
    BY <1>2, <2>3 DEF BranchLists
<1>3. CASE ~opt.walk
  <2>1. DOMAIN list.couplers = DOMAIN Hubs
    BY <1>3 DEF Hubs
  <2>2. \A i \in DOMAIN list'.couplers :
             /\ InOrder(list'.couplers[i].main, FoundOn(i, "main")' \cap Supported)
             /\ InOrder(list'.couplers[i].aux, FoundOn(i, "aux")' \cap Supported)
    BY <1>3, <2>1 DEF BranchLists
  <2>3. InOrder(list'.direct, OnLan' \cap Supported)
    BY <1>1, <1>3 DEF BranchLists
  <2> QED
    BY <1>3, <2>2, <2>3 DEF BranchLists
<1> QED
  BY <1>2, <1>3

LEMMA NextListed ==
  ASSUME Placed, BranchLists, InOrder(Hubs, OnHubs), ci # 0, ci \in DOMAIN Hubs,
         UNCHANGED <<place, list, walked, opt, shown>>, NextBranch,
         Seen(Behind(Hubs[ci], line), search, serial) = Behind(Hubs[ci], line)
  PROVE  ListOK'
<1>1. pc' = "branch" /\ search' = Start0
  BY DEF NextBranch, Goto
<1>2. BranchLists'
  BY NextKeeps, BranchKeeps
<1>3. Hubs' = Hubs /\ OnHubs' = OnHubs
  BY PlaceFrame DEF Hubs
<1>4. ci' # 0
  <2>1. ci \in Nat
    BY DEF Placed, WalkOK
  <2>2. ci + 1 # 0
    BY <2>1
  <2> QED
    BY <2>2 DEF NextBranch
<1>5. Going(Behind(Hubs[ci], line)', search', serial')
  BY <1>1, SeenNone
<1>6. BranchListed'
  BY <1>1, <1>2, <1>3, <1>4, <1>5 DEF BranchListed
<1> QED
  BY <1>1, <1>6 DEF ListOK, Starting, Swept, LanListed, Done, InSample, Reading

LEMMA HubHere ==
  ASSUME Placed, InOrder(Hubs, OnHubs), ci \in DOMAIN Hubs
  PROVE  Hubs[ci] \in OnHubs /\ Hubs[ci] \in Couplers
BY HubsOnLan DEF InOrder, Range

LEMMA ListConnect == ASSUME Placed, ListOK, ConnectBranch, ~bad' PROVE ListOK'
<1>1. /\ pc = "branch" /\ ci \in DOMAIN Hubs
      /\ UNCHANGED <<disk, lists, serial, walked, shown, sample, reading>>
  BY DEF ConnectBranch
<1>2. UNCHANGED <<list, walked, opt, shown>>
  BY <1>1 DEF lists
<1>3. /\ InOrder(Hubs, OnHubs) /\ (ci # 0 \/ Hubs = <<>>) /\ BranchLists
      /\ Going(Behind(Hubs[ci], line), search, serial)
  BY <1>1 DEF ListOK, BranchListed
<1>4. ci # 0
  <2>1. Hubs \in Seq(Couplers)
    BY HubsTyped
  <2> QED
    BY <1>1, <2>1
<1>5. Hubs[ci] \in OnHubs /\ Hubs[ci] \in Couplers
  BY <1>1, <1>3, HubHere
<1>6. ~NotSwitched(Hubs[ci], line)
  BY <1>5, Obeys
<1>7. /\ Switched(Hubs[ci], line)
      /\ IF first /\ Behind(Hubs[ci], line) = {} THEN NextBranch
         ELSE pc' = "branchNext" /\ UNCHANGED <<ci, line, first, search>>
  BY <1>6 DEF ConnectBranch, Goto
<1>8. branch' = [branch EXCEPT ![Hubs[ci]] = line] /\ UNCHANGED place
  BY <1>7 DEF Switched
<1>9. CASE NextBranch /\ Behind(Hubs[ci], line) = {}
  <2>1. Seen(Behind(Hubs[ci], line), search, serial) = Behind(Hubs[ci], line)
    BY <1>9 DEF Seen
  <2> QED
    BY <1>1, <1>2, <1>3, <1>4, <1>8, <1>9, <2>1, NextListed
<1>10. CASE pc' = "branchNext" /\ UNCHANGED <<ci, line, first, search>>
  <2>1. Hubs' = Hubs /\ OnHubs' = OnHubs
    BY <1>2, <1>8, PlaceFrame DEF Hubs
  <2>2. Behind(Hubs[ci], line)' = Behind(Hubs[ci], line) /\ serial' = serial
    BY <1>1, <1>8, <1>10, <2>1, PlaceFrame
  <2>3. ASSUME NEW i \in DOMAIN Hubs, NEW l \in {"main", "aux"}
        PROVE  FoundOn(i, l)' = FoundOn(i, l)
    <3>1. Behind(Hubs[i], l)' = Behind(Hubs[i], l)
      BY <1>8, <2>1, PlaceFrame
    <3> QED
      BY <1>10, <2>2, <3>1 DEF FoundOn, Seen, Pending, Later
  <2>4. BranchLists'
    BY <1>2, <1>3, <1>8, <2>3, BranchKeeps
  <2>5. branch'[Hubs[ci]] = line
    BY <1>5, <1>8, HubsOnLan
  <2>6. Going(Behind(Hubs[ci], line)', search', serial')
    BY <1>3, <1>10, <2>2
  <2>7. BranchListed'
    BY <1>3, <1>4, <1>10, <2>1, <2>4, <2>5, <2>6 DEF BranchListed
  <2> QED
    BY <1>10, <2>7 DEF ListOK, Starting, Swept, LanListed, Done, InSample, Reading
<1> QED
  BY <1>7, <1>9, <1>10

LEMMA BehindIs ==
  ASSUME list \in Lists, NEW r \in Roms, r \in Supported, ci \in DOMAIN list.couplers,
         line \in {"main", "aux"}, NEW new, new = ListedBehind(r)
  PROVE  /\ new.direct = list.direct
         /\ DOMAIN new.couplers = DOMAIN list.couplers
         /\ \A i \in DOMAIN list.couplers :
              LET c == list.couplers[i]
                  d == new.couplers[i]
              IN /\ d.rom = c.rom
                 /\ d.main = IF i = ci /\ line = "main" THEN Append(c.main, r) ELSE c.main
                 /\ d.aux = IF i = ci /\ line = "aux" THEN Append(c.aux, r) ELSE c.aux
<1>1. list.couplers \in Seq(Coupler)
  BY DEF Lists
<1>2. PICK cs, ds : cs = list.couplers /\ ds = new.couplers
  OBVIOUS
<1>3. \A i \in DOMAIN cs : cs[i] \in Coupler
  BY <1>1, <1>2
<1>4. new = IF line = "main" THEN [list EXCEPT !.couplers[ci].main = Append(@, r)]
            ELSE [list EXCEPT !.couplers[ci].aux = Append(@, r)]
  BY DEF ListedBehind
<1>5. /\ new.direct = list.direct /\ DOMAIN ds = DOMAIN cs
      /\ \A i \in DOMAIN cs :
           /\ ds[i].main = IF i = ci /\ line = "main" THEN Append(cs[i].main, r) ELSE cs[i].main
           /\ ds[i].aux = IF i = ci /\ line = "aux" THEN Append(cs[i].aux, r) ELSE cs[i].aux
  BY <1>1, <1>2, <1>3, <1>4 DEF Lists, Coupler
<1>6. \A i \in DOMAIN cs : ds[i].rom = cs[i].rom
  <2>1. CASE line = "main"
    BY <1>1, <1>2, <1>3, <1>4, <2>1 DEF Lists, Coupler
  <2>2. CASE line = "aux"
    BY <1>1, <1>2, <1>3, <1>4, <2>2 DEF Lists, Coupler
  <2> QED
    BY <2>1, <2>2
<1> QED
  BY <1>2, <1>5, <1>6

\* A device found on a branch.
LEMMA BranchFound ==
  ASSUME Placed, ListOK, pc = "branchNext", ci \in DOMAIN Hubs, NEW D, D = Behind(Hubs[ci], line),
         Finds(D), pc' = "branch", UNCHANGED <<place, branch, opt, walked, ci, line>>,
         IF opt.walk THEN shown' = Append(shown, Entry(Hubs[ci], line, serial')) /\ UNCHANGED list
         ELSE list' = ListedBehind(serial') /\ UNCHANGED shown
  PROVE  ListOK'
<1>1. /\ InOrder(Hubs, OnHubs) /\ (ci # 0 \/ Hubs = <<>>) /\ BranchLists
      /\ Going(Behind(Hubs[ci], line), search, serial)
  BY DEF ListOK, BranchListed
<1>2. Hubs \in Seq(Couplers) /\ Hubs[ci] \in OnHubs /\ Hubs[ci] \in Couplers
  BY <1>1, HubsTyped, HubHere
<1>3. D \in SUBSET Roms /\ search \in Searches /\ serial \in Roms \cup {Zero} /\ line \in {"main", "aux"}
  BY DEF Behind, Placed, FlowOK, WalkOK
<1>4. PICK r, S, T : r = serial' /\ S = Seen(D, search, serial) /\ T = Seen(D, search', serial')
  OBVIOUS
<1>5. /\ serial' \in D /\ serial' \in Roms /\ Going(D, search', serial')
      /\ serial' \in Pending(D, search, serial)
      /\ Seen(D, search', serial') = Seen(D, search, serial) \cup {serial'}
      /\ \A q \in Seen(D, search, serial) : Before(q, serial')
  BY <1>1, <1>3, FoundNext
<1>6. S \in SUBSET Roms /\ r \in Roms /\ r \notin S /\ T = S \cup {r} /\ \A q \in S : Before(q, r)
  BY <1>3, <1>4, <1>5 DEF Seen
<1>7. OnLan' = OnLan /\ OnHubs' = OnHubs /\ \A c, l : Behind(c, l)' = Behind(c, l)
  BY PlaceFrame
<1>8. PICK h : h = Hubs
  OBVIOUS
<1>9. Hubs' = h
  <2>1. CASE opt.walk
    BY <1>8, <2>1 DEF Hubs
  <2>2. CASE ~opt.walk
    <3>1. list' = ListedBehind(r) /\ list \in Lists
      BY <1>4, <2>2 DEF Placed, DiskOK
    <3>2. list.couplers \in Seq(Coupler) /\ ci \in DOMAIN list.couplers
      BY <2>2, <3>1 DEF Lists, Hubs
    <3>3. CASE r \notin Supported
      <4>1. list' = list
        BY <3>1, <3>3 DEF ListedBehind
      <4> QED
        BY <1>8, <2>2, <4>1 DEF Hubs
    <3>4. CASE r \in Supported
      <4>1. DOMAIN list'.couplers = DOMAIN list.couplers
            /\ \A i \in DOMAIN list.couplers : list'.couplers[i].rom = list.couplers[i].rom
        BY <1>3, <1>6, <3>1, <3>2, <3>4, BehindIs
      <4> QED
        BY <1>8, <2>2, <4>1 DEF Hubs
    <3> QED
      BY <3>3, <3>4
  <2> QED
    BY <2>1, <2>2
<1>10. FoundOn(ci, line) = S /\ FoundOn(ci, line)' = T
  <2>1. Behind(h[ci], line)' = D
    BY <1>7, <1>8
  <2>2. ci \in Nat
    BY DEF Placed, WalkOK
  <2>3. ~(ci < ci) /\ ~(ci' < ci') /\ ci' = ci
    BY <2>2
  <2>4. FoundOn(ci, line) = Seen(D, search, serial)
    BY <1>3, <2>3 DEF FoundOn
  <2>5. FoundOn(ci, line)' = Seen(Behind(h[ci], line)', search', serial')
    BY <1>3, <1>9, <2>3 DEF FoundOn
  <2> QED
    BY <1>4, <2>1, <2>4, <2>5
<1>11. ASSUME NEW i \in DOMAIN Hubs, NEW l \in {"main", "aux"}, ~(i = ci /\ l = line)
       PROVE  FoundOn(i, l)' = FoundOn(i, l)
  <2>1. Behind(h[i], l)' = Behind(h[i], l)
    BY <1>7
  <2> QED
    BY <1>8, <1>9, <1>11, <2>1 DEF FoundOn
<1>12. BranchLists'
  <2>1. CASE opt.walk
    <3>1. PICK e : e = Entry(Hubs[ci], line, r)
      OBVIOUS
    <3>2. PICK X, Y : X = LanEntry(OnLan) \cup BranchEntry /\ Y = LanEntry(OnLan)' \cup BranchEntry'
      OBVIOUS
    <3>3. e \in Shown /\ shown \in Seq(Shown) /\ shown' = Append(shown, e)
      BY <1>2, <1>3, <1>4, <1>6, <2>1, <3>1, Codes DEF Entry, Shown, Placed, WalkOK
    <3>4. e \notin X
      <4>1. ASSUME NEW i \in DOMAIN Hubs, e.hub = Hubs[i], e.rom \in FoundOn(i, e.line)
            PROVE  FALSE
        <5>1. Hubs[i] = Hubs[ci] /\ e.line = line /\ e.rom = r
          BY <3>1, <4>1 DEF Entry
        <5>2. Hubs \in Seq(Roms)
          BY <1>2 DEF Couplers
        <5>3. i = ci
          BY <1>1, <5>1, <5>2, InOrderOnce
        <5> QED
          BY <1>6, <1>10, <4>1, <5>1, <5>3
      <4>2. e \notin BranchEntry
        BY <4>1 DEF BranchEntry
      <4>3. e \notin LanEntry(OnLan)
        BY <1>3, <3>1 DEF LanEntry, Entry
      <4> QED
        BY <3>2, <4>2, <4>3
    <3>5. Y = X \cup {e}
      <4>1. LanEntry(OnLan)' = LanEntry(OnLan)
        BY <1>7 DEF LanEntry
      <4>2. ASSUME NEW i \in DOMAIN Hubs, NEW l \in {"main", "aux"}
            PROVE  FoundOn(i, l)' = IF i = ci /\ l = line THEN FoundOn(i, l) \cup {r} ELSE FoundOn(i, l)
        BY <1>6, <1>10, <1>11
      <4>3. \A x : x \in BranchEntry' <=> x \in Shown /\ x.line # "lan"
                     /\ \E i \in DOMAIN h : x.hub = h[i] /\ x.rom \in FoundOn(i, x.line)'
        BY <1>9 DEF BranchEntry, Shown
      <4>4. \A x : x \in BranchEntry <=> x \in Shown /\ x.line # "lan"
                     /\ \E i \in DOMAIN h : x.hub = h[i] /\ x.rom \in FoundOn(i, x.line)
        BY <1>8 DEF BranchEntry
      <4>5. ASSUME NEW x \in BranchEntry
            PROVE  x \in BranchEntry'
        <5>1. PICK i \in DOMAIN h : x.hub = h[i] /\ x.rom \in FoundOn(i, x.line)
          BY <4>4
        <5>2. x \in Shown /\ x.line \in {"main", "aux"}
          BY <4>4 DEF Shown
        <5>3. x.rom \in FoundOn(i, x.line)'
          BY <1>8, <4>2, <5>1, <5>2
        <5> QED
          BY <4>3, <5>1, <5>2, <5>3
      <4>6. e \in BranchEntry'
        <5>1. e.rom \in FoundOn(ci, e.line)' /\ e.hub = h[ci] /\ ci \in DOMAIN h /\ e.line # "lan"
          BY <1>3, <1>6, <1>8, <1>10, <3>1 DEF Entry
        <5> QED
          BY <3>3, <4>3, <5>1
      <4>7. ASSUME NEW x \in BranchEntry'
            PROVE  x \in BranchEntry \/ x = e
        <5>1. PICK i \in DOMAIN h : x.hub = h[i] /\ x.rom \in FoundOn(i, x.line)'
          BY <4>3
        <5>2. x \in Shown /\ x.line \in {"main", "aux"}
          BY <4>3 DEF Shown
        <5>3. x.rom \in FoundOn(i, x.line) \/ (i = ci /\ x.line = line /\ x.rom = r)
          BY <1>8, <4>2, <5>1, <5>2
        <5>4. CASE x.rom \in FoundOn(i, x.line)
          BY <4>4, <5>1, <5>2, <5>4
        <5>5. CASE i = ci /\ x.line = line /\ x.rom = r
          BY <1>8, <3>1, <5>1, <5>2, <5>5 DEF Entry, Shown
        <5> QED
          BY <5>3, <5>4, <5>5
      <4> QED
        BY <3>2, <4>1, <4>5, <4>6, <4>7
    <3>6. Once(shown, X)
      BY <2>1, <1>1, <3>2 DEF BranchLists
    <3>7. Once(Append(shown, e), Y)
      BY <3>3, <3>4, <3>5, <3>6, OnceAppend
    <3> QED
      BY <2>1, <3>2, <3>3, <3>7 DEF BranchLists
  <2>2. CASE ~opt.walk
    <3>1. list' = ListedBehind(r) /\ list \in Lists
      BY <1>4, <2>2 DEF Placed, DiskOK
    <3>2. list.couplers \in Seq(Coupler) /\ ci \in DOMAIN list.couplers /\ DOMAIN list.couplers = DOMAIN Hubs
      BY <2>2, <3>1 DEF Lists, Hubs
    <3>3. /\ InOrder(list.direct, OnLan \cap Supported)
          /\ \A i \in DOMAIN list.couplers :
                   /\ InOrder(list.couplers[i].main, FoundOn(i, "main") \cap Supported)
                   /\ InOrder(list.couplers[i].aux, FoundOn(i, "aux") \cap Supported)
      BY <1>1, <2>2 DEF BranchLists
    <3>4. CASE r \notin Supported
      <4>1. list' = list
        BY <3>1, <3>4 DEF ListedBehind
      <4>2. \A i \in DOMAIN list.couplers, l \in {"main", "aux"} :
              FoundOn(i, l)' \cap Supported = FoundOn(i, l) \cap Supported
        BY <1>6, <1>10, <1>11, <3>2, <3>4
      <4>3. /\ InOrder(list'.direct, OnLan' \cap Supported)
            /\ \A i \in DOMAIN list'.couplers :
                   /\ InOrder(list'.couplers[i].main, FoundOn(i, "main")' \cap Supported)
                   /\ InOrder(list'.couplers[i].aux, FoundOn(i, "aux")' \cap Supported)
        BY <1>7, <3>3, <4>1, <4>2
      <4> QED
        BY <2>2, <4>3 DEF BranchLists
    <3>5. CASE r \in Supported
      <4>1. PICK cs, ds : cs = list.couplers /\ ds = list'.couplers
        OBVIOUS
      <4>2. \A i \in DOMAIN cs : cs[i] \in Coupler
        BY <3>2, <4>1
      <4>4. /\ list'.direct = list.direct
            /\ DOMAIN ds = DOMAIN cs
            /\ \A i \in DOMAIN cs :
                 /\ ds[i].main = IF i = ci /\ line = "main" THEN Append(cs[i].main, r) ELSE cs[i].main
                 /\ ds[i].aux = IF i = ci /\ line = "aux" THEN Append(cs[i].aux, r) ELSE cs[i].aux
        <5>1. PICK new : new = list'
          OBVIOUS
        <5> QED
          BY <1>3, <1>6, <3>1, <3>2, <3>5, <4>1, <5>1, BehindIs
      <4>5. \A i \in DOMAIN cs : cs[i].main \in Seq(Roms) /\ cs[i].aux \in Seq(Roms)
        BY <4>2 DEF Coupler
      <4>6. T \cap Supported = (S \cap Supported) \cup {r} /\ \A q \in S \cap Supported : Before(q, r)
        BY <1>6, <3>5
      <4>7. ASSUME NEW i \in DOMAIN cs, ~(i = ci /\ line = "main")
            PROVE  InOrder(ds[i].main, FoundOn(i, "main")' \cap Supported)
        <5>1. FoundOn(i, "main")' = FoundOn(i, "main")
          BY <1>11, <3>2, <4>1, <4>7
        <5> QED
          BY <3>3, <4>1, <4>4, <4>7, <5>1
      <4>8. ASSUME NEW i \in DOMAIN cs, ~(i = ci /\ line = "aux")
            PROVE  InOrder(ds[i].aux, FoundOn(i, "aux")' \cap Supported)
        <5>1. FoundOn(i, "aux")' = FoundOn(i, "aux")
          BY <1>11, <3>2, <4>1, <4>8
        <5> QED
          BY <3>3, <4>1, <4>4, <4>8, <5>1
      <4>9. ASSUME line = "main"
            PROVE  InOrder(ds[ci].main, FoundOn(ci, "main")' \cap Supported)
        <5>1. InOrder(cs[ci].main, S \cap Supported)
          BY <1>10, <3>2, <3>3, <4>1, <4>9
        <5>2. InOrder(Append(cs[ci].main, r), T \cap Supported)
          BY <1>6, <3>2, <4>1, <4>5, <4>6, <5>1, InOrderAppend
        <5> QED
          BY <1>10, <3>2, <4>1, <4>4, <4>9, <5>2
      <4>10. ASSUME line = "aux"
            PROVE  InOrder(ds[ci].aux, FoundOn(ci, "aux")' \cap Supported)
        <5>1. InOrder(cs[ci].aux, S \cap Supported)
          BY <1>10, <3>2, <3>3, <4>1, <4>10
        <5>2. InOrder(Append(cs[ci].aux, r), T \cap Supported)
          BY <1>6, <3>2, <4>1, <4>5, <4>6, <5>1, InOrderAppend
        <5> QED
          BY <1>10, <3>2, <4>1, <4>4, <4>10, <5>2
      <4>11. \A i \in DOMAIN list'.couplers :
                   /\ InOrder(list'.couplers[i].main, FoundOn(i, "main")' \cap Supported)
                   /\ InOrder(list'.couplers[i].aux, FoundOn(i, "aux")' \cap Supported)
        BY <4>1, <4>4, <4>7, <4>8, <4>9, <4>10
      <4>12. InOrder(list'.direct, OnLan' \cap Supported)
        BY <1>7, <3>3, <4>4
      <4> QED
        BY <2>2, <4>11, <4>12 DEF BranchLists
    <3> QED
      BY <3>4, <3>5
  <2> QED
    BY <2>1, <2>2
<1>13. Going(Behind(h[ci], line)', search', serial')
  BY <1>5, <1>7, <1>8
<1>14. InOrder(Hubs', OnHubs') /\ (ci' # 0 \/ Hubs' = <<>>)
  BY <1>1, <1>7, <1>8, <1>9
<1>15. BranchListed'
  BY <1>9, <1>12, <1>13, <1>14 DEF BranchListed
<1> QED
  BY <1>15 DEF ListOK, Starting, Swept, LanListed, Done, InSample, Reading

LEMMA ListSearch == ASSUME Placed, ListOK, SearchBranch, ~bad' PROVE ListOK'
<1>1. /\ pc = "branchNext" /\ ci \in DOMAIN Hubs
      /\ UNCHANGED <<net, disk, opt, walked, sample, reading>>
  BY DEF SearchBranch, Placed, AtBranch
<1>2. UNCHANGED <<place, branch>>
  BY <1>1 DEF net
<1>3. /\ InOrder(Hubs, OnHubs) /\ (ci # 0 \/ Hubs = <<>>) /\ BranchLists
      /\ Going(Behind(Hubs[ci], line), search, serial) /\ branch[Hubs[ci]] = line
  BY <1>1 DEF ListOK, BranchListed
<1>4. PICK D : D = Behind(Hubs[ci], line)
  OBVIOUS
<1>5. \/ /\ Finds(D) /\ pc' = "branch" /\ UNCHANGED <<ci, line>>
         /\ IF opt.walk THEN shown' = Append(shown, Entry(Hubs[ci], line, serial')) /\ UNCHANGED list
            ELSE list' = ListedBehind(serial') /\ UNCHANGED shown
      \/ FindsNone(D) /\ NextBranch /\ UNCHANGED <<list, shown>>
  BY <1>3, <1>4 DEF SearchBranch, Goto
<1>6. CASE /\ Finds(D) /\ pc' = "branch" /\ UNCHANGED <<ci, line>>
           /\ IF opt.walk THEN shown' = Append(shown, Entry(Hubs[ci], line, serial')) /\ UNCHANGED list
              ELSE list' = ListedBehind(serial') /\ UNCHANGED shown
  BY <1>1, <1>2, <1>4, <1>6, BranchFound
<1>7. CASE FindsNone(D) /\ NextBranch /\ UNCHANGED <<list, shown>>
  <2>1. D \in SUBSET Roms /\ search \in Searches /\ serial \in Roms \cup {Zero}
    BY <1>4 DEF Behind, Placed, FlowOK
  <2>2. Seen(D, search, serial) = D
    BY <1>3, <1>4, <1>7, <2>1, FoundAll
  <2>3. ci # 0
    <3>1. Hubs \in Seq(Couplers)
      BY HubsTyped
    <3> QED
      BY <1>1, <3>1
  <2> QED
    BY <1>1, <1>2, <1>3, <1>4, <1>7, <2>2, <2>3, NextListed
<1> QED
  BY <1>5, <1>6, <1>7

OnBranch(c, l) == {Entry(c, l, r) : r \in Behind(c, l)}

LEMMA ListBranches == ASSUME Placed, ListOK, BranchesDone PROVE ListOK'
<1>1. /\ pc = "branch" /\ ci \notin DOMAIN Hubs
      /\ UNCHANGED <<net, disk, lists, search, serial, walked, shown, line, first, sample, reading, fault>>
      /\ pc' = IF opt.walk THEN "leave" ELSE IF Flat(list) # <<>> THEN "write" ELSE "round"
  BY DEF BranchesDone, Goto
<1>2. UNCHANGED <<place, list, opt, shown>>
  BY <1>1 DEF net, lists
<1>3. InOrder(Hubs, OnHubs) /\ (ci # 0 \/ Hubs = <<>>) /\ BranchLists
  BY <1>1 DEF ListOK, BranchListed
<1>4. Hubs \in Seq(Couplers) /\ ci \in Nat
  BY HubsTyped DEF Placed, WalkOK
<1>5. ASSUME NEW i \in DOMAIN Hubs, NEW l \in {"main", "aux"}
      PROVE  FoundOn(i, l) = Behind(Hubs[i], l)
  <2>1. PICK h : h = Hubs
    OBVIOUS
  <2>2. h \in Seq(Couplers) /\ i \in 1..Len(h) /\ ci \notin 1..Len(h) /\ (ci # 0 \/ h = <<>>)
    BY <1>1, <1>3, <1>4, <2>1
  <2>3. Len(h) # 0 /\ Len(h) \in Nat
    BY <2>2
  <2>4. i < ci
    BY <1>4, <2>2, <2>3
  <2> QED
    BY <2>4 DEF FoundOn
<1>6. CASE opt.walk
  <2>1. LanEntry(OnLan) \cup BranchEntry = ShouldShow
    <3>1. ASSUME NEW e
          PROVE  e \in BranchEntry <=> \E c \in Couplers, l \in {"main", "aux"} : e \in {Entry(c, l, r) : r \in Behind(c, l)}
      <4>1. ASSUME e \in BranchEntry
            PROVE  \E c \in Couplers, l \in {"main", "aux"} : e \in {Entry(c, l, r) : r \in Behind(c, l)}
        <5>1. PICK i \in DOMAIN Hubs : e.hub = Hubs[i] /\ e.rom \in FoundOn(i, e.line)
          BY <4>1 DEF BranchEntry
        <5>2. e \in Shown /\ e.line \in {"main", "aux"}
          BY <4>1 DEF BranchEntry, Shown
        <5>3. e = Entry(Hubs[i], e.line, e.rom)
          BY <5>1, <5>2 DEF Shown, Entry
        <5>4. Hubs[i] \in Couplers /\ e.rom \in Behind(Hubs[i], e.line)
          BY <1>4, <1>5, <5>1, <5>2
        <5> QED
          BY <5>2, <5>3, <5>4
      <4>2. ASSUME NEW c \in Couplers, NEW l \in {"main", "aux"}, NEW r \in Behind(c, l), e = Entry(c, l, r)
            PROVE  e \in BranchEntry
        <5>1. c \in OnHubs
          BY HubsOnLan
        <5>2. PICK i \in DOMAIN Hubs : Hubs[i] = c
          BY <1>3, <5>1 DEF InOrder, Range
        <5>3. r \in FoundOn(i, l)
          BY <1>5, <5>2
        <5>4. e \in Shown /\ e.line = l /\ e.hub = c /\ e.rom = r
          BY <4>2, Codes DEF Shown, Entry, Behind
        <5> QED
          BY <5>2, <5>3, <5>4 DEF BranchEntry
      <4> QED
        BY <4>1, <4>2
    <3>2. ASSUME NEW e
          PROVE  e \in ShouldShow <=> \/ e \in LanEntry(OnLan)
                   \/ \E c \in Couplers, l \in {"main", "aux"} : e \in {Entry(c, l, r) : r \in Behind(c, l)}
      <4>1. ShouldShow = LanEntry(OnLan) \cup UNION {OnBranch(c, l) : c \in Couplers, l \in {"main", "aux"}}
        BY DEF ShouldShow, LanEntry, OnBranch
      <4>2. e \in UNION {OnBranch(c, l) : c \in Couplers, l \in {"main", "aux"}}
              <=> \E c \in Couplers, l \in {"main", "aux"} : e \in OnBranch(c, l)
        OBVIOUS
      <4> QED
        BY <4>1, <4>2 DEF OnBranch
    <3> QED
      BY <3>1, <3>2
  <2>2. Once(shown, ShouldShow)
    BY <1>3, <1>6, <2>1 DEF BranchLists
  <2>3. Once(shown', ShouldShow')
    <3>1. ShouldShow' = ShouldShow
      BY <1>2, PlaceFrame
    <3> QED
      BY <1>2, <2>2, <3>1
  <2>4. pc' = "leave"
    BY <1>1, <1>6
  <2> QED
    BY <2>3, <2>4 DEF ListOK, Starting, Swept, LanListed, BranchListed, Done, InSample, Reading
<1>7. CASE ~opt.walk
  <2>1. Hubs = HubRoms(list) /\ DOMAIN Hubs = DOMAIN list.couplers
    BY <1>7 DEF Hubs, HubRoms
  <2>2. \A i \in DOMAIN list.couplers : Hubs[i] = list.couplers[i].rom
    BY <1>7 DEF Hubs
  <2>3. Complete
    BY <1>3, <1>5, <1>7, <2>1, <2>2 DEF BranchLists, Complete
  <2>4. Complete'
    BY <1>2, <2>3, PlaceFrame DEF Complete, HubRoms
  <2>5. pc' \in {"write", "round"} /\ (pc' = "round" => Flat(list') = <<>>)
    BY <1>1, <1>2, <1>7
  <2>6. Done'
    BY <1>2, <1>7, <2>4, <2>5 DEF Done, InSample, Reading
  <2> QED
    BY <2>5, <2>6 DEF ListOK, Starting, Swept, LanListed, BranchListed, InSample, Reading
<1> QED
  BY <1>6, <1>7

-----------------------------------------------------------------------------
(* The rc file, written and read again.                                     *)

Marked(f, X) == Picked(f, {k \in DOMAIN f : f[k] \in X})

LEMMA MarkedLast ==
  ASSUME NEW T, NEW f \in Seq(T), NEW x \in T, NEW X
  PROVE  Marked(Append(f, x), X) = IF x \in X THEN Append(Marked(f, X), x) ELSE Marked(f, X)
<1>1. PICK g : g = Append(f, x)
  OBVIOUS
<1>2. PICK V, W : V = {k \in DOMAIN g : g[k] \in X} /\ W = {k \in DOMAIN f : f[k] \in X}
  OBVIOUS
<1>3. PICK n : n = Len(f)
  OBVIOUS
<1>4. /\ n \in Nat /\ DOMAIN f = 1..n /\ DOMAIN g = 1..n + 1 /\ g[n + 1] = x
      /\ \A k \in 1..n : g[k] = f[k]
  BY <1>1, <1>3
<1>5. \A k \in 1..n : k \in V <=> k \in W
  <2>1. \A k \in 1..n : k \in 1..n + 1
    BY <1>4
  <2> QED
    BY <1>2, <1>4, <2>1
<1>6. n + 1 \in V <=> x \in X
  <2>1. n + 1 \in 1..n + 1
    BY <1>4
  <2> QED
    BY <1>2, <1>4, <2>1
<1>7. Picked(g, V) = IF n + 1 \in V THEN Append(Picked(f, W), x) ELSE Picked(f, W)
  BY <1>1, <1>3, <1>5, PickedLast
<1> QED
  BY <1>1, <1>2, <1>6, <1>7 DEF Marked

LEMMA MarkedConcat ==
  ASSUME NEW T, NEW f \in Seq(T), NEW g \in Seq(T), NEW X
  PROVE  /\ (\A k \in 1..Len(g) : g[k] \in X) => Marked(f \o g, X) = Marked(f, X) \o g
         /\ (\A k \in 1..Len(g) : g[k] \notin X) => Marked(f \o g, X) = Marked(f, X)
<1> DEFINE Part(m) == SubSeq(g, 1, m)
           Same(m) ==
             /\ (\A k \in 1..Len(g) : g[k] \in X) => Marked(f \o Part(m), X) = Marked(f, X) \o Part(m)
             /\ (\A k \in 1..Len(g) : g[k] \notin X) => Marked(f \o Part(m), X) = Marked(f, X)
           S == {m \in Nat : m <= Len(g) => Same(m)}
<1>1. PICK M : M = Marked(f, X)
  OBVIOUS
<1>2. M \in Seq(T)
  BY <1>1, PickedTyped DEF Marked
<1>3. 0 \in S
  <2>1. Part(0) = <<>>
    OBVIOUS
  <2>2. f \o <<>> = f /\ M \o <<>> = M
    BY <1>2
  <2> QED
    BY <1>1, <2>1, <2>2
<1>4. ASSUME NEW m \in Nat, m \in S PROVE m + 1 \in S
  <2>1. SUFFICES ASSUME m + 1 <= Len(g) PROVE Same(m + 1)
    OBVIOUS
  <2>2. PICK a, x, b : a = Part(m) /\ x = g[m + 1] /\ b = Part(m + 1)
    OBVIOUS
  <2>3. m + 1 \in 1..Len(g) /\ m <= Len(g)
    BY <2>1
  <2>4. a \in Seq(T) /\ x \in T /\ b = Append(a, x)
    BY <2>2, <2>3
  <2>5. f \o b = Append(f \o a, x) /\ f \o a \in Seq(T) /\ M \o b = Append(M \o a, x)
    BY <1>2, <2>4
  <2>6. Marked(Append(f \o a, x), X) = IF x \in X THEN Append(Marked(f \o a, X), x) ELSE Marked(f \o a, X)
    BY <2>4, <2>5, MarkedLast
  <2>7. /\ (\A k \in 1..Len(g) : g[k] \in X) => Marked(f \o a, X) = M \o a
        /\ (\A k \in 1..Len(g) : g[k] \notin X) => Marked(f \o a, X) = M
    BY <1>1, <1>4, <2>2, <2>3
  <2>8. /\ (\A k \in 1..Len(g) : g[k] \in X) => Marked(f \o b, X) = M \o b
        /\ (\A k \in 1..Len(g) : g[k] \notin X) => Marked(f \o b, X) = M
    BY <2>2, <2>3, <2>5, <2>6, <2>7
  <2> QED
    BY <1>1, <2>2, <2>8
<1> HIDE DEF S
<1>5. \A m \in Nat : m \in S
  BY <1>3, <1>4, Induction
<1>6. Len(g) \in Nat /\ Part(Len(g)) = g
  OBVIOUS
<1>7. Same(Len(g))
  BY <1>5, <1>6 DEF S
<1> QED
  BY <1>6, <1>7

LEMMA MarkedAll ==
  ASSUME NEW T, NEW f \in Seq(T), NEW g \in Seq(T), NEW X, \A k \in 1..Len(g) : g[k] \in X
  PROVE  Marked(f \o g, X) = Marked(f, X) \o g
BY MarkedConcat

LEMMA MarkedNone ==
  ASSUME NEW T, NEW f \in Seq(T), NEW g \in Seq(T), NEW X, \A k \in 1..Len(g) : g[k] \notin X
  PROVE  Marked(f \o g, X) = Marked(f, X)
BY MarkedConcat

LEMMA LinesAt ==
  ASSUME NEW i, NEW way, NEW s \in Seq(Roms), NEW k \in 1..Len(s), NEW e, e = CromLines(i, way, s)[k]
  PROVE  e.at = i /\ e.line = way
BY DEF CromLines

LEMMA ReadBack ==
  ASSUME NEW l \in Lists, NEW j \in DOMAIN l.couplers, NEW way \in {"main", "aux"},
         NEW X, X = {e \in Crom : e.at = j /\ e.line = way},
         NEW s, s = (IF way = "main" THEN l.couplers[j].main ELSE l.couplers[j].aux)
  PROVE  Marked(write_rcfile(l).croms, X) = CromLines(j, way, s)
<1>1. PICK cs : cs = l.couplers
  OBVIOUS
<1>2. PICK L : L = [i \in DOMAIN cs |-> CouplerLines(i, cs[i])]
  OBVIOUS
<1>3. L \in Seq(Seq(Crom)) /\ write_rcfile(l).croms = FlattenSeq(L)
  BY <1>1, <1>2, WrittenIs
<1>4. cs \in Seq(Coupler) /\ (\A i \in DOMAIN cs : cs[i] \in Coupler) /\ DOMAIN cs = 1..Len(cs)
  BY <1>1 DEF Lists
<1>5. PICK N : N = Len(cs)
  OBVIOUS
<1>6. N \in Nat /\ DOMAIN cs = 1..N /\ Len(L) = N /\ j \in 1..N
  BY <1>1, <1>2, <1>3, <1>4, <1>5
<1>7. PICK R : R = CromLines(j, way, s)
  OBVIOUS
<1> DEFINE S == {n \in Nat : n <= N => Marked(UpTo(L, n), X) = IF j <= n THEN R ELSE <<>>}
<1>8. 0 \in S
  <2>1. UpTo(L, 0) = <<>>
    BY <1>3, UpToStep
  <2>2. Marked(<<>>, X) = <<>>
    BY PickedEmpty DEF Marked
  <2> QED
    BY <1>6, <2>1, <2>2
<1>9. ASSUME NEW n \in Nat, n \in S PROVE n + 1 \in S
  <2>1. SUFFICES ASSUME n + 1 <= N PROVE Marked(UpTo(L, n + 1), X) = IF j <= n + 1 THEN R ELSE <<>>
    OBVIOUS
  <2>2. PICK i : i = n + 1
    OBVIOUS
  <2>3. i \in 1..N /\ i - 1 = n /\ n \in 0..N /\ n <= N
    BY <1>6, <2>1, <2>2
  <2>4. cs[i] \in Coupler /\ cs[i].main \in Seq(Roms) /\ cs[i].aux \in Seq(Roms) /\ i \in Nat
    <3>1. cs[i] \in Coupler /\ i \in Nat
      BY <1>4, <1>6, <2>3
    <3> QED
      BY <3>1 DEF Coupler
  <2>5. PICK u, m, a : u = UpTo(L, n) /\ m = CromLines(i, "main", cs[i].main) /\ a = CromLines(i, "aux", cs[i].aux)
    OBVIOUS
  <2>6. /\ u \in Seq(Crom) /\ m \in Seq(Crom) /\ a \in Seq(Crom)
        /\ Len(m) = Len(cs[i].main) /\ Len(a) = Len(cs[i].aux)
        /\ \A k \in 1..Len(m) : m[k] = [line |-> "main", at |-> i, rom |-> cs[i].main[k]]
        /\ \A k \in 1..Len(a) : a[k] = [line |-> "aux", at |-> i, rom |-> cs[i].aux[k]]
    <3>1. u \in Seq(Crom)
      BY <1>3, <1>6, <2>3, <2>5, UpToTyped
    <3>2. /\ m \in Seq(Crom) /\ Len(m) = Len(cs[i].main)
          /\ \A k \in 1..Len(cs[i].main) : m[k] = [line |-> "main", at |-> i, rom |-> cs[i].main[k]]
      BY <2>4, <2>5, LinesTyped
    <3>3. /\ a \in Seq(Crom) /\ Len(a) = Len(cs[i].aux)
          /\ \A k \in 1..Len(cs[i].aux) : a[k] = [line |-> "aux", at |-> i, rom |-> cs[i].aux[k]]
      BY <2>4, <2>5, LinesTyped
    <3> QED
      BY <3>1, <3>2, <3>3
  <2>7. UpTo(L, i) = (u \o m) \o a /\ u \o m \in Seq(Crom)
    <3>1. UpTo(L, i) = u \o L[i]
      BY <1>3, <1>6, <2>3, <2>5, UpToStep
    <3>2. L[i] = m \o a
      BY <1>2, <1>6, <2>3, <2>5 DEF CouplerLines
    <3>3. u \o (m \o a) = (u \o m) \o a
      BY <2>6
    <3> QED
      BY <2>6, <3>1, <3>2, <3>3
  <2>8. \A k \in 1..Len(m) : m[k] \in Crom /\ m[k].at = i /\ m[k].line = "main"
    <3>1. \A k \in 1..Len(m) : m[k] \in Crom
      BY <2>6
    <3>2. ASSUME NEW k \in 1..Len(m) PROVE m[k].at = i /\ m[k].line = "main"
      <4>1. PICK e : e = m[k]
        OBVIOUS
      <4>2. k \in 1..Len(cs[i].main) /\ e = CromLines(i, "main", cs[i].main)[k]
        BY <2>5, <2>6, <4>1
      <4> QED
        BY <2>4, <4>1, <4>2, LinesAt
    <3> QED
      BY <3>1, <3>2
  <2>9. \A k \in 1..Len(a) : a[k] \in Crom /\ a[k].at = i /\ a[k].line = "aux"
    <3>1. \A k \in 1..Len(a) : a[k] \in Crom
      BY <2>6
    <3>2. ASSUME NEW k \in 1..Len(a) PROVE a[k].at = i /\ a[k].line = "aux"
      <4>1. PICK e : e = a[k]
        OBVIOUS
      <4>2. k \in 1..Len(cs[i].aux) /\ e = CromLines(i, "aux", cs[i].aux)[k]
        BY <2>5, <2>6, <4>1
      <4> QED
        BY <2>4, <4>1, <4>2, LinesAt
    <3> QED
      BY <3>1, <3>2
  <2>15. PICK um : um = u \o m
    OBVIOUS
  <2>17. u \in Seq(Crom) /\ m \in Seq(Crom)
    BY <2>6
  <2>16. um \in Seq(Crom) /\ a \in Seq(Crom)
    BY <2>6, <2>7, <2>15
  <2>10. Marked(u, X) = IF j <= n THEN R ELSE <<>>
    BY <1>9, <2>3, <2>5
  <2>11. \A f \in Seq(Crom) : f \o <<>> = f /\ <<>> \o f = f
    OBVIOUS
  <2>12. CASE i # j
    <3>1. (\A k \in 1..Len(m) : m[k] \notin X) /\ (\A k \in 1..Len(a) : a[k] \notin X)
      BY <2>8, <2>9, <2>12
    <3>5. Marked(u \o m, X) = Marked(u, X)
      BY <2>6, <3>1, MarkedNone
    <3>6. Marked(um \o a, X) = Marked(um, X)
      BY <2>16, <3>1, MarkedNone
    <3>2. Marked(u \o m, X) = Marked(u, X) /\ Marked((u \o m) \o a, X) = Marked(u \o m, X)
      BY <2>15, <3>5, <3>6
    <3>3. j <= n + 1 <=> j <= n
      BY <1>6, <2>2, <2>12
    <3> QED
      BY <2>2, <2>7, <2>10, <3>2, <3>3
  <2>13. CASE i = j /\ way = "main"
    <3>1. (\A k \in 1..Len(m) : m[k] \in X) /\ (\A k \in 1..Len(a) : a[k] \notin X)
      BY <2>8, <2>9, <2>13
    <3>7. \A k \in 1..Len(m) : m[k] \in X
      BY <3>1
    <3>5. Marked(u \o m, X) = Marked(u, X) \o m
      BY <2>17, <3>7, MarkedAll
    <3>6. Marked(um \o a, X) = Marked(um, X)
      BY <2>16, <3>1, MarkedNone
    <3>2. Marked(u \o m, X) = Marked(u, X) \o m /\ Marked((u \o m) \o a, X) = Marked(u \o m, X)
      BY <2>15, <3>5, <3>6
    <3>3. ~(j <= n) /\ j <= n + 1
      BY <1>6, <2>2, <2>13
    <3>4. m = R
      BY <1>1, <1>7, <2>5, <2>13
    <3> QED
      BY <2>2, <2>6, <2>7, <2>10, <2>11, <3>2, <3>3, <3>4
  <2>14. CASE i = j /\ way = "aux"
    <3>1. (\A k \in 1..Len(m) : m[k] \notin X) /\ (\A k \in 1..Len(a) : a[k] \in X)
      BY <2>8, <2>9, <2>14
    <3>5. Marked(u \o m, X) = Marked(u, X)
      BY <2>6, <3>1, MarkedNone
    <3>6. Marked(um \o a, X) = Marked(um, X) \o a
      BY <2>16, <3>1, MarkedAll
    <3>2. Marked(u \o m, X) = Marked(u, X) /\ Marked((u \o m) \o a, X) = Marked(u \o m, X) \o a
      BY <2>15, <3>5, <3>6
    <3>3. ~(j <= n) /\ j <= n + 1
      BY <1>6, <2>2, <2>14
    <3>4. a = R
      BY <1>1, <1>7, <2>5, <2>14
    <3> QED
      BY <2>2, <2>6, <2>7, <2>10, <2>11, <3>2, <3>3, <3>4
  <2> QED
    BY <2>12, <2>13, <2>14
<1> HIDE DEF S
<1>10. \A n \in Nat : n \in S
  BY <1>8, <1>9, Induction
<1>11. Marked(UpTo(L, N), X) = R
  BY <1>6, <1>10 DEF S
<1> QED
  BY <1>3, <1>6, <1>7, <1>11, UpToStep

\* What has been written is what is read again.
LEMMA RoundTrip == ASSUME NEW l \in Lists PROVE read_rcfile(write_rcfile(l)) = l
<1>1. PICK f : f = write_rcfile(l)
  OBVIOUS
<1>2. /\ f \in Rcfile /\ f.roms = l.direct
      /\ f.couplers = [i \in DOMAIN l.couplers |-> l.couplers[i].rom]
  <2>1. PICK K : K = FlattenSeq([i \in DOMAIN l.couplers |-> CouplerLines(i, l.couplers[i])])
    OBVIOUS
  <2>2. PICK R : R = [i \in DOMAIN l.couplers |-> l.couplers[i].rom]
    OBVIOUS
  <2>3. f \in Rcfile /\ f = [roms |-> l.direct, couplers |-> R, croms |-> K]
    BY <1>1, <2>1, <2>2, WrittenIs
  <2> QED
    BY <2>2, <2>3
<1>3. l.couplers \in Seq(Coupler) /\ l = [couplers |-> l.couplers, direct |-> l.direct]
  BY DEF Lists
<1> DEFINE P(i, way) == Picked(f.croms, {k \in DOMAIN f.croms : f.croms[k].at = i /\ f.croms[k].line = way})
           q(i, way) == [k \in DOMAIN P(i, way) |-> P(i, way)[k].rom]
           c == [i \in DOMAIN f.couplers |->
                  [rom |-> f.couplers[i], main |-> q(i, "main"), aux |-> q(i, "aux")]]
<1>4. ASSUME NEW j \in DOMAIN l.couplers, NEW way \in {"main", "aux"}
      PROVE  q(j, way) = IF way = "main" THEN l.couplers[j].main ELSE l.couplers[j].aux
  <2>1. PICK s : s = IF way = "main" THEN l.couplers[j].main ELSE l.couplers[j].aux
    OBVIOUS
  <2>2. PICK X : X = {e \in Crom : e.at = j /\ e.line = way}
    OBVIOUS
  <2>3. Marked(f.croms, X) = CromLines(j, way, s)
    BY <1>1, <2>1, <2>2, ReadBack
  <2>4. {k \in DOMAIN f.croms : f.croms[k].at = j /\ f.croms[k].line = way}
          = {k \in DOMAIN f.croms : f.croms[k] \in X}
    <3>1. f.croms \in Seq(Crom)
      BY <1>2 DEF Rcfile
    <3>2. \A k \in DOMAIN f.croms : f.croms[k] \in Crom
      BY <3>1
    <3> QED
      BY <2>2, <3>2
  <2>5. P(j, way) = CromLines(j, way, s)
    BY <2>3, <2>4 DEF Marked
  <2>6. s \in Seq(Roms)
    <3>1. l.couplers[j] \in Coupler
      BY <1>3
    <3> QED
      BY <2>1, <3>1 DEF Coupler
  <2>7. q(j, way) = [k \in DOMAIN s |-> s[k]]
    BY <2>5 DEF CromLines
  <2> QED
    BY <2>1, <2>6, <2>7
<1>5. read_rcfile(f) = [couplers |-> c, direct |-> f.roms]
  BY DEF read_rcfile
<1>6. c = l.couplers
  <2> HIDE DEF q
  <2>1. \A i \in DOMAIN l.couplers : l.couplers[i] \in Coupler
    BY <1>3
  <2>2. \A i \in DOMAIN l.couplers :
           [rom |-> l.couplers[i].rom, main |-> q(i, "main"), aux |-> q(i, "aux")] = l.couplers[i]
    BY <1>4, <2>1 DEF Coupler
  <2>3. c = [i \in DOMAIN l.couplers |-> l.couplers[i]]
    BY <1>2, <2>2
  <2>4. \A s \in Seq(Coupler) : s = [i \in DOMAIN s |-> s[i]]
    OBVIOUS
  <2> QED
    BY <1>3, <2>3, <2>4
<1> QED
  BY <1>1, <1>2, <1>3, <1>5, <1>6

LEMMA ListFile == ASSUME Placed, ListOK, OpenFile \/ CloseFile, ~bad' PROVE ListOK'
<1>1. /\ pc \in {"write", "close"} /\ UNCHANGED <<net, lists, search, serial, walk, sample, reading>>
      /\ (pc' = "close") \/ (pc = "close" /\ pc' = "round" /\ file' = write_rcfile(list))
  BY DEF OpenFile, CloseFile, Goto, Fails
<1>2. UNCHANGED <<place, list, opt>>
  BY <1>1 DEF net, lists
<1>3. ~opt.walk /\ (opt.init => Complete)
  BY <1>1 DEF ListOK, Done
<1>4. opt'.init => Complete'
  BY <1>2, <1>3, PlaceFrame DEF Complete, HubRoms
<1>5. pc' = "round" => read_rcfile(file') = list'
  BY <1>1, <1>2, RoundTrip DEF Placed, DiskOK
<1>6. pc' \in {"close", "round"}
  BY <1>1
<1>7. Done'
  BY <1>2, <1>3, <1>4, <1>5, <1>6 DEF Done, InSample, Reading
<1> QED
  BY <1>6, <1>7 DEF ListOK, Starting, Swept, LanListed, BranchListed, InSample, Reading

\* Sampling leaves the list, the file and the net alone.
SampleStep ==
  /\ pc \in InSample /\ pc' \in InSample \cup {"leave"}
  /\ UNCHANGED <<place, file, opt, list, shown>>

LEMMA SampleSteps == ASSUME Placed, Sampling PROVE SampleStep
<1>1. CASE NewRound \/ RowDone \/ NextSample
  BY <1>1 DEF NewRound, RowDone, NextSample, Goto, SampleStep, InSample, Reading, net, disk, lists, walk
<1>2. CASE Select
  <2>1. pc = "select" /\ UNCHANGED <<disk, lists, search, walk, round, row>>
    BY <1>2 DEF Select
  <2>2. UNCHANGED place
    BY <1>2 DEF Select, Switched, NotSwitched, net
  <2>3. pc' \in InSample
    <3>1. \A r : Read(r) => pc' \in InSample
      BY DEF Read, FirstStep, NextSensor, Goto, InSample, Reading
    <3>2. NextSensor => pc' \in InSample
      BY DEF NextSensor, Goto, InSample
    <3> QED
      BY <1>2, <3>1, <3>2 DEF Select
  <2> QED
    BY <2>1, <2>2, <2>3 DEF SampleStep, InSample, disk, lists, walk
<1>3. CASE Convert \/ Scratch \/ ReadLogger \/ Count \/ Pio \/ Volts \/ Temperature
  <2>1. ReadStep
    BY <1>3, ConvertStep, ScratchStep, LoggerStep, CountStep, PioStep, VoltsStep, TemperatureStep
  <2>2. pc' \in InSample
    BY <2>1, ReadsAre DEF ReadStep, NextSensor, Goto, Stays, InSample
  <2> QED
    BY <2>1, <2>2 DEF ReadStep, ReadingFrame, SampleStep, InSample, disk, lists, walk
<1> QED
  BY <1>1, <1>2, <1>3 DEF Sampling

LEMMA ListSample == ASSUME ListOK, SampleStep PROVE ListOK'
<1>1. pc \in InSample /\ pc' \in InSample \cup {"leave"} /\ UNCHANGED <<place, file, opt, list, shown>>
  BY DEF SampleStep
<1>2. /\ ~opt.walk /\ (opt.init => Complete)
      /\ opt.init /\ Flat(list) # <<>> => read_rcfile(file) = list
  BY <1>1 DEF ListOK, Done
<1>3. opt'.init => Complete'
  BY <1>1, <1>2, PlaceFrame DEF Complete, HubRoms
<1>4. Done'
  BY <1>1, <1>2, <1>3 DEF Done
<1> QED
  BY <1>1, <1>4 DEF ListOK, Starting, Swept, LanListed, BranchListed, InSample, Reading

LEMMA ListStutter == ASSUME ListOK, UNCHANGED vars PROVE ListOK'
<1>1. UNCHANGED <<place, branch, file, opt, list, pc, search, serial, walked, shown, ci, line>>
  BY DEF vars, net, disk, lists, walk
<1>2. Hubs' = Hubs /\ Visible' = Visible /\ OnLan' = OnLan /\ OnHubs' = OnHubs /\ ShouldShow' = ShouldShow
      /\ \A c, l : Behind(c, l)' = Behind(c, l)
  BY <1>1, PlaceFrame DEF Hubs, Visible
<1>3. Starting' /\ Swept' /\ LanListed'
  BY <1>1, <1>2 DEF ListOK, Starting, Swept, LanListed, AllOff, LanLists, Once
<1>4. Done'
  BY <1>1, <1>2 DEF ListOK, Done, Complete, HubRoms, Once
<1>5. BranchLists' = BranchLists
  <2>1. \A i, l : FoundOn(i, l)' = FoundOn(i, l)
    BY <1>1, <1>2 DEF FoundOn
  <2>2. BranchEntry' = BranchEntry /\ LanEntry(OnLan)' = LanEntry(OnLan)
    BY <1>2, <2>1 DEF BranchEntry, LanEntry
  <2> QED
    BY <1>1, <1>2, <2>1, <2>2 DEF BranchLists
<1>6. BranchListed'
  BY <1>1, <1>2, <1>5 DEF ListOK, BranchListed
<1> QED
  BY <1>3, <1>4, <1>6 DEF ListOK

\* Only with a new process it is forgotten that a request has failed.
LEMMA BadStays ==
  ASSUME Placed, Acquire \/ TurnOff \/ InitLan \/ Sampling \/ Brownout \/ UNCHANGED vars, ~bad'
  PROVE  ~bad
<1>1. (Fine \/ Fails) => ~bad
  BY DEF Fine, Fails, fault
<1>2. UNCHANGED bad => ~bad
  OBVIOUS
<1>3. CASE Acquire \/ Brownout \/ UNCHANGED vars
  BY <1>1, <1>2, <1>3 DEF Acquire, Brownout, vars, fault
<1>4. \A c, to : Switched(c, to) \/ NotSwitched(c, to) => Fine \/ Fails
  BY DEF Switched, NotSwitched
<1>5. \A D : Finds(D) \/ FindsNone(D) => Fine \/ Fails
  BY DEF Finds, FindsNone
<1>6. CASE TurnOff
  BY <1>1, <1>4, <1>6 DEF TurnOff
<1>7. CASE InitLan
  <2>1. CASE Forgotten \/ BranchesDone \/ CloseFile \/ OpenFile
    BY <1>1, <1>2, <2>1 DEF Forgotten, BranchesDone, CloseFile, OpenFile, fault
  <2>2. CASE Sweep \/ ListLan
    BY <1>1, <1>5, <2>2 DEF Sweep, ListLan
  <2>3. CASE CouplerOff("sweepOff", "sweep") \/ CouplerOff("listOff", "list") \/ ConnectBranch
    BY <1>1, <1>4, <2>3 DEF CouplerOff, ConnectBranch
  <2>4. CASE SearchBranch
    BY <1>1, <1>5, <2>4 DEF SearchBranch
  <2> QED
    BY <1>7, <2>1, <2>2, <2>3, <2>4 DEF InitLan
<1>8. CASE Sampling
  <2>1. CASE NewRound \/ RowDone \/ NextSample
    BY <1>2, <2>1 DEF NewRound, RowDone, NextSample, fault
  <2>2. CASE Select
    BY <1>1, <1>2, <1>4, <2>2 DEF Select, fault
  <2>3. CASE Convert \/ Scratch \/ ReadLogger \/ Count \/ Pio \/ Volts \/ Temperature
    BY <1>1, <2>3, ConvertStep, ScratchStep, LoggerStep, CountStep, PioStep, VoltsStep, TemperatureStep
       DEF ReadStep
  <2> QED
    BY <1>8, <2>1, <2>2, <2>3 DEF Sampling
<1> QED
  BY <1>3, <1>6, <1>7, <1>8

ListInv == bad \/ ListOK

LEMMA ListInit == Init => ListInv
BY DEF Init, ListInv, ListOK, Starting, Swept, LanListed, BranchListed, Done, InSample, Reading

LEMMA ListStep == Placed /\ ListInv /\ [Next]_vars => ListInv'
<1> SUFFICES ASSUME Placed, ListInv, [Next]_vars, ~bad' PROVE ListOK'
  BY DEF ListInv
<1>1. CASE (\E o \in Options : Begin(o)) \/ Kill \/ NoAdapter \/ Exit
  BY <1>1, ListProcess
<1>2. CASE Acquire \/ TurnOff \/ InitLan \/ Sampling \/ Brownout \/ UNCHANGED vars
  <2>1. ~bad /\ ListOK
    BY <1>2, BadStays DEF ListInv
  <2>2. CASE Acquire \/ TurnOff \/ Forgotten
    BY <2>1, <2>2, ListStart
  <2>3. CASE Sweep
    BY <2>1, <2>3, ListSweep
  <2>4. CASE CouplerOff("sweepOff", "sweep")
    BY <2>1, <2>4, ListSweepOff
  <2>5. CASE CouplerOff("listOff", "list")
    BY <2>1, <2>5, ListOff
  <2>6. CASE ListLan
    BY <2>1, <2>6, ListOnLan
  <2>7. CASE ConnectBranch
    BY <2>1, <2>7, ListConnect
  <2>8. CASE SearchBranch
    BY <2>1, <2>8, ListSearch
  <2>9. CASE BranchesDone
    BY <2>1, <2>9, ListBranches
  <2>10. CASE OpenFile \/ CloseFile
    BY <2>1, <2>10, ListFile
  <2>11. CASE Sampling
    BY <2>1, <2>11, SampleSteps, ListSample
  <2>12. CASE Brownout
    BY <2>12 DEF Brownout
  <2>13. CASE UNCHANGED vars
    BY <2>1, <2>13, ListStutter
  <2> QED
    BY <1>2, <2>2, <2>3, <2>4, <2>5, <2>6, <2>7, <2>8, <2>9, <2>10, <2>11, <2>12, <2>13 DEF InitLan
<1> QED
  BY <1>1, <1>2 DEF Next, Process

LEMMA OnceCounts ==
  ASSUME NEW X, NEW s \in Seq(X), NEW S, Once(s, S)
  PROVE  Range(s) = S /\ Len(s) = Cardinality(S)
<1>1. Range(s) = S /\ \A i, j \in DOMAIN s : s[i] = s[j] => i = j
  BY DEF Once
<1>2. PICK n : n = Len(s)
  OBVIOUS
<1>3. n \in Nat /\ DOMAIN s = 1..n
  BY <1>2
<1>4. s \in Bijection(1..n, S)
  <2>1. s \in [1..n -> S]
    BY <1>1, <1>3 DEF Range
  <2>2. \A y \in S : \E i \in 1..n : s[i] = y
    BY <1>1, <1>3 DEF Range
  <2> QED
    BY <1>1, <1>3, <2>1, <2>2 DEF Bijection, Injection, Surjection, IsInjective
<1>5. ExistsBijection(1..n, S)
  BY <1>4 DEF ExistsBijection
<1>6. IsFiniteSet(1..n) /\ Cardinality(1..n) = n
  BY <1>3, FS_Interval
<1>7. Cardinality(S) = Cardinality(1..n)
  BY <1>5, <1>6, FS_Bijection
<1> QED
  BY <1>1, <1>2, <1>6, <1>7

LEMMA ListHolds == Placed /\ ListInv => ListIsTrue
<1> SUFFICES ASSUME Placed, ListInv PROVE ListIsTrue
  OBVIOUS
<1>1. ASSUME pc = "round", opt.init, ~bad
      PROVE  /\ InOrder(list.direct, OnLan \cap Supported)
             /\ InOrder([i \in DOMAIN list.couplers |-> list.couplers[i].rom], OnLan \cap Couplers)
             /\ \A i \in DOMAIN list.couplers :
                  LET c == list.couplers[i]
                  IN /\ InOrder(c.main, Behind(c.rom, "main") \cap Supported)
                     /\ InOrder(c.aux, Behind(c.rom, "aux") \cap Supported)
             /\ Flat(list) # <<>> => read_rcfile(file) = list
  BY <1>1 DEF ListInv, ListOK, Done, Complete, HubRoms, OnHubs, InSample
<1>2. ASSUME pc = "leave", opt.walk, ~bad
      PROVE  Range(shown) = ShouldShow /\ Len(shown) = Cardinality(ShouldShow)
  <2>1. Once(shown, ShouldShow)
    BY <1>2 DEF ListInv, ListOK, Done
  <2>2. shown \in Seq(Shown)
    BY DEF Placed, WalkOK
  <2> QED
    BY <2>1, <2>2, OnceCounts
<1> QED
  BY <1>1, <1>2 DEF ListIsTrue

\* However earlier processes have left the couplers: unless a request fails, the list that
\* -i makes and writes, and that read_rcfile makes of the file again, has each supported
\* device once, in the order of the search, at the place where it is; and -w shows each
\* device once at its place.
THEOREM Digitemp_ListIsTrue == Spec => []ListIsTrue
<1>1. Spec => []ListInv
  BY Digitemp_Placed, ListInit, ListStep, PTL DEF Spec
<1> QED
  BY <1>1, Digitemp_Placed, ListHolds, PTL

-----------------------------------------------------------------------------
(* What is logged under a number.                                           *)

InList(n) == n < Len(Flat(list))
Named(n) == Flat(list)[n + 1]

RowTrue(e) ==
  InList(e.n) /\ e.rom # Zero =>
    /\ e.rom = Named(e.n).rom
    /\ Kind[e.rom] \in {"DS1820", "DS28EA00", "DS2413", "DS2423"} => e.what = "fresh"

\* What is read is the sensor with the number, and a conversion that has been started
\* without it is not read from it.
NameInv ==
  /\ \A i \in DOMAIN row : RowTrue(row[i])
  /\ pc \in Reading /\ InList(Wanted[next]) => serial = Named(Wanted[next]).rom
  /\ pc = "scratch" => got = <<"fresh">> \/ ~Here

LEMMA ListFrame ==
  ASSUME UNCHANGED <<list, opt>>
  PROVE  /\ Wanted' = Wanted /\ Flat(list)' = Flat(list)
         /\ \A n : Chosen(n)' = Chosen(n) /\ (InList(n)' <=> InList(n)) /\ Named(n)' = Named(n)
         /\ \A e : RowTrue(e)' <=> RowTrue(e)
<1>1. Flat(list)' = Flat(list)
  OBVIOUS
<1>2. Wanted' = Wanted
  BY DEF Wanted
<1>3. \A n : Chosen(n)' = Chosen(n)
  BY DEF Chosen, Before0
<1>4. \A n : (InList(n)' <=> InList(n)) /\ Named(n)' = Named(n)
  BY <1>1 DEF InList, Named
<1>5. \A e : RowTrue(e)' <=> RowTrue(e)
  BY <1>4 DEF RowTrue
<1> QED
  BY <1>1, <1>2, <1>3, <1>4, <1>5

LEMMA EmptyRow == ASSUME row' = <<>> PROVE \A i \in DOMAIN row' : RowTrue(row[i])'
BY DEF RowTrue

\* Whatever does not sample leaves the row alone, or empties it.
LEMMA NamesOutside ==
  ASSUME Placed, NameInv, pc' \notin Reading,
         row' = <<>> \/ UNCHANGED <<list, opt, row>>
  PROVE  NameInv'
<1>1. \A i \in DOMAIN row' : RowTrue(row[i])'
  <2>1. CASE row' = <<>>
    BY <2>1, EmptyRow
  <2>2. CASE UNCHANGED <<list, opt, row>>
    <3>1. \A e : RowTrue(e)' <=> RowTrue(e)
      BY <2>2, ListFrame
    <3>2. \A i \in DOMAIN row' : RowTrue(row[i])
      BY <2>2 DEF NameInv
    <3>3. PICK f : f = row
      OBVIOUS
    <3>4. row' = f /\ \A i \in DOMAIN f : RowTrue(f[i])
      BY <2>2, <3>2, <3>3
    <3>5. \A i \in DOMAIN f : RowTrue(f[i])'
      BY <2>2, <3>4, ListFrame
    <3> QED
      BY <3>4, <3>5 DEF RowTrue
  <2> QED
    BY <2>1, <2>2
<1>2. pc' # "scratch"
  BY DEF Reading
<1> QED
  BY <1>1, <1>2 DEF NameInv

-----------------------------------------------------------------------------
(* The steps that do not sample.                                            *)

Outside ==
  \/ \E o \in Options : Begin(o)
  \/ Kill \/ NoAdapter \/ Exit \/ Acquire \/ TurnOff \/ InitLan \/ Brownout \/ UNCHANGED vars

\* They lead to the first sample, before which nothing has been connected or logged, or
\* leave the samples as they are, or the power fails.
Goes ==
  \/ pc' \notin InSample
  \/ pc \notin InSample \cup {"leave"} /\ pc' = "round" /\ UNCHANGED <<row, Last2409>> /\ calm' \in {0, calm}
  \/ Brownout
  \/ UNCHANGED vars

CalmInv == pc \notin InSample \cup {"leave"} => calm = 0

LEMMA OutsideGoes ==
  ASSUME Placed, CalmInv, Outside
  PROVE  /\ Goes /\ CalmInv'
         /\ pc' \notin Reading \/ Brownout \/ UNCHANGED vars
         /\ row' = <<>> \/ UNCHANGED <<list, opt, row>>
<1>1. CASE (\E o \in Options : Begin(o)) \/ Kill \/ NoAdapter \/ Exit
  BY <1>1 DEF Begin, Kill, NoAdapter, Exit, Ended, Goto, ClearProcess, Goes, CalmInv, InSample, Reading
<1>2. CASE Brownout
  BY <1>2 DEF Brownout, Goes, CalmInv, lists, sample
<1>3. CASE UNCHANGED vars
  BY <1>3 DEF vars, Goes, CalmInv, lists, sample, fault
<1>4. (Fine \/ Fails) => calm' \in {0, calm}
  BY DEF Fine, Fails, fault
<1>5. CASE Acquire
  BY <1>4, <1>5 DEF Acquire, Goto, Goes, CalmInv, InSample, Reading, lists, sample
<1>6. \A c, to : Switched(c, to) \/ NotSwitched(c, to) => Fine \/ Fails
  BY DEF Switched, NotSwitched
<1>7. \A D : Finds(D) \/ FindsNone(D) => Fine \/ Fails
  BY DEF Finds, FindsNone
<1>8. CASE TurnOff
  <2>1. pc \in {"forget", "leave"} /\ pc' = pc /\ UNCHANGED <<list, opt, row>> /\ calm' \in {0, calm}
    BY <1>4, <1>6, <1>8 DEF TurnOff, lists, sample
  <2> QED
    BY <2>1 DEF Goes, CalmInv, InSample, Reading
<1>9. CASE InitLan
  <2>1. /\ pc \in {"forget", "sweep", "sweepOff", "listOff", "list", "branch", "branchNext", "write", "close"}
        /\ pc' \in {"sweep", "sweepOff", "listOff", "list", "branch", "branchNext", "write", "close", "round", "leave"}
        /\ UNCHANGED sample
    BY <1>9 DEF InitLan, Forgotten, Sweep, CouplerOff, ListLan, ConnectBranch, SearchBranch, BranchesDone,
                OpenFile, CloseFile, NextBranch, Goto
  <2>2. calm' \in {0, calm}
    <3>1. CASE Forgotten \/ BranchesDone \/ CloseFile \/ OpenFile
      BY <1>4, <3>1 DEF Forgotten, BranchesDone, CloseFile, OpenFile, fault
    <3>2. CASE Sweep \/ ListLan \/ SearchBranch
      BY <1>4, <1>7, <3>2 DEF Sweep, ListLan, SearchBranch
    <3>3. CASE CouplerOff("sweepOff", "sweep") \/ CouplerOff("listOff", "list") \/ ConnectBranch
      BY <1>4, <1>6, <3>3 DEF CouplerOff, ConnectBranch
    <3> QED
      BY <1>9, <3>1, <3>2, <3>3 DEF InitLan
  <2>3. row = <<>>
    BY <2>1 DEF Placed, Before1, InSample, Reading
  <2> QED
    BY <2>1, <2>2, <2>3 DEF Goes, CalmInv, InSample, Reading, sample
<1> QED
  BY <1>1, <1>2, <1>3, <1>5, <1>8, <1>9 DEF Outside

LEMMA NamesFrame ==
  ASSUME NameInv, UNCHANGED <<list, opt, row, pc, next, serial, got>>, Here' => Here
  PROVE  NameInv'
<1>1. Wanted' = Wanted /\ (\A n : (InList(n)' <=> InList(n)) /\ Named(n)' = Named(n))
      /\ \A e : RowTrue(e)' <=> RowTrue(e)
  BY ListFrame
<1>2. \A i \in DOMAIN row' : RowTrue(row[i])'
  <2>1. PICK f : f = row
    OBVIOUS
  <2>2. row' = f /\ \A i \in DOMAIN f : RowTrue(f[i])
    BY <2>1 DEF NameInv
  <2>3. \A i \in DOMAIN f : RowTrue(f[i])'
    BY <1>1, <2>2
  <2> QED
    BY <2>2, <2>3 DEF RowTrue
<1>3. pc' \in Reading /\ InList(Wanted[next])' => serial' = Named(Wanted[next])'.rom
  <2>1. PICK n : n = Wanted[next]
    OBVIOUS
  <2>2. Wanted'[next'] = n
    BY <1>1, <2>1
  <2>3. (InList(n)' <=> InList(n)) /\ Named(n)' = Named(n)
    BY <1>1
  <2>4. pc \in Reading /\ InList(n) => serial = Named(n).rom
    BY <2>1 DEF NameInv
  <2>5. pc' \in Reading /\ InList(n)' => serial' = Named(n)'.rom
    BY <2>3, <2>4
  <2> QED
    BY <2>2, <2>5 DEF InList, Named
<1>4. pc' = "scratch" => got' = <<"fresh">> \/ ~Here'
  BY DEF NameInv
<1> QED
  BY <1>2, <1>3, <1>4 DEF NameInv

LEMMA NamesOut == ASSUME Placed, CalmInv, NameInv, Outside PROVE NameInv'
<1>1. /\ pc' \notin Reading \/ Brownout \/ UNCHANGED vars
      /\ row' = <<>> \/ UNCHANGED <<list, opt, row>>
  BY OutsideGoes
<1>2. CASE Brownout
  <2>1. UNCHANGED <<list, opt, row, pc, next, serial, got, place>> /\ branch' = [c \in Couplers |-> "off"]
    BY <1>2 DEF Brownout, lists, sample, reading
  <2>2. Visible' \subseteq Visible
    <3>1. \A c, l : Behind(c, l)' = Behind(c, l)
      BY <2>1 DEF Behind, On
    <3> QED
      BY <2>1, <3>1 DEF Visible
  <2> QED
    BY <2>1, <2>2, NamesFrame DEF Here
<1>3. CASE UNCHANGED vars
  <2>1. UNCHANGED <<list, opt, row, pc, next, serial, got, place, branch>>
    BY <1>3 DEF vars, lists, sample, reading, net
  <2>2. Here' = Here
    BY <2>1 DEF Here, Visible, Behind, On
  <2> QED
    BY <2>1, <2>2, NamesFrame
<1> QED
  BY <1>1, <1>2, <1>3, NamesOutside

\* A row to which one true reading is added.
LEMMA RowGrows ==
  ASSUME NameInv, row \in Seq(Logged), NEW e, RowTrue(e), row' = Append(row, e), UNCHANGED <<list, opt>>
  PROVE  \A i \in DOMAIN row' : RowTrue(row[i])'
<1>1. PICK f, g : f = row /\ g = row'
  OBVIOUS
<1>2. f \in Seq(Logged) /\ g = Append(f, e) /\ \A i \in DOMAIN f : RowTrue(f[i])
  BY <1>1 DEF NameInv
<1>3. PICK m : m = Len(f)
  OBVIOUS
<1>4. /\ m \in Nat /\ DOMAIN f = 1..m /\ DOMAIN g = 1..m + 1
      /\ g[m + 1] = e /\ \A i \in 1..m : g[i] = f[i]
  BY <1>2, <1>3
<1>5. \A i \in 1..m + 1 : i \in 1..m \/ i = m + 1
  BY <1>4
<1>6. \A i \in DOMAIN g : RowTrue(g[i])
  BY <1>2, <1>4, <1>5
<1>7. \A i \in DOMAIN g : RowTrue(g[i])'
  BY <1>6, ListFrame
<1> QED
  BY <1>1, <1>7 DEF RowTrue

LogsTrue == row' = row \/ \E e : RowTrue(e) /\ row' = Append(row, e)

LEMMA LogTrue ==
  ASSUME NameInv, pc \in Reading, NEW r \in {serial, Zero}, NEW what, Log(r, what),
         Kind[serial] \in {"DS1820", "DS28EA00", "DS2413", "DS2423"} /\ r = serial => what = "fresh"
  PROVE  LogsTrue
<1>1. PICK e : e = [rom |-> r, n |-> Wanted[next], what |-> what]
  OBVIOUS
<1>2. row' = Append(row, e) /\ e.rom = r /\ e.n = Wanted[next] /\ e.what = what
  BY <1>1 DEF Log
<1>3. RowTrue(e)
  BY <1>2 DEF RowTrue, NameInv
<1> QED
  BY <1>2, <1>3 DEF LogsTrue

LEMMA ReadingLogs ==
  ASSUME Placed, NameInv, Convert \/ Scratch \/ ReadLogger \/ Count \/ Pio \/ Volts \/ Temperature
  PROVE  LogsTrue /\ (pc' = "scratch" => got' = <<"fresh">> \/ ~Here')
<1>1. CASE Convert
  <2>1. pc = "convert" /\ row' = row /\ UNCHANGED <<place, branch, serial>>
    BY <1>1 DEF Convert, net
  <2>2. Here' = Here
    BY <2>1 DEF Here, Visible, Behind, On
  <2>3. pc' = "scratch" => got' = <<IF Here THEN "fresh" ELSE "none">>
    BY <1>1 DEF Convert, Retry, NextSensor, Goto
  <2> QED
    BY <2>1, <2>2, <2>3 DEF LogsTrue
<1>2. CASE Scratch
  <2>1. pc = "scratch" /\ pc \in Reading /\ pc' # "scratch"
    BY <1>2 DEF Scratch, Retry, NextSensor, Goto, Reading
  <2>2. Here => got = <<"fresh">>
    BY <2>1 DEF NameInv
  <2>3. Here => got[1] = "fresh"
    BY <2>2
  <2>4. row' = row \/ (Here /\ Log(serial, got[1])) \/ Log(Zero, "none")
    BY <1>2 DEF Scratch
  <2>5. ASSUME Log(Zero, "none"), Zero = serial PROVE FALSE
    BY <2>1, <2>5, Codes DEF Placed, AtReading
  <2>6. LogsTrue
    BY <2>1, <2>3, <2>4, <2>5, LogTrue DEF LogsTrue
  <2> QED
    BY <2>1, <2>6
<1>3. CASE ReadLogger
  <2>1. pc = "logger" /\ pc \in Reading /\ pc' # "scratch"
    BY <1>3 DEF ReadLogger, Retry, NextSensor, Goto, Reading
  <2>2. row' = row \/ Log(serial, "fresh") \/ Log(Zero, "none")
    BY <1>3 DEF ReadLogger
  <2>3. Zero # serial
    BY <2>1, Codes DEF Placed, AtReading
  <2>4. LogsTrue
    BY <2>1, <2>2, <2>3, LogTrue DEF LogsTrue
  <2> QED
    BY <2>1, <2>4
<1>4. CASE Count \/ Pio
  <2>1. pc \in {"count", "pio"} /\ pc \in Reading /\ pc' # "scratch"
    BY <1>4 DEF Count, Pio, NextSensor, Goto, Reading
  <2>2. row' = row \/ Log(serial, "fresh")
    BY <1>4 DEF Count, Pio
  <2>3. LogsTrue
    BY <2>1, <2>2, LogTrue DEF LogsTrue
  <2> QED
    BY <2>1, <2>3
<1>5. CASE Volts \/ Temperature
  <2>1. pc \in {"volts", "temperature"} /\ pc \in Reading
    BY <1>5 DEF Volts, Temperature, Reading
  <2>2. pc' # "scratch" /\ (row' = row \/ \E what : Log(IF Here THEN serial ELSE Zero, what))
    BY <1>5 DEF Volts, Temperature, BatteryEnd, Retry, NextSensor, Goto
  <2>3. Kind[serial] = "DS2438"
    BY <2>1, KindRead DEF Batteries
  <2>4. LogsTrue
    BY <2>1, <2>2, <2>3, LogTrue DEF LogsTrue
  <2> QED
    BY <2>2, <2>4
<1> QED
  BY <1>1, <1>2, <1>3, <1>4, <1>5

LEMMA NamesRead ==
  ASSUME Placed, NameInv, Convert \/ Scratch \/ ReadLogger \/ Count \/ Pio \/ Volts \/ Temperature
  PROVE  NameInv'
<1>1. ReadStep
  BY ConvertStep, ScratchStep, LoggerStep, CountStep, PioStep, VoltsStep, TemperatureStep
<1>2. LogsTrue /\ (pc' = "scratch" => got' = <<"fresh">> \/ ~Here')
  BY ReadingLogs
<1>3. UNCHANGED <<list, opt, serial>> /\ pc \in Reading
  BY <1>1 DEF ReadStep, ReadingFrame, lists
<1>4. \A i \in DOMAIN row' : RowTrue(row[i])'
  <2>1. CASE row' = row
    <3>1. PICK f : f = row
      OBVIOUS
    <3>2. row' = f /\ \A i \in DOMAIN f : RowTrue(f[i])
      BY <2>1, <3>1 DEF NameInv
    <3>3. \A i \in DOMAIN f : RowTrue(f[i])'
      BY <1>3, <3>2, ListFrame
    <3> QED
      BY <3>2, <3>3 DEF RowTrue
  <2>2. ASSUME NEW e, RowTrue(e), row' = Append(row, e) PROVE <1>4!:
    <3>1. row \in Seq(Logged)
      BY DEF Placed, SampleOK
    <3> QED
      BY <1>3, <2>2, <3>1, RowGrows
  <2> QED
    BY <1>2, <2>1, <2>2 DEF LogsTrue
<1>5. pc' \in Reading /\ InList(Wanted[next])' => serial' = Named(Wanted[next])'.rom
  <2>1. PICK n : n = Wanted[next]
    OBVIOUS
  <2>2. Wanted' = Wanted /\ (InList(n)' <=> InList(n)) /\ Named(n)' = Named(n)
    BY <1>3, ListFrame
  <2>3. pc' \in Reading => next' = next
    BY <1>1 DEF ReadStep, NextSensor, Goto, Stays, Reading
  <2>4. InList(n) => serial = Named(n).rom
    BY <1>3, <2>1 DEF NameInv
  <2>5. pc' \in Reading /\ InList(n)' => serial' = Named(n)'.rom
    BY <1>3, <2>2, <2>4
  <2> QED
    BY <2>1, <2>2, <2>3, <2>5 DEF InList, Named
<1> QED
  BY <1>2, <1>4, <1>5 DEF NameInv

LEMMA SameRow ==
  ASSUME NameInv, UNCHANGED <<list, opt, row>>
  PROVE  \A i \in DOMAIN row' : RowTrue(row[i])'
<1>1. PICK f : f = row
  OBVIOUS
<1>2. row' = f /\ \A i \in DOMAIN f : RowTrue(f[i])
  BY <1>1 DEF NameInv
<1>3. \A i \in DOMAIN f : RowTrue(f[i])'
  BY <1>2, ListFrame
<1> QED
  BY <1>2, <1>3 DEF RowTrue

\* What Select may do.
SelectStep ==
  /\ pc = "select" /\ next \in DOMAIN Wanted
  /\ UNCHANGED <<file, opt, list, place, chip, row>>
  /\ \/ /\ Wanted[next] >= Len(Flat(list)) /\ Read(serial)
        /\ UNCHANGED <<branch, serial, Last2409, fault>>
     \/ \E e \in {Named(Wanted[next])} :
          /\ InList(Wanted[next]) /\ e \in Entries
          /\ \/ Connected(e) /\ serial' = e.rom /\ Read(e.rom) /\ UNCHANGED <<branch, Last2409, fault>>
             \/ /\ ~Connected(e) /\ Switched(e.hub, e.line) /\ Last2409' = [hub |-> e.hub, line |-> e.line]
                /\ serial' = e.rom /\ Read(e.rom)
             \/ ~Connected(e) /\ NotSwitched(e.hub, e.line) /\ NextSensor /\ UNCHANGED <<serial, Last2409>>

LEMMA SelectIs == ASSUME Placed, Select PROVE SelectStep /\ Wanted[next] \in Nat
<1>1. /\ pc = "select" /\ next \in DOMAIN Wanted
      /\ UNCHANGED <<disk, lists, search, walk, round, row>>
  BY DEF Select
<1>2. list \in Lists /\ opt \in Options
  BY DEF Placed, DiskOK
<1>3. Wanted[next] \in Nat
  <2>1. Wanted \in Seq(Nat)
    BY <1>2, WantedTyped
  <2> QED
    BY <1>1, <2>1
<1>4. PICK n : n = Wanted[next]
  OBVIOUS
<1>5. UNCHANGED <<place, chip>>
  BY DEF Select, Switched, NotSwitched, net
<1>6. Len(Flat(list)) \in Nat
  <2>1. Flat(list) \in Seq(Entries)
    BY <1>2, FlatIs
  <2> QED
    BY <2>1
<1>7. CASE Chosen(n) = {} /\ Read(serial) /\ UNCHANGED <<net, serial, Last2409, fault>>
  <2>1. ~(n < Len(Flat(list)))
    BY <1>2, <1>3, <1>4, <1>7, ChosenIs
  <2>2. n >= Len(Flat(list))
    BY <1>3, <1>4, <1>6, <2>1
  <2> QED
    BY <1>1, <1>3, <1>4, <1>5, <1>7, <2>2 DEF SelectStep, lists, disk, net
<1>8. ASSUME NEW e \in Chosen(n),
             \/ Connected(e) /\ serial' = e.rom /\ Read(e.rom) /\ UNCHANGED <<net, Last2409, fault>>
             \/ /\ ~Connected(e) /\ Switched(e.hub, e.line) /\ Last2409' = [hub |-> e.hub, line |-> e.line]
                /\ serial' = e.rom /\ Read(e.rom)
             \/ ~Connected(e) /\ NotSwitched(e.hub, e.line) /\ NextSensor /\ UNCHANGED <<serial, Last2409>>
      PROVE  SelectStep
  <2>1. e = Named(n) /\ InList(n) /\ e \in Entries
    BY <1>2, <1>3, <1>4, ChosenTyped DEF Named, InList
  <2> QED
    BY <1>1, <1>4, <1>5, <1>8, <2>1 DEF SelectStep, lists, disk, net
<1> QED
  BY <1>3, <1>4, <1>7, <1>8 DEF Select

LEMMA ReadGoes ==
  ASSUME NEW r, Read(r)
  PROVE  \/ NextSensor /\ FirstStep(r) = "select"
         \/ pc' = FirstStep(r) /\ pc' # "select" /\ UNCHANGED <<next, reading>>
BY DEF Read, Goto

LEMMA NamesSelect == ASSUME Placed, NameInv, Select PROVE NameInv'
<1>1. SelectStep /\ Wanted[next] \in Nat
  BY SelectIs
<1>2. UNCHANGED <<list, opt, row>> /\ pc = "select"
  BY <1>1 DEF SelectStep
<1>3. \A i \in DOMAIN row' : RowTrue(row[i])'
  BY <1>2, SameRow
<1>4. pc' # "scratch"
  <2>1. \A r : Read(r) => pc' # "scratch"
    BY ReadGoes, ReadFirst DEF NextSensor, Goto
  <2> QED
    BY <1>1, <2>1 DEF SelectStep, NextSensor, Goto
<1>5. PICK n : n = Wanted[next]
  OBVIOUS
<1>6. pc' \in Reading /\ InList(n) => next' = next /\ serial' = Named(n).rom
  <2>1. \A r : Read(r) => (pc' \in Reading => next' = next)
    BY ReadGoes DEF NextSensor, Goto, Reading
  <2>2. NextSensor => pc' \notin Reading
    BY DEF NextSensor, Goto, Reading
  <2>3. Len(Flat(list)) \in Nat
    <3>1. Flat(list) \in Seq(Entries)
      BY FlatIs DEF Placed, DiskOK
    <3> QED
      BY <3>1
  <2>4. n >= Len(Flat(list)) => ~InList(n)
    BY <1>1, <1>5, <2>3 DEF InList
  <2> QED
    BY <1>1, <1>5, <2>1, <2>2, <2>4 DEF SelectStep
<1>7. pc' \in Reading /\ InList(Wanted[next])' => serial' = Named(Wanted[next])'.rom
  <2>1. Wanted' = Wanted /\ (InList(n)' <=> InList(n)) /\ Named(n)' = Named(n)
    BY <1>2, ListFrame
  <2>2. pc' \in Reading /\ InList(n)' => next' = next /\ serial' = Named(n)'.rom
    BY <1>6, <2>1
  <2>3. pc' \in Reading => next' = next
    <3>1. \A r : Read(r) => (pc' \in Reading => next' = next)
      BY ReadGoes DEF NextSensor, Goto, Reading
    <3>2. NextSensor => pc' \notin Reading
      BY DEF NextSensor, Goto, Reading
    <3> QED
      BY <1>1, <3>1, <3>2 DEF SelectStep
  <2> QED
    BY <1>5, <2>1, <2>2, <2>3 DEF InList, Named
<1> QED
  BY <1>3, <1>4, <1>7 DEF NameInv

LEMMA NamesStep == Placed /\ CalmInv /\ NameInv /\ [Next]_vars => CalmInv' /\ NameInv'
<1> SUFFICES ASSUME Placed, CalmInv, NameInv, [Next]_vars PROVE CalmInv' /\ NameInv'
  OBVIOUS
<1>1. CASE Outside
  BY <1>1, OutsideGoes, NamesOut
<1>2. CASE Sampling
  <2>1. SampleStep
    BY <1>2, SampleSteps
  <2>2. CalmInv'
    BY <2>1 DEF SampleStep, CalmInv
  <2>3. CASE NewRound \/ RowDone \/ NextSample
    <3>1. pc' \notin Reading /\ (row' = <<>> \/ row' = row)
      BY <2>3 DEF NewRound, RowDone, NextSample, Goto, Reading, sample
    <3> QED
      BY <2>1, <2>2, <3>1, NamesOutside DEF SampleStep
  <2>4. CASE Select
    BY <2>2, <2>4, NamesSelect
  <2>5. CASE Convert \/ Scratch \/ ReadLogger \/ Count \/ Pio \/ Volts \/ Temperature
    BY <2>2, <2>5, NamesRead
  <2> QED
    BY <1>2, <2>3, <2>4, <2>5 DEF Sampling
<1> QED
  BY <1>1, <1>2 DEF Next, Process, Outside

LEMMA NamesInit == Init => CalmInv /\ NameInv
BY DEF Init, CalmInv, NameInv, Reading

LEMMA NamesHold == Spec => [](CalmInv /\ NameInv)
BY Digitemp_Placed, NamesInit, NamesStep, PTL DEF Spec

-----------------------------------------------------------------------------
(* What a sample has to say.                                                *)

Needs(n) == IF Kind[Named(n).rom] = "DS2438" THEN 2 ELSE 1
Silent == {"DS2406", "DS2409", "other"}
IsDue(n) == InList(n) /\ There(Named(n)) /\ Sure >= Needs(n) /\ Kind[Named(n).rom] \notin Silent
Fresh(n) == [rom |-> Named(n).rom, n |-> n, what |-> "fresh"]

LEMMA NamedTyped ==
  ASSUME list \in Lists, NEW n \in Nat, InList(n)
  PROVE  Named(n) \in Entries /\ Named(n).rom \in Roms /\ Kind[Named(n).rom] \in Kinds
<1>1. Flat(list) \in Seq(Entries)
  BY FlatIs
<1>2. PICK f : f = Flat(list)
  OBVIOUS
<1>3. n < Len(f) /\ f \in Seq(Entries)
  BY <1>1, <1>2 DEF InList
<1>4. f[n + 1] \in Entries
  BY <1>3
<1>5. Named(n) \in Entries
  BY <1>2, <1>4 DEF Named
<1> QED
  BY <1>5, EntriesAre, NetAssumption

LEMMA DueIs ==
  ASSUME list \in Lists, NEW n \in Nat
  PROVE  /\ IsDue(n) => Fresh(n) \in Logged
         /\ Due(n) = IF ~IsDue(n) THEN <<>>
                     ELSE IF Kind[Named(n).rom] = "DS2423" THEN <<Fresh(n), Fresh(n)>> ELSE <<Fresh(n)>>
<1>1. PICK m : m = Len(Flat(list))
  OBVIOUS
<1>2. Flat(list) \in Seq(Entries)
  BY FlatIs
<1>3. m \in Nat
  BY <1>1, <1>2
<1>4. CASE n >= m
  BY <1>1, <1>3, <1>4 DEF Due, IsDue, InList
<1>5. CASE ~(n >= m)
  <2>1. InList(n)
    BY <1>1, <1>3, <1>5 DEF InList
  <2>2. PICK e, k, x : e = Named(n) /\ k = Kind[e.rom] /\ x = Fresh(n)
    OBVIOUS
  <2>3. x = [rom |-> e.rom, n |-> n, what |-> "fresh"] /\ e.rom \in Roms
    BY <2>1, <2>2, NamedTyped DEF Fresh
  <2>4. x \in Logged
    BY <2>3 DEF Logged
  <2>5. PICK d : d = IF There(e) /\ Sure >= (IF k = "DS2438" THEN 2 ELSE 1) THEN [i \in 1..Times(k) |-> x] ELSE <<>>
    OBVIOUS
  <2>6. Due(n) = d
    BY <1>1, <1>5, <2>2, <2>3, <2>5 DEF Due, Named
  <2>7. /\ [i \in 1..0 |-> x] = <<>>
        /\ [i \in 1..1 |-> x] = <<x>>
        /\ [i \in 1..2 |-> x] = <<x, x>>
    OBVIOUS
  <2>8. [i \in 1..Times(k) |-> x] =
          IF k \in Silent THEN <<>> ELSE IF k = "DS2423" THEN <<x, x>> ELSE <<x>>
    BY <2>7 DEF Times, Silent
  <2>9. IsDue(n) <=> There(e) /\ Sure >= (IF k = "DS2438" THEN 2 ELSE 1) /\ k \notin Silent
    BY <2>1, <2>2 DEF IsDue, Needs
  <2>10. Due(n) = IF ~IsDue(n) THEN <<>> ELSE IF k = "DS2423" THEN <<x, x>> ELSE <<x>>
    BY <2>5, <2>6, <2>8, <2>9
  <2> QED
    BY <2>2, <2>4, <2>10
<1> QED
  BY <1>4, <1>5

LEMMA DueTyped ==
  ASSUME list \in Lists, NEW n \in Nat
  PROVE  Due(n) \in Seq(Logged) /\ (Due(n) # <<>> <=> IsDue(n))
<1>1. PICK x : x = Fresh(n)
  OBVIOUS
<1>2. CASE IsDue(n)
  <2>1. x \in Logged /\ (Due(n) = <<x, x>> \/ Due(n) = <<x>>)
    BY <1>1, <1>2, DueIs
  <2>2. <<x, x>> \in Seq(Logged) /\ <<x>> \in Seq(Logged) /\ <<x, x>> # <<>> /\ <<x>> # <<>>
    BY <2>1
  <2> QED
    BY <1>2, <2>1, <2>2
<1>3. CASE ~IsDue(n)
  <2>1. <<>> \in Seq(Logged)
    OBVIOUS
  <2> QED
    BY <1>3, <2>1, DueIs
<1> QED
  BY <1>2, <1>3

-----------------------------------------------------------------------------
(* What holds while sampling.                                               *)

\* What the program remembers is connected.
Right == Last2409 = Unknown \/ branch[Last2409.hub] = Last2409.line

\* This sensor is on the other branch of the coupler that is remembered.
Stale(n) ==
  /\ InList(n) /\ Named(n).line # "lan" /\ Named(n).line # Last2409.line
  /\ Named(n).hub = Last2409.hub /\ On(Named(n).hub)

Awaited(i) ==
  \/ calm = 0
  \/ calm = 1 /\ pc = "select" /\ i >= next
  \/ calm = 1 /\ pc \in Reading /\ i > next

\* Otherwise a coupler has obeyed without a confirmation; the next sample without a
\* failure comes to the sensor it was told for, and tells it again.
LastInv ==
  pc \in InSample /\ ~dark /\ ~Right =>
    /\ bad
    /\ \E i \in DOMAIN Wanted : Stale(Wanted[i]) /\ Awaited(i)

Counts == ~dark /\ calm > 0

HereInv ==
  pc \in Reading /\ Counts /\ Sure >= 1 /\ InList(Wanted[next]) /\ There(Named(Wanted[next])) => Here

\* The scratchpad of a DS2438 says what is set, at the latest after one sure sample.
Settled(b) == chip[b].pad = chip[b].cfg
AtBattery(n) == InList(n) /\ There(Named(n)) /\ Kind[Named(n).rom] = "DS2438"
Reread(i) == Sure >= 2 \/ (Sure = 1 /\ (pc \in {"rowEnd", "round"} \/ i < next))
SettledInv ==
  pc \in InSample /\ ~dark =>
    \A i \in DOMAIN Wanted : AtBattery(Wanted[i]) /\ Reread(i) => Settled(Named(Wanted[i]).rom)

\* Each try more has seen one condition more.
Tried == \/ try = 0 /\ seen = {}
         \/ try = 1 /\ seen \in {{"glitch"}, {"start"}}
         \/ try = 2 /\ seen = {"glitch", "start"}

\* How far a reading that is due has come.
Progress ==
  /\ pc \in {"convert", "scratch"} => Tried
  /\ pc = "scratch" => got = <<"fresh">>
  /\ pc = "volts" => got \in (IF opt.ad THEN {<<"fresh">>, <<"fresh", "vdd">>} ELSE {<<>>, <<"vdd">>})
  /\ pc = "temperature" => got = (IF opt.ad THEN <<>> ELSE <<"vdd", "vad">>)
  /\ pc = "count" => try \in {0, 1}
GotInv == pc \in Reading /\ Counts /\ IsDue(Wanted[next]) => Progress

\* What has been logged of what is due: all of the sensors before this one, and after its
\* first page one counter of a DS2423.
DueRows == {e \in Logged : Due(e.n) # <<>>}
Kept == Marked(row, DueRows)
Dues == [i \in DOMAIN Wanted |-> Due(Wanted[i])]
Half == pc = "count" /\ try = 1 /\ IsDue(Wanted[next])
KeptInv ==
  Counts =>
    /\ pc \in {"select"} \cup Reading =>
         /\ next - 1 <= Len(Wanted)
         /\ Kept = IF Half THEN Append(UpTo(Dues, next - 1), Fresh(Wanted[next])) ELSE UpTo(Dues, next - 1)
    /\ pc = "rowEnd" => Kept = UpTo(Dues, Len(Wanted))

SampleInv == LastInv /\ HereInv /\ SettledInv /\ GotInv /\ KeptInv

LEMMA DuesTyped ==
  ASSUME list \in Lists, opt \in Options
  PROVE  /\ Dues \in Seq(Seq(Logged)) /\ Len(Dues) = Len(Wanted) /\ Len(Wanted) \in Nat
         /\ DOMAIN Wanted = 1..Len(Wanted)
         /\ \A i \in DOMAIN Wanted : Wanted[i] \in Nat /\ Dues[i] = Due(Wanted[i])
<1>1. PICK w : w = Wanted
  OBVIOUS
<1>2. w \in Seq(Nat)
  BY <1>1, WantedTyped
<1>3. PICK m : m = Len(w)
  OBVIOUS
<1>4. m \in Nat /\ DOMAIN w = 1..m /\ \A i \in 1..m : w[i] \in Nat
  BY <1>2, <1>3
<1>5. \A i \in 1..m : Due(w[i]) \in Seq(Logged)
  BY <1>4, DueTyped
<1>6. Dues = [i \in 1..m |-> Due(w[i])]
  BY <1>1, <1>4 DEF Dues
<1>7. Dues \in [1..m -> Seq(Logged)]
  BY <1>5, <1>6
<1>8. Dues \in Seq(Seq(Logged)) /\ Len(Dues) = m
  BY <1>4, <1>7, IsSeq
<1> QED
  BY <1>1, <1>3, <1>4, <1>6, <1>8

\* What the list and the places say, and with the faults what is due.
LEMMA PlacesFrame ==
  ASSUME UNCHANGED <<place, list, opt>>
  PROVE  \A n : /\ InList(n)' <=> InList(n)
                /\ Named(n)' = Named(n)
                /\ There(Named(n))' <=> There(Named(n))
                /\ AtBattery(n)' <=> AtBattery(n)
<1>1. \A n : (InList(n)' <=> InList(n)) /\ Named(n)' = Named(n)
  BY ListFrame
<1>2. \A n : There(Named(n))' <=> There(Named(n))
  BY <1>1 DEF There, Behind, On
<1>3. \A n : AtBattery(n)' <=> AtBattery(n)
  BY <1>1, <1>2 DEF AtBattery
<1> QED
  BY <1>1, <1>2, <1>3

LEMMA DueFrame ==
  ASSUME UNCHANGED <<place, list, opt, calm, bad>>
  PROVE  /\ Sure' = Sure /\ Wanted' = Wanted /\ Dues' = Dues /\ DueRows' = DueRows
         /\ \A i : UpTo(Dues, i)' = UpTo(Dues, i)
         /\ \A n : /\ IsDue(n)' <=> IsDue(n)
                   /\ Fresh(n)' = Fresh(n) /\ Due(n)' = Due(n)
<1>1. Wanted' = Wanted /\ Flat(list)' = Flat(list)
  BY ListFrame
<1>2. Sure' = Sure
  BY DEF Sure
<1>3. \A n : /\ InList(n)' <=> InList(n)
             /\ Named(n)' = Named(n)
             /\ There(Named(n))' <=> There(Named(n))
  BY PlacesFrame
<1>4. \A n : Needs(n)' = Needs(n) /\ Fresh(n)' = Fresh(n)
  BY <1>3 DEF Needs, Fresh
<1>5. \A n : IsDue(n)' <=> IsDue(n)
  BY <1>2, <1>3, <1>4 DEF IsDue
<1>6. \A n : Due(n)' = Due(n)
  BY <1>1, <1>2 DEF Due, There, Behind, On
<1>7. Dues' = Dues /\ DueRows' = DueRows
  BY <1>1, <1>6 DEF Dues, DueRows
<1>8. \A i : UpTo(Dues, i)' = UpTo(Dues, i)
  BY <1>7 DEF UpTo
<1> QED
  BY <1>1, <1>2, <1>4, <1>5, <1>6, <1>7, <1>8

-----------------------------------------------------------------------------
(* What keeps the invariant of sampling.                                    *)

LEMMA StaleFrame ==
  ASSUME UNCHANGED <<place, list, opt, Last2409>>
  PROVE  \A n : Stale(n)' <=> Stale(n)
BY ListFrame DEF Stale, On

LEMMA LastKeeps ==
  ASSUME UNCHANGED <<place, list, opt, Last2409>>,
         ~dark' /\ ~Right' => /\ bad'
                              /\ \E i \in DOMAIN Wanted : Stale(Wanted[i]) /\ Awaited(i)'
  PROVE  LastInv'
<1>1. Wanted' = Wanted /\ \A n : Stale(n)' <=> Stale(n)
  BY StaleFrame, ListFrame
<1>2. ASSUME ~dark', ~Right'
      PROVE  (\E i \in DOMAIN Wanted : Stale(Wanted[i]) /\ Awaited(i))'
  <2>1. PICK i : i \in DOMAIN Wanted /\ Stale(Wanted[i]) /\ Awaited(i)'
    BY <1>2
  <2>2. PICK n : n = Wanted[i]
    OBVIOUS
  <2>3. Stale(n)' /\ Wanted'[i] = n /\ i \in DOMAIN Wanted'
    BY <1>1, <2>1, <2>2
  <2> QED
    BY <2>1, <2>3 DEF Stale, InList, Named
<1> QED
  BY <1>2 DEF LastInv

LEMMA HereKeeps ==
  ASSUME HereInv, UNCHANGED <<place, branch, list, opt, calm, bad, dark, serial>>,
         pc' \in Reading => pc \in Reading /\ next' = next
  PROVE  HereInv'
<1>1. PICK n : n = Wanted[next]
  OBVIOUS
<1>2. Wanted' = Wanted /\ Sure' = Sure
  BY DueFrame
<1>3. (InList(n)' <=> InList(n)) /\ (There(Named(n))' <=> There(Named(n)))
  BY PlacesFrame
<1>4. Here' = Here
  BY DEF Here, Visible, Behind, On
<1>5. pc \in Reading /\ Counts /\ Sure >= 1 /\ InList(n) /\ There(Named(n)) => Here
  BY <1>1 DEF HereInv
<1>6. pc' \in Reading /\ Counts' /\ Sure' >= 1 /\ InList(n)' /\ There(Named(n))' => Here'
  BY <1>2, <1>3, <1>4, <1>5 DEF Counts
<1>7. pc' \in Reading => Wanted'[next'] = n
  BY <1>1, <1>2
<1> QED
  BY <1>6, <1>7 DEF HereInv, InList, There, Named

LEMMA SettledKeeps ==
  ASSUME UNCHANGED <<place, list, opt>>,
         \A i \in DOMAIN Wanted :
           ~dark' /\ AtBattery(Wanted[i]) /\ Reread(i)' => Settled(Named(Wanted[i]).rom)'
  PROVE  SettledInv'
<1>1. Wanted' = Wanted
  BY ListFrame
<1>2. ASSUME NEW i \in DOMAIN Wanted, ~dark', AtBattery(Wanted[i])', Reread(i)'
      PROVE  Settled(Named(Wanted[i]).rom)'
  <2>1. PICK n : n = Wanted[i]
    OBVIOUS
  <2>2. AtBattery(n)' /\ Wanted'[i] = n
    BY <1>1, <1>2, <2>1 DEF AtBattery, InList, There, Named
  <2>3. AtBattery(n)
    BY <2>2, PlacesFrame
  <2> QED
    BY <1>2, <2>1, <2>3
<1> QED
  BY <1>1, <1>2 DEF SettledInv

LEMMA GotKeeps ==
  ASSUME UNCHANGED <<place, list, opt, calm, bad, dark>>,
         pc' \in Reading => next' = next,
         pc' \in Reading /\ Counts /\ IsDue(Wanted[next]) => Progress'
  PROVE  GotInv'
<1>1. PICK n : n = Wanted[next]
  OBVIOUS
<1>2. Wanted' = Wanted /\ (IsDue(n)' <=> IsDue(n))
  BY DueFrame
<1>3. pc' \in Reading => Wanted'[next'] = n
  BY <1>1, <1>2
<1>4. pc' \in Reading /\ Counts' /\ IsDue(n)' => Progress'
  BY <1>1, <1>2 DEF Counts
<1>5. pc' \in Reading /\ Counts' /\ IsDue(Wanted[next])' => IsDue(n)'
  BY <1>3 DEF IsDue, InList, There, Named, Needs
<1> QED
  BY <1>4, <1>5 DEF GotInv

\* What is kept when nothing or one reading is logged.
LEMMA KeptAfter ==
  ASSUME Placed, UNCHANGED <<place, list, opt, calm, bad>>, NEW e \in Logged, row' = Append(row, e)
  PROVE  Kept' = IF IsDue(e.n) THEN Append(Kept, e) ELSE Kept
<1>1. PICK f : f = row
  OBVIOUS
<1>2. f \in Seq(Logged)
  BY <1>1 DEF Placed, SampleOK
<1>3. PICK X : X = DueRows
  OBVIOUS
<1>4. DueRows' = X
  BY <1>3, DueFrame
<1>5. Marked(Append(f, e), X) = IF e \in X THEN Append(Marked(f, X), e) ELSE Marked(f, X)
  BY <1>2, MarkedLast
<1>6. Kept = Marked(f, X)
  BY <1>1, <1>3 DEF Kept
<1>7. Kept' = Marked(Append(f, e), X)
  BY <1>1, <1>4 DEF Kept
<1>8. e.n \in Nat /\ list \in Lists
  BY DEF Logged, Placed, DiskOK
<1>9. e \in X <=> IsDue(e.n)
  BY <1>3, <1>8, DueTyped DEF DueRows
<1> QED
  BY <1>5, <1>6, <1>7, <1>9

LEMMA KeptSame ==
  ASSUME UNCHANGED <<place, list, opt, calm, bad, row>>
  PROVE  Kept' = Kept
BY DueFrame DEF Kept, Marked

LEMMA KeptTyped == ASSUME Placed PROVE Kept \in Seq(Logged)
BY PickedTyped DEF Kept, Marked, Placed, SampleOK

LEMMA NextDues ==
  ASSUME Placed, next \in DOMAIN Wanted, NEW n, n = Wanted[next]
  PROVE  /\ UpTo(Dues, next) = IF ~IsDue(n) THEN UpTo(Dues, next - 1)
                               ELSE IF Kind[Named(n).rom] = "DS2423"
                                    THEN Append(Append(UpTo(Dues, next - 1), Fresh(n)), Fresh(n))
                                    ELSE Append(UpTo(Dues, next - 1), Fresh(n))
         /\ UpTo(Dues, next - 1) \in Seq(Logged)
<1>1. list \in Lists /\ opt \in Options
  BY DEF Placed, DiskOK
<1>2. PICK s, m, k : s = Dues /\ m = Len(Wanted) /\ k = next
  OBVIOUS
<1>3. s \in Seq(Seq(Logged)) /\ Len(s) = m /\ m \in Nat /\ k \in 1..m /\ n \in Nat /\ s[k] = Due(n)
  BY <1>1, <1>2, DuesTyped
<1>4. UpTo(s, k) = UpTo(s, k - 1) \o s[k]
  BY <1>3, UpToStep
<1>5. PICK u : u = UpTo(s, k - 1)
  OBVIOUS
<1>6. u \in Seq(Logged)
  <2>1. k - 1 \in 0..Len(s)
    BY <1>3
  <2>2. PICK j : j = k - 1
    OBVIOUS
  <2> QED
    BY <1>3, <1>5, <2>1, <2>2, UpToTyped
<1>7. PICK x : x = Fresh(n)
  OBVIOUS
<1>8. /\ IsDue(n) => x \in Logged
      /\ Due(n) = IF ~IsDue(n) THEN <<>> ELSE IF Kind[Named(n).rom] = "DS2423" THEN <<x, x>> ELSE <<x>>
  BY <1>1, <1>3, <1>7, DueIs
<1>9. u \o <<>> = u /\ u \o <<x>> = Append(u, x)
  BY <1>6
<1>10. u \o <<x, x>> = Append(Append(u, x), x)
  BY <1>6
<1>11. UpTo(s, k) = u \o Due(n)
  BY <1>3, <1>4, <1>5
<1>12. UpTo(s, k) = IF ~IsDue(n) THEN u
                    ELSE IF Kind[Named(n).rom] = "DS2423" THEN Append(Append(u, x), x) ELSE Append(u, x)
  BY <1>8, <1>9, <1>10, <1>11
<1> QED
  BY <1>2, <1>5, <1>6, <1>7, <1>12

-----------------------------------------------------------------------------
(* The steps that do not sample, and those that fail.                       *)

\* After a failure nothing is due until the next sample.
LEMMA FailsRest == ASSUME Fails PROVE HereInv' /\ SettledInv' /\ GotInv' /\ KeptInv'
<1>1. calm' = 0 /\ bad' = TRUE
  BY DEF Fails
<1>2. ~Counts' /\ Sure' = -1
  BY <1>1 DEF Counts, Sure
<1>3. ~(Sure' >= 2) /\ Sure' # 1
  BY <1>2
<1>4. \A i : ~Reread(i)'
  BY <1>3 DEF Reread
<1> QED
  BY <1>2, <1>4 DEF HereInv, SettledInv, GotInv, KeptInv

LEMMA SampleOut == ASSUME Placed, CalmInv, SampleInv, Outside PROVE SampleInv'
<1>1. Goes
  BY OutsideGoes
<1>2. CASE pc' \notin InSample
  BY <1>2 DEF SampleInv, LastInv, HereInv, SettledInv, GotInv, KeptInv, InSample, Reading
<1>3. CASE pc \notin InSample \cup {"leave"} /\ pc' = "round" /\ UNCHANGED <<row, Last2409>> /\ calm' \in {0, calm}
  <2>1. calm' = 0 /\ Last2409' = Unknown
    BY <1>3 DEF CalmInv, Placed, Before1
  <2>2. Right' /\ ~Counts'
    BY <2>1 DEF Right, Counts
  <2>3. \A i : ~Reread(i)'
    <3>1. Sure' \in {0, -1}
      BY <2>1 DEF Sure
    <3>2. ~(Sure' >= 2) /\ Sure' # 1
      BY <3>1
    <3> QED
      BY <3>2 DEF Reread
  <2> QED
    BY <2>2, <2>3 DEF SampleInv, LastInv, HereInv, SettledInv, GotInv, KeptInv
<1>4. CASE Brownout
  <2>1. dark'
    BY <1>4 DEF Brownout
  <2> QED
    BY <2>1 DEF SampleInv, LastInv, HereInv, SettledInv, GotInv, KeptInv, Counts
<1>5. CASE UNCHANGED vars
  <2>1. /\ UNCHANGED <<place, branch, chip, list, opt, calm, bad, dark, pc, serial, Last2409, next, row>>
        /\ UNCHANGED <<try, seen, got>>
    BY <1>5 DEF vars, lists, sample, reading, net, fault
  <2>2. CASE pc \notin InSample
    BY <1>2, <2>1, <2>2
  <2>3. CASE pc \in InSample
    <3>1. (Right' <=> Right) /\ (\A i : Awaited(i)' <=> Awaited(i))
      BY <2>1 DEF Right, Awaited
    <3>2. LastInv'
      BY <2>1, <2>3, <3>1, LastKeeps DEF SampleInv, LastInv
    <3>3. HereInv'
      BY <2>1, HereKeeps DEF SampleInv
    <3>4. SettledInv'
      <4>1. Wanted' = Wanted /\ (\A i : Reread(i)' <=> Reread(i)) /\ (\A n : Named(n)' = Named(n))
        BY <2>1, DueFrame, PlacesFrame DEF Reread
      <4>2. \A i \in DOMAIN Wanted :
              ~dark' /\ AtBattery(Wanted[i]) /\ Reread(i)' => Settled(Named(Wanted[i]).rom)'
        BY <2>1, <2>3, <4>1 DEF SampleInv, SettledInv, Settled, Named
      <4> QED
        BY <2>1, <4>2, SettledKeeps
    <3>5. GotInv'
      <4>1. Progress' <=> Progress
        BY <2>1 DEF Progress, Tried
      <4> QED
        BY <2>1, <4>1, GotKeeps DEF SampleInv, GotInv
    <3>6. KeptInv'
      <4>1. Kept' = Kept /\ Wanted' = Wanted /\ \A i : UpTo(Dues, i)' = UpTo(Dues, i)
        BY <2>1, DueFrame, KeptSame
      <4>2. PICK n, k : n = Wanted[next] /\ k = next - 1
        OBVIOUS
      <4>3. (IsDue(n)' <=> IsDue(n)) /\ Fresh(n)' = Fresh(n) /\ Wanted'[next'] = n /\ next' - 1 = k
        BY <2>1, <4>1, <4>2, DueFrame
      <4>4. (Half' <=> Half) /\ Fresh(Wanted[next])' = Fresh(n)
        BY <2>1, <4>2, <4>3 DEF Half, IsDue, InList, Named, There, Needs, Fresh
      <4>5. UpTo(Dues, next - 1)' = UpTo(Dues, k) /\ UpTo(Dues, Len(Wanted))' = UpTo(Dues, Len(Wanted))
        BY <2>1, <4>1, <4>3 DEF UpTo
      <4>6. Counts' <=> Counts
        BY <2>1 DEF Counts
      <4> QED
        BY <2>1, <4>1, <4>2, <4>4, <4>5, <4>6 DEF SampleInv, KeptInv
    <3> QED
      BY <3>2, <3>3, <3>4, <3>5, <3>6 DEF SampleInv
  <2> QED
    BY <2>2, <2>3
<1> QED
  BY <1>1, <1>2, <1>3, <1>4, <1>5 DEF Goes

-----------------------------------------------------------------------------
(* From one sample to the next.                                             *)

LEMMA SampleNew == ASSUME Placed, SampleInv, NewRound PROVE SampleInv'
<1>1. /\ pc = "round" /\ pc' = "select" /\ next' = 1 /\ row' = <<>>
      /\ calm' = (IF calm < 3 THEN calm + 1 ELSE 3)
      /\ UNCHANGED <<place, branch, chip, list, opt, bad, dark, Last2409>>
  BY DEF NewRound, Goto, net, lists
<1>2. calm \in 0..3
  BY DEF Placed, FaultOK
<1>3. LastInv'
  <2>1. Right' <=> Right
    BY <1>1 DEF Right
  <2>2. ASSUME NEW i \in DOMAIN Wanted, Awaited(i)
        PROVE  Awaited(i)'
    <3>1. calm' = 1 /\ i \in Nat /\ i >= 1
      <4>1. i \in 1..Len(Wanted) /\ Len(Wanted) \in Nat
        BY DuesTyped DEF Placed, DiskOK
      <4> QED
        BY <1>1, <2>2, <4>1 DEF Awaited, Reading
    <3> QED
      BY <1>1, <3>1 DEF Awaited
  <2> QED
    BY <1>1, <2>1, <2>2, LastKeeps DEF SampleInv, LastInv, InSample
<1>4. HereInv' /\ GotInv'
  BY <1>1 DEF HereInv, GotInv, Reading
<1>5. SettledInv'
  <2>1. ASSUME NEW i \in DOMAIN Wanted, Reread(i)'
        PROVE  Reread(i)
    <3>1. i \in Nat /\ i >= 1
      <4>1. i \in 1..Len(Wanted) /\ Len(Wanted) \in Nat
        BY DuesTyped DEF Placed, DiskOK
      <4> QED
        BY <4>1
    <3>2. Sure' >= 2
      BY <1>1, <2>1, <3>1 DEF Reread
    <3>3. CASE bad
      <4>1. calm' - 1 >= 2
        BY <1>1, <3>2, <3>3 DEF Sure
      <4>2. calm - 1 >= 2 \/ calm - 1 = 1
        BY <1>1, <1>2, <4>1
      <4> QED
        BY <1>1, <3>3, <4>2 DEF Sure, Reread
    <3>4. CASE ~bad
      <4>1. calm' >= 2
        BY <1>1, <3>2, <3>4 DEF Sure
      <4>2. calm >= 2 \/ calm = 1
        BY <1>1, <1>2, <4>1
      <4> QED
        BY <1>1, <3>4, <4>2 DEF Sure, Reread
    <3> QED
      BY <3>3, <3>4
  <2>2. Wanted' = Wanted /\ \A n : Named(n)' = Named(n)
    BY <1>1, ListFrame
  <2>3. \A i \in DOMAIN Wanted :
          ~dark' /\ AtBattery(Wanted[i]) /\ Reread(i)' => Settled(Named(Wanted[i]).rom)'
    BY <1>1, <2>1, <2>2 DEF SampleInv, SettledInv, Settled, Named, InSample
  <2> QED
    BY <1>1, <2>3, SettledKeeps
<1>6. KeptInv'
  <2>1. Kept' = <<>>
    BY <1>1, PickedEmpty DEF Kept, Marked
  <2>2. \A s : UpTo(s, 0) = <<>>
    <3>1. \A s : SubSeq(s, 1, 0) = <<>>
      OBVIOUS
    <3> QED
      BY <3>1, FlattenEmpty DEF UpTo
  <2>3. next' - 1 = 0 /\ ~Half' /\ pc' # "rowEnd"
    BY <1>1 DEF Half
  <2>4. UpTo(Dues, next - 1)' = <<>>
    BY <2>2, <2>3 DEF UpTo
  <2>5. 0 <= Len(Wanted)'
    <3>1. Wanted' = Wanted /\ Len(Wanted) \in Nat
      BY <1>1, ListFrame, DuesTyped DEF Placed, DiskOK
    <3> QED
      BY <3>1
  <2> QED
    BY <2>1, <2>3, <2>4, <2>5 DEF KeptInv
<1> QED
  BY <1>3, <1>4, <1>5, <1>6 DEF SampleInv

LEMMA SampleEnds == ASSUME Placed, SampleInv, RowDone PROVE SampleInv'
<1>1. /\ pc = "select" /\ pc' = "rowEnd" /\ next \notin DOMAIN Wanted
      /\ UNCHANGED <<place, branch, chip, list, opt, calm, bad, dark, Last2409, next, row>>
  BY DEF RowDone, Goto, net, lists, fault, sample
<1>2. \A i \in DOMAIN Wanted : i < next /\ ~(i >= next)
  <2>1. next \in Nat \ {0} /\ DOMAIN Wanted = 1..Len(Wanted) /\ Len(Wanted) \in Nat
    BY DuesTyped DEF Placed, DiskOK, SampleOK
  <2>2. next > Len(Wanted)
    BY <1>1, <2>1
  <2> QED
    BY <2>1, <2>2
<1>3. LastInv'
  <2>1. Right' <=> Right
    BY <1>1 DEF Right
  <2>2. \A i \in DOMAIN Wanted : Awaited(i) => Awaited(i)'
    BY <1>1, <1>2 DEF Awaited, Reading
  <2> QED
    BY <1>1, <2>1, <2>2, LastKeeps DEF SampleInv, LastInv, InSample
<1>4. HereInv' /\ GotInv'
  BY <1>1 DEF HereInv, GotInv, Reading
<1>5. SettledInv'
  <2>1. Wanted' = Wanted /\ (\A n : Named(n)' = Named(n)) /\ Sure' = Sure
    BY <1>1, ListFrame DEF Sure
  <2>2. \A i \in DOMAIN Wanted : Reread(i)' => Reread(i)
    BY <1>1, <1>2, <2>1 DEF Reread
  <2>3. \A i \in DOMAIN Wanted :
          ~dark' /\ AtBattery(Wanted[i]) /\ Reread(i)' => Settled(Named(Wanted[i]).rom)'
    BY <1>1, <2>1, <2>2 DEF SampleInv, SettledInv, Settled, Named, InSample
  <2> QED
    BY <1>1, <2>3, SettledKeeps
<1>6. KeptInv'
  <2>1. Kept' = Kept /\ Wanted' = Wanted /\ \A i : UpTo(Dues, i)' = UpTo(Dues, i)
    BY <1>1, KeptSame, DueFrame
  <2>2. Counts => next - 1 <= Len(Wanted) /\ Kept = UpTo(Dues, next - 1)
    BY <1>1 DEF SampleInv, KeptInv, Half
  <2>3. Counts => next - 1 = Len(Wanted)
    <3>1. next \in Nat \ {0} /\ DOMAIN Wanted = 1..Len(Wanted) /\ Len(Wanted) \in Nat
      BY DuesTyped DEF Placed, DiskOK, SampleOK
    <3> QED
      BY <1>1, <2>2, <3>1
  <2>4. Counts => Kept' = UpTo(Dues, Len(Wanted))
    BY <2>1, <2>2, <2>3
  <2>5. UpTo(Dues, Len(Wanted))' = UpTo(Dues, Len(Wanted))
    BY <2>1 DEF UpTo
  <2> QED
    BY <1>1, <2>4, <2>5 DEF KeptInv, Counts, Reading
<1> QED
  BY <1>3, <1>4, <1>5, <1>6 DEF SampleInv

LEMMA SampleLeaves == ASSUME Placed, SampleInv, NextSample PROVE SampleInv'
<1>1. /\ pc = "rowEnd" /\ pc' \in {"round", "leave"}
      /\ UNCHANGED <<place, branch, chip, list, opt, calm, bad, dark, Last2409, next, row>>
  BY DEF NextSample, Goto, net, lists, fault
<1>2. LastInv'
  <2>1. Right' <=> Right
    BY <1>1 DEF Right
  <2>2. \A i \in DOMAIN Wanted : Awaited(i) => Awaited(i)'
    BY <1>1 DEF Awaited, Reading
  <2> QED
    BY <1>1, <2>1, <2>2, LastKeeps DEF SampleInv, LastInv, InSample
<1>3. HereInv' /\ GotInv' /\ KeptInv'
  BY <1>1 DEF HereInv, GotInv, KeptInv, Reading
<1>4. SettledInv'
  <2>1. Wanted' = Wanted /\ (\A n : Named(n)' = Named(n)) /\ Sure' = Sure
    BY <1>1, ListFrame DEF Sure
  <2>2. \A i \in DOMAIN Wanted : Reread(i)' => Reread(i)
    BY <1>1, <2>1 DEF Reread
  <2>3. \A i \in DOMAIN Wanted :
          ~dark' /\ AtBattery(Wanted[i]) /\ Reread(i)' => Settled(Named(Wanted[i]).rom)'
    BY <1>1, <2>1, <2>2 DEF SampleInv, SettledInv, Settled, Named, InSample
  <2> QED
    BY <1>1, <2>3, SettledKeeps
<1> QED
  BY <1>2, <1>3, <1>4 DEF SampleInv

-----------------------------------------------------------------------------
(* The sensor is chosen and, if it has to be, connected.                    *)

Skips(n) == NextSensor /\ (InList(n) /\ There(Named(n)) => Kind[Named(n).rom] \in Silent)
Starts(n) ==
  /\ pc' \in Reading /\ UNCHANGED <<next, reading>>
  /\ InList(n) => pc' = FirstStep(Named(n).rom)

LEMMA SilentKinds ==
  ASSUME NEW r \in Roms, FirstStep(r) = "select"
  PROVE  Kind[r] \in Silent
<1>1. Kind[r] \in Kinds
  BY NetAssumption
<1> QED
  BY <1>1 DEF FirstStep, Silent, Kinds

LEMMA Unreached ==
  ASSUME NEW n, InList(n), Named(n) \in Entries, Named(n).line # "lan", ~Reached(Named(n).hub)
  PROVE  ~There(Named(n)) /\ ~On(Named(n).hub)
<1>1. Named(n).hub \in Couplers
  BY EntriesAre
<1>2. ~On(Named(n).hub)
  BY <1>1 DEF Reached
<1> QED
  BY <1>2 DEF There, Behind

LEMMA SelectFine ==
  ASSUME Placed, Select, ~Fails, NEW n, n = Wanted[next]
  PROVE  /\ pc = "select" /\ next \in DOMAIN Wanted
         /\ UNCHANGED <<place, chip, list, opt, row, calm, bad, dark>>
         /\ Skips(n) \/ Starts(n)
<1>1. SelectStep /\ n \in Nat
  BY SelectIs
<1>2. pc = "select" /\ next \in DOMAIN Wanted /\ UNCHANGED <<place, chip, list, opt, row>>
  BY <1>1 DEF SelectStep
<1>3. InList(n) => Named(n) \in Entries /\ Named(n).rom \in Roms
  BY <1>1, NamedTyped DEF Placed, DiskOK
<1>4. ASSUME NEW r, Read(r), InList(n) => r = Named(n).rom
      PROVE  Skips(n) \/ Starts(n)
  <2>1. CASE NextSensor /\ FirstStep(r) = "select"
    BY <1>3, <1>4, <2>1, SilentKinds DEF Skips
  <2>2. CASE pc' = FirstStep(r) /\ pc' # "select" /\ UNCHANGED <<next, reading>>
    <3>1. pc' \in Reading
      BY <2>2, ReadFirst
    <3> QED
      BY <1>4, <2>2, <3>1 DEF Starts
  <2> QED
    BY <1>4, <2>1, <2>2, ReadGoes
<1>5. CASE n >= Len(Flat(list)) /\ Read(serial) /\ UNCHANGED <<branch, serial, Last2409, fault>>
  <2>1. ~InList(n)
    <3>1. Flat(list) \in Seq(Entries)
      BY FlatIs DEF Placed, DiskOK
    <3>2. Len(Flat(list)) \in Nat
      BY <3>1
    <3> QED
      BY <1>1, <1>5, <3>2 DEF InList
  <2> QED
    BY <1>2, <1>4, <1>5, <2>1 DEF fault
<1>6. ASSUME NEW e, e = Named(n), InList(n), e \in Entries,
             \/ Connected(e) /\ serial' = e.rom /\ Read(e.rom) /\ UNCHANGED <<branch, Last2409, fault>>
             \/ /\ ~Connected(e) /\ Switched(e.hub, e.line) /\ Last2409' = [hub |-> e.hub, line |-> e.line]
                /\ serial' = e.rom /\ Read(e.rom)
             \/ ~Connected(e) /\ NotSwitched(e.hub, e.line) /\ NextSensor /\ UNCHANGED <<serial, Last2409>>
      PROVE  UNCHANGED fault /\ (Skips(n) \/ Starts(n))
  <2>1. CASE Connected(e) /\ serial' = e.rom /\ Read(e.rom) /\ UNCHANGED <<branch, Last2409, fault>>
    BY <1>4, <1>6, <2>1
  <2>2. CASE /\ ~Connected(e) /\ Switched(e.hub, e.line) /\ Last2409' = [hub |-> e.hub, line |-> e.line]
             /\ serial' = e.rom /\ Read(e.rom)
    BY <1>4, <1>6, <2>2 DEF Switched, Fine
  <2>3. CASE ~Connected(e) /\ NotSwitched(e.hub, e.line) /\ NextSensor /\ UNCHANGED <<serial, Last2409>>
    <3>1. Fine /\ ~Reached(e.hub) /\ e.line # "lan"
      BY <2>3 DEF NotSwitched, Connected
    <3>2. ~There(Named(n))
      BY <1>6, <3>1, Unreached
    <3> QED
      BY <2>3, <3>1, <3>2 DEF Skips, Fine
  <2> QED
    BY <1>6, <2>1, <2>2, <2>3
<1>7. UNCHANGED fault /\ (Skips(n) \/ Starts(n))
  <2>1. n >= Len(Flat(list)) /\ Read(serial) /\ UNCHANGED <<branch, serial, Last2409, fault>>
        => UNCHANGED fault /\ (Skips(n) \/ Starts(n))
    BY <1>5
  <2> QED
    BY <1>1, <1>6, <2>1 DEF SelectStep
<1> QED
  BY <1>2, <1>7 DEF fault

\* A coupler is told, or what is remembered stays; if that is not what is connected, its
\* sensor is still to come.
LEMMA SelectLast == ASSUME Placed, LastInv, Select PROVE LastInv'
<1>1. PICK n : n = Wanted[next]
  OBVIOUS
<1>2. SelectStep /\ n \in Nat
  BY <1>1, SelectIs
<1>3. pc = "select" /\ next \in DOMAIN Wanted /\ UNCHANGED <<place, list, opt>>
  BY <1>2 DEF SelectStep
<1>4. (pc' \in Reading /\ next' = next) \/ (pc' = "select" /\ next' = next + 1)
  <2>1. ASSUME NEW r, Read(r) PROVE <1>4!:
    <3>1. CASE pc' = FirstStep(r) /\ pc' # "select" /\ UNCHANGED <<next, reading>>
      BY <3>1, ReadFirst
    <3> QED
      BY <2>1, <3>1, ReadGoes DEF NextSensor, Goto
  <2> QED
    BY <1>2, <2>1 DEF SelectStep, NextSensor, Goto
<1>5. Wanted' = Wanted
  BY <1>3, ListFrame
<1>6. next \in Nat \ {0} /\ DOMAIN Wanted \subseteq Nat
  <2>1. DOMAIN Wanted = 1..Len(Wanted) /\ Len(Wanted) \in Nat
    BY DuesTyped DEF Placed, DiskOK
  <2> QED
    BY <2>1 DEF Placed, SampleOK
\* Nothing is told, and this is not the sensor that is waited for.
<1>7. ASSUME UNCHANGED <<branch, Last2409, fault>>, ~Stale(n)
      PROVE  LastInv'
  <2>1. Right' <=> Right
    BY <1>7 DEF Right
  <2>2. \A i \in DOMAIN Wanted : i = next \/ (Awaited(i) => Awaited(i)')
    BY <1>3, <1>4, <1>6, <1>7 DEF Awaited, fault, Reading
  <2>3. ASSUME ~dark, ~Right
        PROVE  bad /\ \E i \in DOMAIN Wanted : Stale(Wanted[i]) /\ Awaited(i)'
    <3>1. bad /\ \E i \in DOMAIN Wanted : Stale(Wanted[i]) /\ Awaited(i)
      BY <1>3, <2>3 DEF LastInv, InSample
    <3> QED
      BY <1>1, <1>7, <2>2, <3>1
  <2> QED
    BY <1>3, <1>7, <2>1, <2>3, LastKeeps DEF fault
<1>8. CASE n >= Len(Flat(list)) /\ Read(serial) /\ UNCHANGED <<branch, serial, Last2409, fault>>
  <2>1. ~InList(n)
    <3>1. Flat(list) \in Seq(Entries)
      BY FlatIs DEF Placed, DiskOK
    <3>2. Len(Flat(list)) \in Nat
      BY <3>1
    <3> QED
      BY <1>2, <1>8, <3>2 DEF InList
  <2> QED
    BY <1>7, <1>8, <2>1 DEF Stale
<1>9. ASSUME NEW e, e = Named(n), InList(n), e \in Entries,
             \/ Connected(e) /\ serial' = e.rom /\ Read(e.rom) /\ UNCHANGED <<branch, Last2409, fault>>
             \/ /\ ~Connected(e) /\ Switched(e.hub, e.line) /\ Last2409' = [hub |-> e.hub, line |-> e.line]
                /\ serial' = e.rom /\ Read(e.rom)
             \/ ~Connected(e) /\ NotSwitched(e.hub, e.line) /\ NextSensor /\ UNCHANGED <<serial, Last2409>>
      PROVE  LastInv'
  <2>1. CASE Connected(e) /\ UNCHANGED <<branch, Last2409, fault>>
    <3>1. e.line = "lan" \/ e.line = Last2409.line
      BY <2>1 DEF Connected
    <3> QED
      BY <1>7, <1>9, <2>1, <3>1 DEF Stale
  <2>2. e.line # "lan" => e.hub \in Couplers
    BY <1>9, EntriesAre
  <2>3. branch \in [Couplers -> {"off", "main", "aux"}]
    BY DEF Placed, NetTypeOK
  <2>4. CASE ~Connected(e) /\ Switched(e.hub, e.line) /\ Last2409' = [hub |-> e.hub, line |-> e.line]
    <3>1. branch'[e.hub] = e.line
      BY <2>2, <2>3, <2>4 DEF Connected, Switched
    <3>2. Right'
      BY <2>4, <3>1 DEF Right
    <3> QED
      BY <3>2 DEF LastInv
  <2>5. CASE ~Connected(e) /\ NotSwitched(e.hub, e.line) /\ UNCHANGED Last2409
    <3>1. CASE Fine /\ ~Reached(e.hub) /\ UNCHANGED branch
      <4>1. e.line # "lan"
        BY <2>5 DEF Connected
      <4>2. ~On(e.hub)
        BY <1>9, <3>1, <4>1, Unreached
      <4> QED
        BY <1>7, <1>9, <2>5, <3>1, <4>2 DEF Stale, Fine
    <3>2. CASE Fails /\ branch' \in {branch} \cup
                 (IF Reached(e.hub) THEN {[branch EXCEPT ![e.hub] = e.line]} ELSE {})
      <4>1. calm' = 0 /\ bad' /\ dark' = dark
        BY <3>2 DEF Fails
      <4>2. \A i : Awaited(i)'
        BY <4>1 DEF Awaited
      <4>3. ASSUME ~dark, ~Right
            PROVE  \E i \in DOMAIN Wanted : Stale(Wanted[i])
        BY <1>3, <4>3 DEF LastInv, InSample
      <4>4. ASSUME ~Right', Right
            PROVE  Stale(n)
        <5>1. e.line # "lan"
          BY <2>5 DEF Connected
        <5>2. Last2409' = Last2409 /\ Last2409 # Unknown
          BY <2>5, <4>4 DEF Right
        <5>3. branch'[Last2409.hub] # Last2409.line /\ branch[Last2409.hub] = Last2409.line
          BY <4>4, <5>2 DEF Right
        <5>4. Reached(e.hub) /\ branch' = [branch EXCEPT ![e.hub] = e.line]
          BY <3>2, <5>3
        <5>5. Last2409.hub \in Couplers
          BY <5>2 DEF Placed, SampleOK, Branches
        <5>6. e.hub = Last2409.hub
          BY <2>3, <5>3, <5>4, <5>5
        <5>7. e.line # Last2409.line
          BY <2>3, <5>3, <5>4, <5>5, <5>6
        <5> QED
          BY <1>9, <5>1, <5>4, <5>6, <5>7 DEF Stale, Reached
      <4>5. ~dark' /\ ~Right' => bad' /\ \E i \in DOMAIN Wanted : Stale(Wanted[i]) /\ Awaited(i)'
        BY <1>1, <1>3, <4>1, <4>2, <4>3, <4>4
      <4> QED
        BY <1>3, <2>5, <4>5, LastKeeps
    <3> QED
      BY <2>5, <3>1, <3>2 DEF NotSwitched
  <2> QED
    BY <1>9, <2>1, <2>4, <2>5
<1>10. n >= Len(Flat(list)) /\ Read(serial) /\ UNCHANGED <<branch, serial, Last2409, fault>> => LastInv'
  BY <1>8
<1> QED
  BY <1>1, <1>2, <1>9, <1>10 DEF SelectStep

LEMMA VisibleThen ==
  ASSUME UNCHANGED place, NEW e \in Entries, There(e), e.line = "lan" \/ branch'[e.hub] = e.line
  PROVE  e.rom \in Visible'
<1>1. e.rom \in Roms
  BY EntriesAre
<1>2. CASE e.line = "lan"
  BY <1>1, <1>2 DEF There, On, Visible
<1>3. CASE e.line # "lan"
  <2>1. e.hub \in Couplers /\ branch'[e.hub] = e.line /\ e.line # "off"
    BY <1>3, EntriesAre
  <2>2. e.rom \in Behind(e.hub, e.line)
    BY <1>3 DEF There
  <2>3. e.rom \in Behind(e.hub, branch[e.hub])'
    BY <2>1, <2>2 DEF Behind, On
  <2> QED
    BY <2>1, <2>3 DEF Visible
<1> QED
  BY <1>2, <1>3

LEMMA SelectHere == ASSUME Placed, LastInv, Select, ~Fails PROVE HereInv'
<1>1. PICK n : n = Wanted[next]
  OBVIOUS
<1>2. /\ pc = "select" /\ next \in DOMAIN Wanted
      /\ UNCHANGED <<place, chip, list, opt, row, calm, bad, dark>>
      /\ Skips(n) \/ Starts(n)
  BY <1>1, SelectFine
<1>3. SelectStep /\ n \in Nat
  BY <1>1, SelectIs
<1>4. ASSUME Starts(n), Counts, Sure >= 1, InList(n), There(Named(n))
      PROVE  Here'
  <2>1. PICK e : e = Named(n)
    OBVIOUS
  <2>2. e \in Entries
    BY <1>3, <1>4, <2>1, NamedTyped DEF Placed, DiskOK
  <2>3. next' = next /\ pc' \in Reading
    BY <1>4 DEF Starts
  <2>4. ASSUME serial' = e.rom, e.line = "lan" \/ branch'[e.hub] = e.line
        PROVE  Here'
    BY <1>2, <1>4, <2>1, <2>2, <2>4, VisibleThen DEF Here
  <2>5. branch \in [Couplers -> {"off", "main", "aux"}] /\ (e.line # "lan" => e.hub \in Couplers)
    BY <2>2, EntriesAre DEF Placed, NetTypeOK
  <2>6. CASE Connected(e) /\ serial' = e.rom /\ UNCHANGED branch
    <3>1. CASE e.line = "lan"
      BY <2>4, <2>6, <3>1
    <3>2. CASE e.line # "lan"
      <4>1. Last2409.hub = e.hub /\ Last2409.line = e.line
        BY <2>6, <3>2 DEF Connected
      <4>2. Last2409 # Unknown
        BY <2>2, <4>1, EntriesAre DEF Unknown
      <4>3. Right
        <5>1. CASE ~Right
          <6>1. bad /\ \E i \in DOMAIN Wanted : Awaited(i)
            BY <1>2, <1>4, <5>1 DEF LastInv, InSample, Counts
          <6>2. bad /\ (calm = 0 \/ calm = 1)
            BY <6>1 DEF Awaited
          <6>3. Sure = -1 \/ Sure = 0
            BY <6>2 DEF Sure
          <6> QED
            BY <1>4, <6>3
        <5> QED
          BY <5>1
      <4> QED
        BY <2>4, <2>6, <4>1, <4>2, <4>3 DEF Right
    <3> QED
      BY <3>1, <3>2
  <2>7. CASE ~Connected(e) /\ Switched(e.hub, e.line) /\ serial' = e.rom
    <3>1. branch'[e.hub] = e.line
      BY <2>5, <2>7 DEF Connected, Switched
    <3> QED
      BY <2>4, <2>7, <3>1
  <2>8. CASE NextSensor
    BY <2>3, <2>8 DEF NextSensor, Goto, Reading
  <2>9. ~(n >= Len(Flat(list)))
    <3>1. Flat(list) \in Seq(Entries)
      BY FlatIs DEF Placed, DiskOK
    <3>2. Len(Flat(list)) \in Nat
      BY <3>1
    <3> QED
      BY <1>3, <1>4, <3>2 DEF InList
  <2> QED
    BY <1>1, <1>3, <2>1, <2>6, <2>7, <2>8, <2>9 DEF SelectStep
<1>5. pc' \in Reading => Starts(n)
  BY <1>2 DEF Skips, NextSensor, Goto, Reading
<1>6. Wanted' = Wanted /\ Sure' = Sure
  BY <1>2, DueFrame
<1>7. (InList(n)' <=> InList(n)) /\ (There(Named(n))' <=> There(Named(n)))
  BY <1>2, PlacesFrame
<1>8. Starts(n) => Wanted'[next'] = n
  BY <1>1, <1>6 DEF Starts
<1>9. Counts' <=> Counts
  BY <1>2 DEF Counts
<1>10. pc' \in Reading /\ Counts' /\ Sure' >= 1 /\ InList(n)' /\ There(Named(n))' => Here'
  BY <1>4, <1>5, <1>6, <1>7, <1>9
<1> QED
  BY <1>5, <1>8, <1>10 DEF HereInv, InList, There, Named

LEMMA SelectRest ==
  ASSUME Placed, SampleInv, Select, ~Fails
  PROVE  SettledInv' /\ GotInv' /\ KeptInv'
<1>1. PICK n : n = Wanted[next]
  OBVIOUS
<1>2. /\ pc = "select" /\ next \in DOMAIN Wanted
      /\ UNCHANGED <<place, chip, list, opt, row, calm, bad, dark>>
      /\ Skips(n) \/ Starts(n)
  BY <1>1, SelectFine
<1>3. /\ next \in Nat \ {0} /\ n \in Nat /\ DOMAIN Wanted = 1..Len(Wanted) /\ Len(Wanted) \in Nat
      /\ next <= Len(Wanted)
  <2>1. DOMAIN Wanted = 1..Len(Wanted) /\ Len(Wanted) \in Nat
    BY DuesTyped DEF Placed, DiskOK
  <2> QED
    BY <1>1, <1>2, <2>1, SelectIs DEF Placed, SampleOK
<1>4. Skips(n) => pc' = "select" /\ next' = next + 1
  BY DEF Skips, NextSensor, Goto
<1>5. Starts(n) => pc' \in Reading /\ pc' # "select" /\ next' = next /\ UNCHANGED <<try, seen, got>>
  BY DEF Starts, Reading, reading
<1>6. SettledInv'
  <2>1. Wanted' = Wanted /\ Sure' = Sure
    BY <1>2, DueFrame
  <2>2. ASSUME NEW i \in DOMAIN Wanted, ~dark', AtBattery(Wanted[i]), Reread(i)'
        PROVE  Reread(i)
    <3>1. i \in Nat
      BY <1>3
    <3>2. CASE Starts(n)
      BY <1>2, <1>5, <2>1, <2>2, <3>2 DEF Reread, Reading
    <3>3. CASE Skips(n)
      <4>1. i # next
        BY <1>1, <2>2, <3>3 DEF Skips, AtBattery, Silent
      <4>2. i < next + 1 => i < next
        BY <1>3, <3>1, <4>1
      <4> QED
        BY <1>2, <1>4, <2>1, <2>2, <3>3, <4>2 DEF Reread
    <3> QED
      BY <1>2, <3>2, <3>3
  <2>3. \A m : Named(m)' = Named(m)
    BY <1>2, PlacesFrame
  <2>4. \A i \in DOMAIN Wanted :
          ~dark' /\ AtBattery(Wanted[i]) /\ Reread(i)' => Settled(Named(Wanted[i]).rom)'
    BY <1>2, <2>1, <2>2, <2>3 DEF SampleInv, SettledInv, Settled, Named, InSample
  <2> QED
    BY <1>2, <2>4, SettledKeeps
<1>7. try = 0 /\ seen = {} /\ got = <<>>
  BY <1>2 DEF Placed, AtReading
<1>8. GotInv'
  <2>1. ASSUME Starts(n), IsDue(n) PROVE Progress'
    <3>1. pc' = FirstStep(Named(n).rom) /\ UNCHANGED <<try, seen, got>>
      BY <1>5, <2>1 DEF Starts, IsDue
    <3>2. pc' \in {"convert", "pio", "logger", "count", "select"}
          \/ pc' = (IF opt.ad THEN "temperature" ELSE "volts")
      BY <3>1 DEF FirstStep
    <3> QED
      BY <1>2, <1>7, <3>1, <3>2 DEF Progress, Tried
  <2>2. pc' \in Reading => Starts(n)
    BY <1>2, <1>4 DEF Reading
  <2> QED
    BY <1>1, <1>2, <1>5, <2>1, <2>2, GotKeeps
<1>9. KeptInv'
  <2>1. Kept' = Kept /\ Wanted' = Wanted /\ (\A i : UpTo(Dues, i)' = UpTo(Dues, i)) /\ (Counts' <=> Counts)
    BY <1>2, KeptSame, DueFrame DEF Counts
  <2>2. Counts => Kept = UpTo(Dues, next - 1)
    BY <1>2 DEF SampleInv, KeptInv, Half
  <2>3. next' - 1 <= Len(Wanted)'
    BY <1>2, <1>3, <1>4, <1>5, <2>1
  <2>4. Counts => Kept = UpTo(Dues, next' - 1)
    <3>1. CASE Starts(n)
      BY <1>5, <2>2, <3>1
    <3>2. CASE Skips(n)
      <4>1. ~IsDue(n)
        BY <3>2 DEF Skips, IsDue
      <4>2. UpTo(Dues, next) = UpTo(Dues, next - 1)
        BY <1>1, <1>2, <4>1, NextDues
      <4>3. next' - 1 = next
        BY <1>3, <1>4, <3>2
      <4> QED
        BY <2>2, <4>2, <4>3
    <3> QED
      BY <1>2, <3>1, <3>2
  <2>5. UpTo(Dues, next - 1)' = UpTo(Dues, next' - 1)
    BY <2>1 DEF UpTo
  <2>6. ~Half' /\ pc' # "rowEnd"
    BY <1>2, <1>4, <1>5, <1>7 DEF Half, Reading
  <2> QED
    BY <2>1, <2>3, <2>4, <2>5, <2>6 DEF KeptInv
<1> QED
  BY <1>6, <1>8, <1>9

LEMMA SampleSelect == ASSUME Placed, SampleInv, Select PROVE SampleInv'
<1>1. LastInv'
  BY SelectLast DEF SampleInv
<1>2. CASE Fails
  BY <1>1, <1>2, FailsRest DEF SampleInv
<1>3. CASE ~Fails
  BY <1>1, <1>3, SelectHere, SelectRest DEF SampleInv
<1> QED
  BY <1>2, <1>3

-----------------------------------------------------------------------------
(* A reading that is due.                                                   *)

Reads1 == Convert \/ Scratch \/ ReadLogger \/ Count \/ Pio \/ Volts \/ Temperature

Completes(n) == NextSensor /\ row' = Append(row, Fresh(n)) /\ (pc = "count" => try = 1)
GoesOn ==
  /\ pc' \in Reading /\ next' = next /\ row' = row
  /\ pc # "count" /\ pc' # "count" /\ Progress'
FirstPage(n) ==
  /\ pc = "count" /\ pc' = "count" /\ next' = next /\ try = 0 /\ try' = 1 /\ row' = Append(row, Fresh(n))

LEMMA DueHere ==
  ASSUME Placed, NameInv, SampleInv, pc \in Reading, Counts, NEW n, n = Wanted[next], IsDue(n)
  PROVE  /\ Here /\ Visible # {} /\ Progress /\ serial = Named(n).rom
         /\ Kind[serial] = "DS2438" => Settled(serial)
         /\ \A what : Log(serial, what) => what # "fresh" \/ row' = Append(row, Fresh(n))
<1>1. InList(n) /\ There(Named(n)) /\ Sure >= Needs(n)
  BY DEF IsDue
<1>2. serial = Named(n).rom
  BY <1>1 DEF NameInv
<1>3. Sure \in Int
  BY DEF Sure, Placed, FaultOK
<1>4. Sure >= 1
  BY <1>1, <1>3 DEF Needs
<1>5. Here
  BY <1>1, <1>4 DEF SampleInv, HereInv
<1>6. Visible # {}
  BY <1>5 DEF Here
<1>7. Progress
  BY DEF SampleInv, GotInv
<1>8. ASSUME Kind[serial] = "DS2438" PROVE Settled(serial)
  <2>1. AtBattery(n) /\ Sure >= 2
    BY <1>1, <1>2, <1>8 DEF AtBattery, Needs
  <2>2. next \in DOMAIN Wanted /\ Reread(next)
    BY <2>1 DEF Placed, AtReading, Reread
  <2>3. pc \in InSample /\ ~dark
    BY DEF InSample, Counts
  <2> QED
    BY <1>2, <2>1, <2>2, <2>3 DEF SampleInv, SettledInv
<1>9. \A what : Log(serial, what) => what # "fresh" \/ row' = Append(row, Fresh(n))
  BY <1>2 DEF Log, Fresh
<1> QED
  BY <1>2, <1>5, <1>6, <1>7, <1>8, <1>9

LEMMA DueThermometer ==
  ASSUME Placed, NameInv, SampleInv, Convert \/ Scratch, ~Fails, Counts, NEW n, n = Wanted[next], IsDue(n)
  PROVE  Completes(n) \/ GoesOn
<1>1. pc \in {"convert", "scratch"} /\ pc \in Reading
  BY DEF Convert, Scratch, Reading
<1>2. /\ Here /\ Visible # {} /\ Progress
      /\ \A what : Log(serial, what) => what # "fresh" \/ row' = Append(row, Fresh(n))
  BY <1>1, DueHere
<1>3. Tried /\ ~NoAccess
  BY <1>1, <1>2 DEF Progress, NoAccess
<1>4. CASE Convert
  <2>1. pc' = "scratch" /\ got' = <<"fresh">> /\ UNCHANGED <<next, try, seen, row>>
    BY <1>2, <1>3, <1>4 DEF Convert, Goto
  <2>2. Tried'
    BY <1>3, <2>1 DEF Tried
  <2> QED
    BY <1>1, <2>1, <2>2 DEF GoesOn, Progress, Reading
<1>5. CASE Scratch
  <2>1. pc = "scratch" /\ got = <<"fresh">>
    BY <1>2, <1>5 DEF Progress, Scratch
  <2>2. got[1] = "fresh"
    BY <2>1
  <2>3. CASE Log(serial, got[1]) /\ NextSensor
    BY <1>2, <2>1, <2>2, <2>3 DEF Completes
  <2>4. ASSUME NEW c \in {"glitch", "start"}, Suspect(c), UNCHANGED row,
               IF try + 1 < MAX_READ_TRIES
               THEN /\ seen' = seen \cup {c} /\ try' = try + 1 /\ got' = <<>>
                    /\ Goto("convert") /\ UNCHANGED next
               ELSE NextSensor
        PROVE  GoesOn
    <3>1. c \notin seen
      BY <2>4 DEF Suspect
    <3>2. try = 0 \/ try = 1
      BY <1>3, <2>4, <3>1 DEF Tried
    <3>3. try + 1 < MAX_READ_TRIES
      BY <3>2 DEF MAX_READ_TRIES
    <3>4. seen' = seen \cup {c} /\ try' = try + 1 /\ pc' = "convert" /\ next' = next
      BY <2>4, <3>3 DEF Goto
    <3>5. CASE try = 0
      <4>1. try' = 1 /\ seen' = {c}
        BY <1>3, <3>4, <3>5 DEF Tried
      <4> QED
        BY <2>1, <2>4, <3>4, <4>1 DEF GoesOn, Progress, Tried, Reading
    <3>6. CASE try = 1
      <4>1. try' = 2 /\ seen' = {"glitch", "start"}
        <5>1. seen \in {{"glitch"}, {"start"}}
          BY <1>3, <3>6 DEF Tried
        <5> QED
          BY <2>4, <3>1, <3>4, <3>6, <5>1
      <4> QED
        BY <2>1, <2>4, <3>4, <4>1 DEF GoesOn, Progress, Tried, Reading
    <3> QED
      BY <3>2, <3>5, <3>6
  <2> QED
    BY <1>2, <1>3, <1>5, <2>3, <2>4 DEF Scratch
<1> QED
  BY <1>4, <1>5

LEMMA DueOnce ==
  ASSUME Placed, NameInv, SampleInv, ReadLogger \/ Count \/ Pio, ~Fails, Counts,
         NEW n, n = Wanted[next], IsDue(n)
  PROVE  Completes(n) \/ FirstPage(n)
<1>1. pc \in {"logger", "count", "pio"} /\ pc \in Reading
  BY DEF ReadLogger, Count, Pio, Reading
<1>2. /\ Here /\ Visible # {} /\ Progress
      /\ \A what : Log(serial, what) => what # "fresh" \/ row' = Append(row, Fresh(n))
  BY <1>1, DueHere
<1>3. ~NoAccess
  BY <1>2 DEF NoAccess
<1>4. CASE ReadLogger
  <2>1. pc = "logger" /\ NextSensor /\ Log(serial, "fresh")
    BY <1>2, <1>3, <1>4 DEF ReadLogger
  <2> QED
    BY <1>2, <2>1 DEF Completes
<1>5. CASE Pio
  <2>1. pc = "pio" /\ NextSensor /\ Log(serial, "fresh")
    BY <1>2, <1>5 DEF Pio, Get_2800_Pio
  <2> QED
    BY <1>2, <2>1 DEF Completes
<1>6. CASE Count
  <2>1. pc = "count" /\ Log(serial, "fresh")
    BY <1>2, <1>6 DEF Count, ReadCounter
  <2>2. row' = Append(row, Fresh(n)) /\ try \in {0, 1}
    BY <1>2, <2>1 DEF Progress
  <2> QED
    BY <1>6, <2>1, <2>2 DEF Count, Completes, FirstPage
<1> QED
  BY <1>4, <1>5, <1>6

LEMMA AppendThird ==
  ASSUME NEW X, NEW s \in Seq(X), Len(s) = 2, NEW x \in X
  PROVE  Append(s, x) = <<s[1], s[2], x>>
<1>1. PICK t : t = Append(s, x)
  OBVIOUS
<1>2. t \in Seq(X) /\ Len(t) = Len(s) + 1
  BY <1>1, AppendProperties
<1>3. t[Len(s) + 1] = x
  BY <1>1, AppendProperties
<1>4. \A i \in 1..Len(s) : t[i] = s[i]
  BY <1>1, AppendProperties
<1>5. Len(t) = 3 /\ t[3] = x
  BY <1>2, <1>3
<1>6. t[1] = s[1] /\ t[2] = s[2]
  BY <1>4
<1>7. t = <<t[1], t[2], t[3]>>
  BY <1>2, <1>5
<1> QED
  BY <1>1, <1>5, <1>6, <1>7

\* Of a settled DS2438 the source is read that is wanted.
LEMMA DueBattery ==
  ASSUME Placed, NameInv, SampleInv, Volts \/ Temperature, ~Fails, Counts,
         NEW n, n = Wanted[next], IsDue(n)
  PROVE  Completes(n) \/ GoesOn
<1>1. pc \in {"volts", "temperature"} /\ pc \in Reading
  BY DEF Volts, Temperature, Reading
<1>2. /\ Here /\ Progress
      /\ Kind[serial] = "DS2438" => Settled(serial)
      /\ \A what : Log(serial, what) => what # "fresh" \/ row' = Append(row, Fresh(n))
  BY <1>1, DueHere
<1>3. Settled(serial)
  BY <1>1, <1>2, KindRead
<1>4. opt.ad \in BOOLEAN
  BY OptionAssumption DEF Placed, DiskOK
<1>5. ASSUME NEW s, BatteryEnd(s), s \in {<<"vdd", "vad", "fresh">>, <<"fresh", "vdd", "vad">>}
      PROVE  Completes(n)
  <2>1. Log(serial, "fresh") /\ NextSensor
    BY <1>2, <1>5 DEF BatteryEnd
  <2> QED
    BY <1>1, <1>2, <2>1 DEF Completes
<1>6. CASE Volts
  <2>1. pc = "volts" /\ got \in (IF opt.ad THEN {<<"fresh">>, <<"fresh", "vdd">>} ELSE {<<>>, <<"vdd">>})
    BY <1>2, <1>6 DEF Progress, Volts
  <2>2. PICK answer \in Sources \cup {"error"} :
          /\ VoltReading(answer)
          /\ IF answer = "error" /\ ~opt.ad THEN Retry("volts") /\ UNCHANGED row
             ELSE IF Len(got) = 2 THEN BatteryEnd(Append(got, answer))
             ELSE /\ got' = Append(got, answer) /\ UNCHANGED <<next, try, seen, row>>
                  /\ Goto(IF Len(got) = 1 /\ ~opt.ad THEN "temperature" ELSE "volts")
    BY <1>6 DEF Volts
  <2>3. answer = Volt(chip[serial], Source)
    BY <1>2, <2>2 DEF VoltReading
  <2>4. SetTo(chip[serial], Source) = Source
    BY <1>3 DEF SetTo, Settled
  <2>5. answer = Source /\ Source \in {"vdd", "vad"}
    BY <2>3, <2>4 DEF Volt, Source
  <2>6. Len(<<>>) = 0 /\ Len(<<"fresh">>) = 1 /\ Len(<<"vdd">>) = 1 /\ Len(<<"fresh", "vdd">>) = 2
    OBVIOUS
  <2>7. CASE got = <<>> /\ ~opt.ad
    <3>1. answer = "vdd"
      BY <2>5, <2>6, <2>7 DEF Source
    <3>2. got' = <<"vdd">> /\ pc' = "volts" /\ next' = next /\ row' = row
      BY <2>2, <2>6, <2>7, <3>1 DEF Goto
    <3>3. opt' = opt
      BY <1>6 DEF Volts, lists
    <3> QED
      BY <2>1, <2>7, <3>2, <3>3 DEF GoesOn, Progress, Reading
  <2>8. CASE got = <<"vdd">> /\ ~opt.ad
    <3>1. answer = "vad"
      BY <2>5, <2>6, <2>8 DEF Source
    <3>2. got' = <<"vdd", "vad">> /\ pc' = "temperature" /\ next' = next /\ row' = row
      BY <2>2, <2>6, <2>8, <3>1 DEF Goto
    <3>3. opt' = opt
      BY <1>6 DEF Volts, lists
    <3> QED
      BY <2>1, <2>8, <3>2, <3>3 DEF GoesOn, Progress, Reading
  <2>9. CASE got = <<"fresh">> /\ opt.ad
    <3>1. answer = "vdd"
      BY <2>5, <2>6, <2>9 DEF Source
    <3>2. got' = <<"fresh", "vdd">> /\ pc' = "volts" /\ next' = next /\ row' = row
      BY <2>2, <2>6, <2>9, <3>1 DEF Goto
    <3>3. opt' = opt
      BY <1>6 DEF Volts, lists
    <3> QED
      BY <2>1, <2>9, <3>2, <3>3 DEF GoesOn, Progress, Reading
  <2>10. CASE got = <<"fresh", "vdd">> /\ opt.ad
    <3>1. answer = "vad"
      BY <2>5, <2>6, <2>10 DEF Source
    <3>2. PICK s : s = Append(got, answer)
      OBVIOUS
    <3>3. answer # "error" /\ Len(got) = 2 /\ got[1] = "fresh" /\ got[2] = "vdd"
      BY <2>6, <2>10, <3>1
    <3>4. s = <<"fresh", "vdd", "vad">>
      <4>1. s = <<got[1], got[2], answer>>
        BY <2>2, <3>2, <3>3, AppendThird DEF Placed, ReadingOK
      <4> QED
        BY <3>1, <3>3, <4>1
    <3>5. BatteryEnd(s)
      BY <2>2, <3>2, <3>3
    <3> QED
      BY <1>5, <3>4, <3>5
  <2> QED
    BY <2>1, <2>7, <2>8, <2>9, <2>10
<1>7. CASE Temperature
  <2>1. pc = "temperature" /\ got = (IF opt.ad THEN <<>> ELSE <<"vdd", "vad">>)
    BY <1>2, <1>7 DEF Progress, Temperature
  <2>2. PICK answer \in {"fresh", "none"} :
          /\ GetTemperature(answer)
          /\ IF opt.ad THEN got' = <<answer>> /\ Goto("volts") /\ UNCHANGED <<next, try, seen, row>>
             ELSE BatteryEnd(Append(got, answer))
    BY <1>7 DEF Temperature
  <2>3. answer = "fresh"
    BY <1>2, <2>2 DEF GetTemperature
  <2>4. CASE opt.ad
    <3>1. got' = <<"fresh">> /\ pc' = "volts" /\ next' = next /\ row' = row
      BY <2>2, <2>3, <2>4 DEF Goto
    <3>2. opt' = opt
      BY <1>7 DEF Temperature, lists
    <3> QED
      BY <2>1, <2>4, <3>1, <3>2 DEF GoesOn, Progress, Reading
  <2>5. CASE ~opt.ad
    <3>1. PICK s : s = Append(got, answer)
      OBVIOUS
    <3>2. s = <<"vdd", "vad", "fresh">>
      <4>1. Len(<<"vdd", "vad">>) = 2
        OBVIOUS
      <4>2. Len(got) = 2 /\ got[1] = "vdd" /\ got[2] = "vad"
        BY <2>1, <2>5, <4>1
      <4>3. s = <<got[1], got[2], answer>>
        BY <2>2, <3>1, <4>2, AppendThird DEF Placed, ReadingOK
      <4> QED
        BY <2>3, <4>2, <4>3
    <3>3. BatteryEnd(s)
      BY <2>2, <2>5, <3>1
    <3> QED
      BY <1>5, <3>2, <3>3
  <2> QED
    BY <2>4, <2>5
<1> QED
  BY <1>6, <1>7

-----------------------------------------------------------------------------
(* The steps of a reading keep what holds while sampling.                   *)

LEMMA ReadIs == ASSUME Placed, Reads1 PROVE ReadStep
BY ConvertStep, ScratchStep, LoggerStep, CountStep, PioStep, VoltsStep, TemperatureStep DEF Reads1

LEMMA ReadNet ==
  ASSUME Placed, Reads1
  PROVE  UNCHANGED branch /\ (UNCHANGED chip \/ pc \in {"volts", "temperature"})
<1>1. CASE Convert \/ Scratch \/ ReadLogger \/ Count \/ Pio
  BY <1>1 DEF Convert, Scratch, ReadLogger, Count, Pio, net
<1>2. CASE Volts
  BY <1>2 DEF Volts, VoltReading
<1>3. CASE Temperature
  BY <1>3 DEF Temperature, GetTemperature
<1> QED
  BY <1>1, <1>2, <1>3 DEF Reads1

\* A request of a DS2438 that does not fail settles it.
LEMMA ReadSettles ==
  ASSUME Placed, Reads1, ~Fails
  PROVE  /\ \A b \in Batteries : Settled(b) => Settled(b)'
         /\ pc \in {"volts", "temperature"} /\ Here => Settled(serial)'
<1>1. CASE Convert \/ Scratch \/ ReadLogger \/ Count \/ Pio
  BY <1>1 DEF Convert, Scratch, ReadLogger, Count, Pio, net, Settled
<1>2. CASE Volts \/ Temperature
  <2>1. pc \in {"volts", "temperature"} /\ UNCHANGED serial
    BY <1>2 DEF Volts, Temperature
  <2>2. chip \in [Batteries -> [cfg : Sources, pad : Sources]] /\ serial \in Batteries
    BY <2>1, ChipTyped, KindRead
  <2>3. \/ /\ Here
           /\ \E s : chip' = [chip EXCEPT ![serial] = [pad |-> s, cfg |-> s]]
        \/ Here /\ chip' = [chip EXCEPT ![serial].pad = chip[serial].cfg]
        \/ ~Here /\ chip' = chip
    <3>1. CASE Volts
      <4>1. \E answer : VoltReading(answer)
        BY <3>1 DEF Volts
      <4> QED
        BY <4>1 DEF VoltReading
    <3>2. CASE Temperature
      <4>1. \E answer : GetTemperature(answer)
        BY <3>2 DEF Temperature
      <4> QED
        BY <4>1 DEF GetTemperature
    <3> QED
      BY <1>2, <3>1, <3>2
  <2>4. CASE ~Here /\ chip' = chip
    BY <2>4 DEF Settled
  <2>5. ASSUME NEW s, Here, chip' = [chip EXCEPT ![serial] = [pad |-> s, cfg |-> s]]
        PROVE  /\ \A b \in Batteries : Settled(b) => Settled(b)'
               /\ Settled(serial)'
    <3>1. chip'[serial] = [pad |-> s, cfg |-> s] /\ \A b \in Batteries \ {serial} : chip'[b] = chip[b]
      BY <2>2, <2>5
    <3>2. chip'[serial].pad = s /\ chip'[serial].cfg = s
      BY <3>1
    <3> QED
      BY <2>1, <3>1, <3>2 DEF Settled
  <2>6. ASSUME Here, chip' = [chip EXCEPT ![serial].pad = chip[serial].cfg]
        PROVE  /\ \A b \in Batteries : Settled(b) => Settled(b)'
               /\ Settled(serial)'
    <3>1. \A b \in Batteries \ {serial} : chip'[b] = chip[b]
      BY <2>2, <2>6
    <3>2. chip'[serial].pad = chip[serial].cfg /\ chip'[serial].cfg = chip[serial].cfg
      <4>1. chip[serial] \in [cfg : Sources, pad : Sources]
        BY <2>2
      <4>2. chip'[serial] = [chip[serial] EXCEPT !.pad = chip[serial].cfg]
        BY <2>2, <2>6
      <4> QED
        BY <4>1, <4>2
    <3> QED
      BY <2>1, <3>1, <3>2 DEF Settled
  <2> QED
    BY <2>3, <2>4, <2>5, <2>6
<1> QED
  BY <1>1, <1>2 DEF Reads1

LEMMA SampleRead == ASSUME Placed, NameInv, SampleInv, Reads1 PROVE SampleInv'
<1>1. /\ pc \in Reading /\ UNCHANGED <<list, opt, serial, Last2409, place, branch>> /\ (Fine \/ Fails)
      /\ row' = row \/ LogsOne
      /\ NextSensor \/ Stays
  BY ReadIs, ReadNet DEF ReadStep, ReadingFrame, lists
<1>2. PICK n : n = Wanted[next]
  OBVIOUS
<1>3. /\ next \in DOMAIN Wanted /\ next \in Nat \ {0} /\ n \in Nat /\ serial \in Roms
      /\ DOMAIN Wanted = 1..Len(Wanted) /\ Len(Wanted) \in Nat /\ next <= Len(Wanted)
  <2>1. /\ next \in DOMAIN Wanted /\ next \in Nat \ {0} /\ serial \in Roms
        /\ list \in Lists /\ opt \in Options
    BY <1>1 DEF Placed, AtReading, SampleOK, DiskOK
  <2>2. DOMAIN Wanted = 1..Len(Wanted) /\ Len(Wanted) \in Nat /\ Wanted[next] \in Nat
    BY <2>1, DuesTyped
  <2> QED
    BY <1>2, <2>1, <2>2
<1>4. NextSensor => pc' = "select" /\ next' = next + 1
  BY DEF NextSensor, Goto
<1>5. Stays => pc' \in Reading /\ next' = next
  BY ReadsAre DEF Stays
<1>6. "select" \notin Reading /\ "rowEnd" \notin Reading /\ "round" \notin Reading /\ Reading \subseteq InSample
  BY ReadsAre DEF Reading
<1>7. LastInv'
  <2>1. Right' <=> Right
    BY <1>1 DEF Right
  <2>2. \A i \in DOMAIN Wanted : Awaited(i) => calm = 0 \/ (calm = 1 /\ i > next)
    BY <1>1, <1>6 DEF Awaited
  <2>3. CASE Fine
    <3>1. UNCHANGED <<calm, bad, dark>>
      BY <2>3 DEF Fine, fault
    <3>2. \A i \in DOMAIN Wanted : Awaited(i) => Awaited(i)'
      BY <1>1, <1>3, <1>4, <1>5, <2>2, <3>1 DEF Awaited
    <3> QED
      BY <1>1, <1>6, <2>1, <3>1, <3>2, LastKeeps DEF SampleInv, LastInv
  <2>4. CASE Fails
    <3>1. calm' = 0 /\ bad' /\ dark' = dark
      BY <2>4 DEF Fails
    <3>2. \A i \in DOMAIN Wanted : Awaited(i)'
      BY <3>1 DEF Awaited
    <3> QED
      BY <1>1, <1>6, <2>1, <3>1, <3>2, LastKeeps DEF SampleInv, LastInv
  <2> QED
    BY <1>1, <2>3, <2>4
<1>8. CASE Fails
  BY <1>7, <1>8, FailsRest DEF SampleInv
<1>9. CASE ~Fails
  <2>1. UNCHANGED <<calm, bad, dark>>
    BY <1>1, <1>9 DEF Fine, fault
  <2>2. HereInv'
    BY <1>1, <1>4, <1>5, <1>6, <2>1, HereKeeps DEF SampleInv
  <2>3. Counts /\ IsDue(n) => Completes(n) \/ GoesOn \/ FirstPage(n)
    BY <1>2, <1>9, DueThermometer, DueOnce, DueBattery DEF Reads1
  <2>4. SettledInv'
    <3>1. Wanted' = Wanted /\ Sure' = Sure /\ (\A m : Named(m)' = Named(m))
      BY <1>1, <2>1, DueFrame, PlacesFrame
    <3>2. ASSUME NEW i \in DOMAIN Wanted, ~dark', AtBattery(Wanted[i]), Reread(i)'
          PROVE  Settled(Named(Wanted[i]).rom)'
      <4>1. PICK b : b = Named(Wanted[i]).rom
        OBVIOUS
      <4>2. Wanted[i] \in Nat
        BY <3>2, DuesTyped DEF Placed, DiskOK
      <4>3. b \in Batteries
        BY <3>2, <4>1, <4>2, NamedTyped DEF AtBattery, Batteries, Placed, DiskOK
      <4>4. Named(Wanted[i]).rom' = b
        BY <3>1, <4>1
      <4>5. CASE Reread(i)
        <5>1. Settled(b)
          BY <1>1, <1>6, <2>1, <3>2, <4>1, <4>5 DEF SampleInv, SettledInv
        <5>2. Settled(b)'
          BY <1>9, <4>3, <5>1, ReadSettles
        <5> QED
          BY <4>4, <5>2 DEF Settled
      <4>6. CASE ~Reread(i)
        <5>1. Sure = 1 /\ i = next
          <6>1. i \in Nat
            BY <1>3
          <6>2. Sure = 1 /\ pc' \notin {"rowEnd", "round"} /\ i < next' /\ ~(i < next)
            BY <1>1, <1>4, <1>5, <1>6, <3>1, <3>2, <4>6 DEF Reread
          <6>3. i < next + 1
            BY <1>1, <1>3, <1>4, <1>5, <6>1, <6>2
          <6> QED
            BY <1>3, <6>1, <6>2, <6>3
        <5>2. InList(n) /\ There(Named(n)) /\ Kind[b] = "DS2438" /\ b = Named(n).rom
          BY <1>2, <3>2, <4>1, <5>1 DEF AtBattery
        <5>3. calm > 0
          BY <5>1 DEF Sure, Placed, FaultOK
        <5>4. Counts
          BY <2>1, <3>2, <5>3 DEF Counts
        <5>5. Here
          BY <1>1, <1>2, <5>1, <5>2, <5>4 DEF SampleInv, HereInv
        <5>6. serial = b
          BY <1>1, <1>2, <5>2 DEF NameInv
        <5>7. pc \in {"volts", "temperature"}
          BY <1>1, <5>2, <5>6 DEF Placed, AtReading, Reads
        <5>8. Settled(serial)'
          BY <1>9, <5>5, <5>7, ReadSettles
        <5> QED
          BY <1>1, <4>4, <5>6, <5>8 DEF Settled
      <4> QED
        BY <4>5, <4>6
    <3> QED
      BY <1>1, <3>2, SettledKeeps
  <2>5. GotInv'
    <3>1. pc' \in Reading => next' = next
      BY <1>1, <1>4, <1>5, <1>6
    <3>2. pc' \in Reading /\ Counts /\ IsDue(n) => Progress'
      <4>1. Completes(n) => pc' \notin Reading
        BY <1>4, <1>6 DEF Completes
      <4>2. FirstPage(n) => Progress'
        BY DEF FirstPage, Progress
      <4> QED
        BY <2>3, <4>1, <4>2 DEF GoesOn
    <3> QED
      BY <1>1, <1>2, <2>1, <3>1, <3>2, GotKeeps
  <2>6. KeptInv'
    <3>1. /\ Wanted' = Wanted /\ (\A i : UpTo(Dues, i)' = UpTo(Dues, i)) /\ (Counts' <=> Counts)
          /\ (IsDue(n)' <=> IsDue(n)) /\ Fresh(n)' = Fresh(n)
      BY <1>1, <2>1, DueFrame DEF Counts
    <3>2. PICK u, x : u = UpTo(Dues, next - 1) /\ x = Fresh(n)
      OBVIOUS
    <3>3. UpTo(Dues, next) = IF ~IsDue(n) THEN u
                             ELSE IF Kind[Named(n).rom] = "DS2423" THEN Append(Append(u, x), x)
                             ELSE Append(u, x)
      BY <1>2, <1>3, <3>2, NextDues
    <3>4. Counts => Kept = IF pc = "count" /\ try = 1 /\ IsDue(n) THEN Append(u, x) ELSE u
      BY <1>1, <1>2, <3>2 DEF SampleInv, KeptInv, Half
    <3>5. /\ next' - 1 <= Len(Wanted)'
          /\ pc' # "rowEnd"
      BY <1>1, <1>3, <1>4, <1>5, <1>6, <3>1
    <3>6. Counts => Kept' = IF pc' = "count" /\ try' = 1 /\ IsDue(n) THEN Append(UpTo(Dues, next' - 1), x)
                            ELSE UpTo(Dues, next' - 1)
      <4> SUFFICES ASSUME Counts
                   PROVE  Kept' = IF pc' = "count" /\ try' = 1 /\ IsDue(n)
                                  THEN Append(UpTo(Dues, next' - 1), x) ELSE UpTo(Dues, next' - 1)
        OBVIOUS
      <4>1. NextSensor => next' - 1 = next /\ pc' # "count"
        BY <1>3, <1>4
      <4>2. next' = next => UpTo(Dues, next' - 1) = u
        BY <3>2
      <4>3. NextSensor => UpTo(Dues, next' - 1) = UpTo(Dues, next)
        BY <4>1
      <4>4. row' = Append(row, x) /\ IsDue(n) => Kept' = Append(Kept, x)
        <5>1. CASE row' = Append(row, x) /\ IsDue(n)
          <6>1. x \in Logged /\ x.n = n
            BY <1>3, <3>2, <5>1, DueIs DEF Placed, DiskOK, Fresh
          <6> QED
            BY <1>1, <2>1, <5>1, <6>1, KeptAfter
        <5> QED
          BY <5>1
      <4>5. row' = row => Kept' = Kept
        BY <1>1, <2>1, KeptSame
      <4>6. CASE ~IsDue(n)
        <5>1. Kept' = Kept
          <6>1. CASE LogsOne
            <7>1. PICK r \in Roms \cup {Zero}, what \in {"fresh", "none"} : Log(r, what)
              BY <6>1 DEF LogsOne
            <7>2. PICK e : e = [rom |-> r, n |-> n, what |-> what]
              OBVIOUS
            <7>3. e \in Logged /\ e.n = n /\ row' = Append(row, e)
              BY <1>2, <1>3, <7>1, <7>2 DEF Logged, Log
            <7> QED
              BY <1>1, <2>1, <4>6, <7>3, KeptAfter
          <6> QED
            BY <1>1, <4>5, <6>1
        <5>2. UpTo(Dues, next) = u /\ Kept = u
          BY <3>3, <3>4, <4>6
        <5> QED
          BY <1>1, <1>5, <4>2, <4>3, <4>6, <5>1, <5>2
      <4>7. CASE IsDue(n) /\ Completes(n)
        <5>1. NextSensor /\ Kept' = Append(Kept, x)
          BY <3>2, <4>4, <4>7 DEF Completes
        <5>2. serial = Named(n).rom /\ pc \in Reads(Kind[serial])
          BY <1>1, <1>2, <4>7 DEF NameInv, IsDue, Placed, AtReading
        <5>3. CASE pc = "count"
          <6>1. Kind[Named(n).rom] = "DS2423"
            BY <5>2, <5>3, KindRead
          <6>2. Kept = Append(u, x)
            BY <3>4, <4>7, <5>3 DEF Completes
          <6> QED
            BY <3>3, <4>1, <4>3, <4>7, <5>1, <6>1, <6>2
        <5>4. CASE pc # "count"
          <6>1. Kind[Named(n).rom] # "DS2423"
            BY <5>2, <5>4 DEF Reads
          <6>2. Kept = u
            BY <3>4, <5>4
          <6> QED
            BY <3>3, <4>1, <4>3, <4>7, <5>1, <6>1, <6>2
        <5> QED
          BY <5>3, <5>4
      <4>8. CASE IsDue(n) /\ GoesOn
        <5>1. Kept' = Kept /\ next' = next /\ pc # "count" /\ pc' # "count"
          BY <4>5, <4>8 DEF GoesOn
        <5> QED
          BY <3>4, <4>2, <5>1
      <4>9. CASE IsDue(n) /\ FirstPage(n)
        <5>1. /\ Kept' = Append(Kept, x) /\ next' = next /\ try = 0 /\ pc' = "count" /\ try' = 1
          BY <3>2, <4>4, <4>9 DEF FirstPage
        <5> QED
          BY <3>4, <4>2, <4>9, <5>1
      <4> QED
        BY <2>3, <4>6, <4>7, <4>8, <4>9
    <3>7. UpTo(Dues, next - 1)' = UpTo(Dues, next' - 1)
      BY <3>1 DEF UpTo
    <3>8. pc' \in Reading => Wanted'[next'] = n
      BY <1>1, <1>2, <1>4, <1>5, <1>6, <3>1
    <3>9. pc' \in Reading => Fresh(Wanted[next])' = x /\ (Half' <=> pc' = "count" /\ try' = 1 /\ IsDue(n))
      BY <3>1, <3>2, <3>8 DEF Fresh, Half, IsDue, InList, There, Named, Needs
    <3>10. pc' \notin Reading => pc' # "count" /\ ~Half'
      BY DEF Reading, Half
    <3> QED
      BY <3>1, <3>5, <3>6, <3>7, <3>9, <3>10 DEF KeptInv
  <2> QED
    BY <1>7, <2>2, <2>4, <2>5, <2>6 DEF SampleInv
<1> QED
  BY <1>8, <1>9

-----------------------------------------------------------------------------
(* What is logged is true.                                                  *)

LEMMA SampleStays ==
  Placed /\ CalmInv /\ NameInv /\ SampleInv /\ [Next]_vars => SampleInv'
<1> SUFFICES ASSUME Placed, CalmInv, NameInv, SampleInv, [Next]_vars PROVE SampleInv'
  OBVIOUS
<1>1. CASE Outside
  BY <1>1, SampleOut
<1>2. CASE NewRound
  BY <1>2, SampleNew
<1>3. CASE Select
  BY <1>3, SampleSelect
<1>4. CASE RowDone
  BY <1>4, SampleEnds
<1>5. CASE NextSample
  BY <1>5, SampleLeaves
<1>6. CASE Reads1
  BY <1>6, SampleRead
<1> QED
  BY <1>1, <1>2, <1>3, <1>4, <1>5, <1>6 DEF Next, Process, Sampling, Outside, Reads1

LEMMA SampleInit == Init => SampleInv
BY DEF Init, SampleInv, LastInv, HereInv, SettledInv, GotInv, KeptInv, InSample, Reading

LEMMA RowHolds == Placed /\ NameInv /\ SampleInv => RowsAreTrue
<1> SUFFICES ASSUME Placed, NameInv, SampleInv PROVE RowsAreTrue
  OBVIOUS
<1>1. ASSUME NEW i \in DOMAIN row, row[i].n < Len(Flat(list)), row[i].rom # Zero
      PROVE  /\ row[i].rom = Flat(list)[row[i].n + 1].rom
             /\ Kind[row[i].rom] \in {"DS1820", "DS28EA00", "DS2413", "DS2423"} => row[i].what = "fresh"
  BY <1>1 DEF NameInv, RowTrue, InList, Named
<1>2. ASSUME pc = "rowEnd", calm > 0, ~dark
      PROVE  Picked(row, {i \in DOMAIN row : Due(row[i].n) # <<>>})
               = FlattenSeq([i \in DOMAIN Wanted |-> Due(Wanted[i])])
  <2>1. Kept = UpTo(Dues, Len(Wanted))
    BY <1>2 DEF SampleInv, KeptInv, Counts
  <2>2. UpTo(Dues, Len(Wanted)) = FlattenSeq(Dues)
    BY DuesTyped, UpToStep DEF Placed, DiskOK
  <2>3. \A i \in DOMAIN row : row[i] \in Logged
    BY DEF Placed, SampleOK
  <2>4. {i \in DOMAIN row : Due(row[i].n) # <<>>} = {i \in DOMAIN row : row[i] \in DueRows}
    BY <2>3 DEF DueRows
  <2> QED
    BY <2>1, <2>2, <2>4 DEF Kept, Marked, Dues
<1> QED
  BY <1>1, <1>2 DEF RowsAreTrue

\* What is logged under a number comes from the sensor with that number in the list, or
\* is no reading at all, whatever fails; and a sample without failed requests has all
\* readings in their order, one sample after the last failure or, for a DS2438, two,
\* whatever the list, the net, the other processes before and the number of failures:
\* couplers that obey without saying so are told again, and a DS2438 that is half set is
\* read with its source, at the latest in the second sample (read_device, SetSwitch1F,
\* Volt_Reading).
THEOREM Digitemp_RowsAreTrue == Spec => []RowsAreTrue
BY Digitemp_Placed, NamesHold, SampleInit, SampleStays, RowHolds, PTL DEF Spec

=============================================================================
