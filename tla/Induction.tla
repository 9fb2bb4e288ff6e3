------------------------------- MODULE Induction -------------------------------
(***************************************************************************)
(* Induction over the natural numbers, from the least element of a set.    *)
(* The proofs about recursive functions of the other modules rest on it;   *)
(* here it shows what Only leaves of a sequence (Recency).                 *)
(***************************************************************************)
EXTENDS Integers, Recency, WellFoundedInduction, FiniteSetTheorems, TLAPS

Below == {pair \in Nat \X Nat : pair[1] < pair[2]}

\* No set of numbers is without a least one.
LEMMA BelowIsWellFounded == IsWellFoundedOn(Below, Nat)
  BY NatLessThanWellFounded DEF OpToRel, Below

\* A set that holds 0 and, with every number, the next one, holds them all.
LEMMA SetInduction ==
  ASSUME NEW S, 0 \in S, \A n \in Nat : n \in S => n + 1 \in S
  PROVE  Nat \subseteq S
  <1> DEFINE T == Nat \ S
  <1> SUFFICES ASSUME T # {} PROVE FALSE
    OBVIOUS
  <1>1. PICK x \in T : \A y \in T : <<y, x>> \notin Below
    <2>1. T \subseteq Nat
      OBVIOUS
    <2> HIDE DEF T
    <2> QED
      BY <2>1, BelowIsWellFounded, WFMin
  <1>2. x \in Nat /\ x # 0 /\ x - 1 \in Nat /\ x - 1 \in T
    OBVIOUS
  <1>3. <<x - 1, x>> \in Below
    BY <1>2 DEF Below
  <1> QED
    BY <1>1, <1>2, <1>3

\* A set of numbers that holds any holds a least one.
LEMMA LeastElement ==
  ASSUME NEW T, T \subseteq Nat, T # {}
  PROVE  \E x \in T : \A y \in T : x <= y
  <1>1. PICK x \in T : \A y \in T : <<y, x>> \notin Below
    BY BelowIsWellFounded, WFMin
  <1>2. \A y \in T : x <= y
    <2> SUFFICES ASSUME NEW y \in T, y < x PROVE FALSE
      BY <1>1
    <2>1. <<y, x>> \in Below
      BY DEF Below
    <2> QED
      BY <1>1, <2>1
  <1> QED
    BY <1>2

-----------------------------------------------------------------------------
(* Sequences without repetition                                            *)

Elements(seq) == {seq[i] : i \in DOMAIN seq}

Distinct(seq) == \A i, j \in DOMAIN seq : seq[i] = seq[j] => i = j

\* of[i] has what Only keeps of the first i of a sequence, up to n.
Keeper(found, seq, kept, i) == IF seq[i] \in kept THEN Append(found, seq[i]) ELSE found

KeptOf(of, n, seq, kept) ==
  of = [i \in 0 .. n |-> IF i = 0 THEN <<>> ELSE Keeper(of[i - 1], seq, kept, i)]

OnlySoFar(of, n, seq, kept, T) ==
  /\ of[n] \in Seq(T)
  /\ Elements(of[n]) = {seq[i] : i \in 1 .. n} \cap kept
  /\ Distinct(seq) => Distinct(of[n])

LEMMA AppendElements ==
  ASSUME NEW T, NEW seq \in Seq(T), NEW x \in T
  PROVE  /\ Append(seq, x) \in Seq(T) /\ Elements(Append(seq, x)) = Elements(seq) \cup {x}
         /\ Distinct(seq) /\ x \notin Elements(seq) => Distinct(Append(seq, x))
  <1> DEFINE more == Append(seq, x)
             n == Len(seq)
  <1>1. /\ n \in Nat /\ DOMAIN seq = 1 .. n /\ DOMAIN more = 1 .. n + 1
        /\ more[n + 1] = x /\ \A i \in 1 .. n : more[i] = seq[i]
        /\ more \in Seq(T)
    OBVIOUS
  <1> HIDE DEF more, n
  <1>2. Elements(more) = Elements(seq) \cup {x}
    <2>1. \A y \in Elements(more) : y \in Elements(seq) \cup {x}
      <3> SUFFICES ASSUME NEW i \in 1 .. n + 1 PROVE more[i] \in Elements(seq) \cup {x}
        BY <1>1 DEF Elements
      <3>1. i = n + 1 \/ i \in 1 .. n
        BY <1>1
      <3> QED
        BY <1>1, <3>1 DEF Elements
    <2>2. \A y \in Elements(seq) : y \in Elements(more)
      <3> SUFFICES ASSUME NEW i \in 1 .. n PROVE seq[i] \in Elements(more)
        BY <1>1 DEF Elements
      <3>1. i \in 1 .. n + 1
        BY <1>1
      <3> QED
        BY <1>1, <3>1 DEF Elements
    <2>3. x \in Elements(more)
      <3>1. n + 1 \in 1 .. n + 1
        BY <1>1
      <3> QED
        BY <1>1, <3>1 DEF Elements
    <2> QED
      BY <2>1, <2>2, <2>3
  <1>3. ASSUME Distinct(seq), x \notin Elements(seq) PROVE Distinct(more)
    <2> SUFFICES ASSUME NEW i \in 1 .. n + 1, NEW j \in 1 .. n + 1, more[i] = more[j] PROVE i = j
      BY <1>1 DEF Distinct
    <2>1. (i = n + 1 \/ i \in 1 .. n) /\ (j = n + 1 \/ j \in 1 .. n)
      BY <1>1
    <2>2. \A k \in 1 .. n : more[k] # x
      BY <1>1, <1>3 DEF Elements
    <2> QED
      BY <1>1, <1>3, <2>1, <2>2 DEF Distinct
  <1> QED
    BY <1>1, <1>2, <1>3 DEF more

LEMMA KeptOfExists ==
  ASSUME NEW seq, NEW kept, NEW n \in Nat
  PROVE  \E of : KeptOf(of, n, seq, kept)
  <1> DEFINE S == {k \in Nat : \E of : KeptOf(of, k, seq, kept)}
  <1>1. 0 \in S
    <2> DEFINE of == [i \in 0 .. 0 |-> <<>>]
    <2>1. KeptOf(of, 0, seq, kept)
      BY DEF KeptOf
    <2> QED
      BY <2>1
  <1>2. ASSUME NEW k \in Nat, k \in S PROVE k + 1 \in S
    <2>1. PICK of : KeptOf(of, k, seq, kept)
      BY <1>2
    <2> DEFINE more == [i \in 0 .. k + 1 |-> IF i <= k THEN of[i] ELSE Keeper(of[k], seq, kept, k + 1)]
    <2>2. \A i \in 0 .. k : of[i] = IF i = 0 THEN <<>> ELSE Keeper(of[i - 1], seq, kept, i)
      BY <2>1, Zenon DEF KeptOf
    <2>3. \A i \in 0 .. k + 1 : more[i] = IF i = 0 THEN <<>> ELSE Keeper(more[i - 1], seq, kept, i)
      BY <2>2
    <2>4. more = [i \in 0 .. k + 1 |-> more[i]]
      OBVIOUS
    <2> HIDE DEF more
    <2>5. KeptOf(more, k + 1, seq, kept)
      BY <2>3, <2>4 DEF KeptOf
    <2> QED
      BY <2>5
  <1> HIDE DEF S
  <1>3. Nat \subseteq S
    BY <1>1, <1>2, SetInduction
  <1> QED
    BY <1>3 DEF S

\* What is left of a sequence is what it has of the set, once each.
LEMMA OnlyFacts ==
  ASSUME NEW T, NEW seq \in Seq(T), NEW kept
  PROVE  /\ Only(seq, kept) \in Seq(T) /\ Elements(Only(seq, kept)) = Elements(seq) \cap kept
         /\ Distinct(seq) => Distinct(Only(seq, kept))
  <1> DEFINE of == CHOOSE of : KeptOf(of, Len(seq), seq, kept)
             last == Len(seq)
             S == {n \in Nat : n <= last => OnlySoFar(of, n, seq, kept, T)}
  <1>1. Only(seq, kept) = of[last]
    BY Zenon DEF Only, KeptOf, Keeper
  <1>2. last \in Nat /\ DOMAIN seq = 1 .. last /\ \A i \in 1 .. last : seq[i] \in T
    OBVIOUS
  <1>3. KeptOf(of, last, seq, kept)
    BY <1>2, KeptOfExists
  <1> HIDE DEF of, last
  <1>4. \A i \in 0 .. last : of[i] = IF i = 0 THEN <<>> ELSE Keeper(of[i - 1], seq, kept, i)
    BY <1>3, Zenon DEF KeptOf
  <1>5. 0 \in S
    <2>1. of[0] = <<>>
      BY <1>2, <1>4
    <2>2. <<>> \in Seq(T) /\ Elements(<<>>) = {} /\ Distinct(<<>>)
      BY DEF Elements, Distinct
    <2>3. {seq[i] : i \in 1 .. 0} = {}
      OBVIOUS
    <2>4. OnlySoFar(of, 0, seq, kept, T)
      BY <2>1, <2>2, <2>3 DEF OnlySoFar
    <2> QED
      BY <2>4
  <1>6. ASSUME NEW n \in Nat, n \in S PROVE n + 1 \in S
    <2> SUFFICES ASSUME n + 1 <= last PROVE OnlySoFar(of, n + 1, seq, kept, T)
      OBVIOUS
    <2> DEFINE x == seq[n + 1]
    <2>1. of[n] \in Seq(T) /\ OnlySoFar(of, n, seq, kept, T)
      BY <1>2, <1>6 DEF OnlySoFar
    <2>2. of[n + 1] = IF x \in kept THEN Append(of[n], x) ELSE of[n]
      BY <1>2, <1>4 DEF Keeper
    <2>3. x \in T /\ n + 1 \in 1 .. last
      BY <1>2
    <2>4. {seq[i] : i \in 1 .. n + 1} = {seq[i] : i \in 1 .. n} \cup {x}
      <3>1. 1 .. n + 1 = 1 .. n \cup {n + 1}
        OBVIOUS
      <3> QED
        BY <3>1
    <2>5. CASE x \notin kept
      BY <2>1, <2>2, <2>4, <2>5 DEF OnlySoFar
    <2>6. CASE x \in kept
      <3>1. /\ Append(of[n], x) \in Seq(T) /\ Elements(Append(of[n], x)) = Elements(of[n]) \cup {x}
            /\ Distinct(of[n]) /\ x \notin Elements(of[n]) => Distinct(Append(of[n], x))
        BY <2>1, <2>3, AppendElements
      <3>2. Distinct(seq) => x \notin Elements(of[n])
        <4> SUFFICES ASSUME Distinct(seq), NEW i \in 1 .. n, seq[i] = x PROVE FALSE
          BY <2>1 DEF OnlySoFar
        <4>1. i \in 1 .. last /\ i # n + 1
          BY <1>2
        <4> QED
          BY <1>2, <2>3, <4>1 DEF Distinct
      <3> QED
        BY <2>1, <2>2, <2>4, <2>6, <3>1, <3>2 DEF OnlySoFar
    <2> QED
      BY <2>5, <2>6
  <1> HIDE DEF S
  <1>7. Nat \subseteq S
    BY <1>5, <1>6, SetInduction
  <1>8. OnlySoFar(of, last, seq, kept, T)
    BY <1>2, <1>7 DEF S
  <1> QED
    BY <1>1, <1>2, <1>8 DEF OnlySoFar, Elements

\* As many positions as elements, and as many elements up to a position.
LEMMA DistinctCounts ==
  ASSUME NEW T, NEW seq \in Seq(T), Distinct(seq), NEW n \in 0 .. Len(seq)
  PROVE  /\ IsFiniteSet({seq[i] : i \in 1 .. n}) /\ Cardinality({seq[i] : i \in 1 .. n}) = n
         /\ IsFiniteSet(Elements(seq)) /\ Cardinality(Elements(seq)) = Len(seq)
  <1>1. ASSUME NEW k \in 0 .. Len(seq)
        PROVE  IsFiniteSet({seq[i] : i \in 1 .. k}) /\ Cardinality({seq[i] : i \in 1 .. k}) = k
    <2> DEFINE S == {seq[i] : i \in 1 .. k}
               f == [i \in 1 .. k |-> seq[i]]
    <2>1. k \in Nat /\ 1 .. k \subseteq DOMAIN seq
      BY <1>1
    <2>2. f \in Bijection(1 .. k, S)
      <3>1. f \in [1 .. k -> S]
        OBVIOUS
      <3>2. \A i, j \in 1 .. k : f[i] = f[j] => i = j
        BY <2>1 DEF Distinct
      <3>3. \A y \in S : \E i \in 1 .. k : f[i] = y
        OBVIOUS
      <3> HIDE DEF f, S
      <3> QED
        BY <3>1, <3>2, <3>3 DEF Bijection, Injection, Surjection, IsInjective
    <2>3. ExistsBijection(1 .. k, S)
      BY <2>2 DEF ExistsBijection
    <2>4. IsFiniteSet(1 .. k) /\ Cardinality(1 .. k) = k
      BY <2>1, FS_Interval
    <2> HIDE DEF S
    <2>5. IsFiniteSet(S) /\ Cardinality(S) = Cardinality(1 .. k)
      BY <2>3, <2>4, FS_Bijection
    <2> QED
      BY <2>4, <2>5 DEF S
  <1>2. Elements(seq) = {seq[i] : i \in 1 .. Len(seq)} /\ Len(seq) \in 0 .. Len(seq)
    BY DEF Elements
  <1> QED
    BY <1>1, <1>2
=============================================================================
