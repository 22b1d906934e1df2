------------------------------- MODULE ListLemmas -------------------------------
(***************************************************************************)
(* Facts about lists and naturals that the other proofs rest on: a list    *)
(* with an element more or less, and the bounds of a set of naturals.      *)
(***************************************************************************)
EXTENDS Integers, Sequences, SequencesExt, SequenceTheorems, FiniteSetTheorems, TLAPS

\* A list without its k-th element.
LEMMA RemoveAtElements ==
    ASSUME NEW S, NEW m \in Seq(S), NEW k \in DOMAIN m
    PROVE  /\ RemoveAt(m, k) \in Seq(S)
           /\ Len(RemoveAt(m, k)) = Len(m) - 1
           /\ \A j \in 1..(Len(m) - 1) : RemoveAt(m, k)[j] = m[IF j < k THEN j ELSE j + 1]
<1> DEFINE before == SubSeq(m, 1, k - 1)
           after == SubSeq(m, k + 1, Len(m))
<1>1. Len(m) \in Nat /\ k \in 1..Len(m)
  OBVIOUS
<1>2. before \in Seq(S) /\ Len(before) = k - 1 /\ \A j \in 1..(k - 1) : before[j] = m[j]
  BY <1>1
<1>3. /\ after \in Seq(S) /\ Len(after) = Len(m) - k
      /\ \A j \in 1..(Len(m) - k) : after[j] = m[j + k]
  BY <1>1
<1>4. RemoveAt(m, k) = before \o after
  BY DEF RemoveAt
<1> HIDE DEF before, after
<1>5. /\ before \o after \in Seq(S)
      /\ Len(before \o after) = Len(m) - 1
  BY <1>1, <1>2, <1>3
<1>6. \A j \in 1..(Len(m) - 1) : (before \o after)[j] = m[IF j < k THEN j ELSE j + 1]
  <2> TAKE j \in 1..(Len(m) - 1)
  <2>1. CASE j < k
    BY <1>1, <1>2, <1>3, <2>1
  <2>2. CASE ~(j < k)
    <3>0. j > Len(before) /\ j <= Len(before) + Len(after) /\ j \in Nat
      BY <1>1, <1>2, <1>3, <2>2
    <3>1. (before \o after)[j] = after[j - Len(before)]
      <4>1. j \in 1..(Len(before) + Len(after))
        BY <3>0
      <4>2. (before \o after)[j] =
                IF j <= Len(before) THEN before[j] ELSE after[j - Len(before)]
        BY <1>2, <1>3, <4>1, ConcatProperties
      <4>3. ~(j <= Len(before))
        BY <1>1, <1>2, <3>0
      <4>4. QED
        BY <4>2, <4>3
    <3>2. Len(before) = k - 1 /\ Len(before) + Len(after) = Len(m) - 1 /\ k \in Int /\ Len(m) \in Int
      BY <1>1, <1>2, <1>3
    <3>3. j - Len(before) \in 1..(Len(m) - k) /\ (j - Len(before)) + k = j + 1
      BY <3>0, <3>2
    <3>4. QED
      BY <1>3, <3>1, <3>3, <2>2
  <2>3. QED
    BY <2>1, <2>2
<1>7. QED
  BY <1>4, <1>5, <1>6

\* A list with e put before its k-th element.
LEMMA InsertAtElements ==
    ASSUME NEW S, NEW m \in Seq(S), NEW e \in S, NEW k \in 1..(Len(m) + 1)
    PROVE  /\ InsertAt(m, k, e) \in Seq(S)
           /\ Len(InsertAt(m, k, e)) = Len(m) + 1
           /\ \A j \in 1..(Len(m) + 1) :
                InsertAt(m, k, e)[j] = IF j < k THEN m[j] ELSE IF j = k THEN e ELSE m[j - 1]
<1> DEFINE before == SubSeq(m, 1, k - 1)
           after == SubSeq(m, k, Len(m))
           upto == before \o <<e>>
           all == upto \o after
           n == Len(m)
<1>1. n \in Nat /\ k \in 1..(n + 1)
  OBVIOUS
<1>2. before \in Seq(S) /\ Len(before) = k - 1 /\ \A j \in 1..(k - 1) : before[j] = m[j]
  BY <1>1
<1>3. /\ after \in Seq(S) /\ Len(after) = n + 1 - k
      /\ \A j \in 1..(n + 1 - k) : after[j] = m[j + k - 1]
  BY <1>1
<1>4. InsertAt(m, k, e) = all
  BY DEF InsertAt
<1> HIDE DEF before, after, n
<1>5. <<e>> \in Seq(S) /\ Len(<<e>>) = 1 /\ <<e>>[1] = e
  OBVIOUS
<1>6. /\ upto \in Seq(S) /\ Len(upto) = k
      /\ \A j \in 1..(k - 1) : upto[j] = m[j]
      /\ upto[k] = e
  <2>1. upto \in Seq(S) /\ Len(upto) = k
    BY <1>1, <1>2, <1>5
  <2>2. \A j \in 1..(k - 1) : upto[j] = m[j]
    BY <1>1, <1>2, <1>5, ConcatProperties
  <2>3. upto[k] = e
    BY <1>1, <1>2, <1>5, ConcatProperties
  <2>4. QED
    BY <2>1, <2>2, <2>3
<1> HIDE DEF upto
<1>7. all \in Seq(S) /\ Len(all) = n + 1
  <2>1. all \in Seq(S) /\ Len(all) = Len(upto) + Len(after)
    BY <1>3, <1>6, ConcatProperties
  <2>2. QED
    BY <1>1, <1>3, <1>6, <2>1
<1>8. ASSUME NEW j \in 1..(n + 1)
      PROVE  all[j] = IF j < k THEN m[j] ELSE IF j = k THEN e ELSE m[j - 1]
  <2>1. CASE j <= k
    <3>1. all[j] = upto[j]
      BY <1>1, <1>3, <1>6, <2>1, ConcatProperties
    <3>2. QED
      BY <1>1, <1>6, <2>1, <3>1
  <2>2. CASE ~(j <= k)
    <3>1. j \in 1..(Len(upto) + Len(after)) /\ j > Len(upto)
      BY <1>1, <1>3, <1>6, <2>2
    <3>2. all[j] = after[j - Len(upto)]
      BY <1>3, <1>6, <3>1, ConcatProperties
    <3>3. j - k \in 1..(n + 1 - k) /\ (j - k) + k - 1 = j - 1
      BY <1>1, <2>2
    <3>4. all[j] = after[j - k]
      BY <1>6, <3>2
    <3>5. after[j - k] = m[j - 1]
      BY <1>3, <3>3
    <3>6. ~(j < k) /\ j # k
      BY <1>1, <2>2
    <3>7. QED
      BY <3>4, <3>5, <3>6
  <2>3. QED
    BY <2>1, <2>2
<1>9. QED
  BY <1>4, <1>7, <1>8 DEF n

\* A list without its last element.
LEMMA FrontElements ==
    ASSUME NEW S, NEW m \in Seq(S), m # <<>>
    PROVE  /\ Front(m) \in Seq(S)
           /\ Len(Front(m)) = Len(m) - 1
           /\ \A j \in 1..(Len(m) - 1) : Front(m)[j] = m[j]
<1>1. Len(m) \in Nat /\ Len(m) # 0
  OBVIOUS
<1> DEFINE n == Len(m) - 1
<1>2. n \in Nat /\ n <= Len(m)
  BY <1>1
<1>3. Front(m) = SubSeq(m, 1, n)
  BY DEF Front
<1> HIDE DEF n
<1>4. /\ SubSeq(m, 1, n) \in Seq(S)
      /\ Len(SubSeq(m, 1, n)) = n
      /\ \A j \in 1..n : SubSeq(m, 1, n)[j] = m[j]
  BY <1>2
<1>5. QED
  BY <1>3, <1>4 DEF n

\* A set of naturals that is not empty has a least element.
LEMMA LeastElement ==
    ASSUME NEW T \in SUBSET Nat, T # {}
    PROVE  \E x \in T : \A y \in T : x <= y
<1>1. PICK x \in T : \A y \in T : <<y, x>> \notin OpToRel(<, Nat)
  BY WFMin, NatLessThanWellFounded
<1>2. \A y \in T : ~(y < x)
  BY <1>1 DEF OpToRel
<1>3. x \in Nat /\ \A y \in T : y \in Nat
  OBVIOUS
<1>4. \A y \in T : x <= y
  BY <1>2, <1>3
<1>5. QED
  BY <1>4

\* A set of naturals below a bound has, with 0, a greatest element.
LEMMA GreatestElement ==
    ASSUME NEW T \in SUBSET Nat, NEW b \in Nat, \A y \in T : y <= b
    PROVE  \E x \in T \cup {0} : \A y \in T : y <= x
<1> DEFINE bounds == {n \in Nat : \A y \in T : y <= n}
<1>1. PICK x \in bounds : \A y \in bounds : x <= y
  BY LeastElement
<1>2. CASE x \in T \cup {0}
  BY <1>1, <1>2
<1>3. CASE x \notin T \cup {0}
  <2>1. x - 1 \in Nat /\ \A y \in T : y <= x - 1
    BY <1>1, <1>3
  <2>2. QED
    BY <1>1, <2>1
<1>4. QED
  BY <1>2, <1>3
================================================================================
