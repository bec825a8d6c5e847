------------------------- MODULE SequenceSetProofs --------------------------
(***************************************************************************)
(* What Sequence_Set promises, for every set and every interval.           *)
(***************************************************************************)
EXTENDS SequenceSet, TLAPS

Intervals == Int \X Int

\* The intervals that an inserted one touches lie around it without a gap:
\* joined, they are the interval from the lowest to the highest end.  At most
\* one of them reaches below a, and at most one above b.
LEMMA Ends ==
    ASSUME NEW S \in SUBSET Intervals, Canonical(S),
           NEW a \in Int, NEW b \in Int, a <= b,
           NEW T, T = Touching(S, a, b)
    PROVE  /\ LowEnd(T, a) \in Int /\ HighEnd(T, b) \in Int
           /\ LowEnd(T, a) <= a /\ b <= HighEnd(T, b)
           /\ \A i \in T : LowEnd(T, a) <= i[1] /\ i[2] <= HighEnd(T, b)
           /\ LowEnd(T, a) < a => \E i \in T : i[1] = LowEnd(T, a)
           /\ HighEnd(T, b) > b => \E i \in T : i[2] = HighEnd(T, b)
<1> USE DEF Intervals
<1>0. T \subseteq S /\ \A i \in T : i[1] \in Int /\ i[2] \in Int /\ i[1] <= i[2]
  BY DEF Touching, Canonical
<1>1. ASSUME NEW i \in T, i[1] < a, NEW j \in T
      PROVE  i[1] <= j[1]
  <2>1. i[1] \in Int /\ i[2] \in Int /\ a <= i[2] + 1
        /\ j[1] \in Int /\ j[2] \in Int /\ a <= j[2] + 1 /\ j[1] <= j[2]
    BY <1>0 DEF Touching
  <2>2. i = j \/ i[2] + 1 < j[1] \/ j[2] + 1 < i[1]
    BY <1>0 DEF Canonical
  <2> QED BY <1>1, <2>1, <2>2
<1>2. ASSUME NEW i \in T, i[2] > b, NEW j \in T
      PROVE  j[2] <= i[2]
  <2>1. i[1] \in Int /\ i[2] \in Int /\ i[1] <= b + 1
        /\ j[1] \in Int /\ j[2] \in Int /\ j[1] <= b + 1 /\ j[1] <= j[2]
    BY <1>0 DEF Touching
  <2>2. i = j \/ i[2] + 1 < j[1] \/ j[2] + 1 < i[1]
    BY <1>0 DEF Canonical
  <2> QED BY <1>2, <2>1, <2>2
<1>3. /\ LowEnd(T, a) \in Int /\ LowEnd(T, a) <= a
      /\ \A i \in T : LowEnd(T, a) <= i[1]
      /\ LowEnd(T, a) < a => \E i \in T : i[1] = LowEnd(T, a)
  <2>1. CASE \E i \in T : i[1] < a
    <3>1. PICK i \in T : i[1] < a
      BY <2>1
    <3>2. \A j \in T : i[1] <= j[1]
      BY <3>1, <1>1
    <3> DEFINE m == CHOOSE x \in T : \A j \in T : x[1] <= j[1]
    <3>3. m \in T /\ \A j \in T : m[1] <= j[1]
      BY <3>2
    <3>4. LowEnd(T, a) = m[1]
      BY <2>1 DEF LowEnd
    <3> HIDE DEF m
    <3> QED BY <1>0, <3>1, <3>3, <3>4
  <2>2. CASE ~ \E i \in T : i[1] < a
    <3>1. LowEnd(T, a) = a
      BY <2>2 DEF LowEnd
    <3> QED BY <1>0, <2>2, <3>1
  <2> QED BY <2>1, <2>2
<1>4. /\ HighEnd(T, b) \in Int /\ b <= HighEnd(T, b)
      /\ \A i \in T : i[2] <= HighEnd(T, b)
      /\ HighEnd(T, b) > b => \E i \in T : i[2] = HighEnd(T, b)
  <2>1. CASE \E i \in T : i[2] > b
    <3>1. PICK i \in T : i[2] > b
      BY <2>1
    <3>2. \A j \in T : j[2] <= i[2]
      BY <3>1, <1>2
    <3> DEFINE m == CHOOSE x \in T : \A j \in T : j[2] <= x[2]
    <3>3. m \in T /\ \A j \in T : j[2] <= m[2]
      BY <3>2
    <3>4. HighEnd(T, b) = m[2]
      BY <2>1 DEF HighEnd
    <3> HIDE DEF m
    <3> QED BY <1>0, <3>1, <3>3, <3>4
  <2>2. CASE ~ \E i \in T : i[2] > b
    <3>1. HighEnd(T, b) = b
      BY <2>2 DEF HighEnd
    <3> QED BY <1>0, <2>2, <3>1
  <2> QED BY <2>1, <2>2
<1> QED BY <1>3, <1>4

\* push() and operator= add exactly the numbers they are given: no UID gets
\* into the set of messages to be removed, or out of it, by the joining of
\* intervals.
THEOREM InsertAddsExactly ==
    ASSUME NEW S \in SUBSET Intervals, Canonical(S),
           NEW a \in Int, NEW b \in Int
    PROVE  Numbers(insert(S, a, b)) = Numbers(S) \cup (a .. b)
<1> USE DEF Intervals
<1>1. CASE a > b
  BY <1>1 DEF insert
<1>2. CASE a <= b
  <2> DEFINE T == Touching(S, a, b)
             lo == LowEnd(T, a)
             hi == HighEnd(T, b)
  <2>1. /\ lo \in Int /\ hi \in Int /\ lo <= a /\ b <= hi
        /\ \A i \in T : lo <= i[1] /\ i[2] <= hi
        /\ lo < a => \E i \in T : i[1] = lo
        /\ hi > b => \E i \in T : i[2] = hi
    BY <1>2, Ends
  <2>2. insert(S, a, b) = (S \ T) \cup {<<lo, hi>>}
    BY <1>2 DEF insert
  <2>3. \A i \in T : i[1] \in Int /\ i[2] \in Int /\ i[1] <= b + 1 /\ a <= i[2] + 1
    BY DEF Touching
  <2>4. T \subseteq S
    BY DEF Touching
  <2> HIDE DEF T, lo, hi
  <2>5. ASSUME NEW n \in Int
        PROVE  n \in lo .. hi <=> n \in a .. b \/ \E i \in T : n \in i[1] .. i[2]
    BY <1>2, <2>1, <2>3, <2>5
  <2>6. Numbers(insert(S, a, b)) = Numbers(S \ T) \cup (lo .. hi)
    <3>1. Numbers((S \ T) \cup {<<lo, hi>>}) = Numbers(S \ T) \cup (<<lo, hi>>[1] .. <<lo, hi>>[2])
      BY Zenon DEF Numbers
    <3> QED BY <2>2, <3>1
  <2>7. lo .. hi = (a .. b) \cup Numbers(T)
    <3>1. Numbers(T) \subseteq Int
      BY <2>3 DEF Numbers
    <3>2. ASSUME NEW n \in Int PROVE n \in Numbers(T) <=> \E i \in T : n \in i[1] .. i[2]
      BY Zenon DEF Numbers
    <3> QED BY <2>1, <2>5, <3>1, <3>2
  <2>8. Numbers(S) = Numbers(S \ T) \cup Numbers(T)
    BY <2>4, Zenon DEF Numbers
  <2> QED BY <2>6, <2>7, <2>8
<1> QED BY <1>1, <1>2

\* The set is kept in its shortest form, whatever the order of the UIDs.
THEOREM InsertKeepsCanonical ==
    ASSUME NEW S \in SUBSET Intervals, Canonical(S),
           NEW a \in Int, NEW b \in Int
    PROVE  insert(S, a, b) \in SUBSET Intervals /\ Canonical(insert(S, a, b))
<1> USE DEF Intervals
<1>1. CASE a > b
  BY <1>1 DEF insert
<1>2. CASE a <= b
  <2> DEFINE T == Touching(S, a, b)
             lo == LowEnd(T, a)
             hi == HighEnd(T, b)
             new == <<lo, hi>>
  <2>1. /\ lo \in Int /\ hi \in Int /\ lo <= a /\ b <= hi
        /\ lo < a => \E i \in T : i[1] = lo
        /\ hi > b => \E i \in T : i[2] = hi
    BY <1>2, Ends
  <2>2. insert(S, a, b) = (S \ T) \cup {new}
    BY <1>2 DEF insert
  <2>3. T \subseteq S
    BY DEF Touching
  <2>4. \A j \in S \ T : j[1] \in Int /\ j[2] \in Int /\ (j[1] > b + 1 \/ a > j[2] + 1)
    BY DEF Touching
  <2>5. \A i, j \in S : i = j \/ i[2] + 1 < j[1] \/ j[2] + 1 < i[1]
    BY DEF Canonical
  <2>6. \A i \in S : i[1] \in Int /\ i[2] \in Int /\ i[1] <= i[2]
    BY DEF Canonical
  <2>a. \A i \in T : i[1] <= b + 1 /\ a <= i[2] + 1
    BY DEF Touching
  <2> HIDE DEF T, lo, hi
  <2>7. ASSUME NEW j \in S \ T
        PROVE  hi + 1 < j[1] \/ j[2] + 1 < lo
    <3>0. j[1] \in Int /\ j[2] \in Int /\ j[1] <= j[2] /\ (j[1] > b + 1 \/ a > j[2] + 1)
      BY <2>4, <2>6
    <3>1. CASE j[1] > b + 1
      <4>1. CASE hi > b
        <5>1. PICK i \in T : i[2] = hi
          BY <2>1, <4>1
        <5>2. i \in S /\ i # j /\ i[1] \in Int /\ i[1] <= b + 1
          BY <2>3, <2>6, <2>a
        <5>3. i[2] + 1 < j[1] \/ j[2] + 1 < i[1]
          BY <5>2, <2>5
        <5> QED BY <1>2, <2>1, <3>0, <3>1, <5>1, <5>2, <5>3
      <4> QED BY <1>2, <2>1, <3>0, <3>1, <4>1
    <3>2. CASE a > j[2] + 1
      <4>1. CASE lo < a
        <5>1. PICK i \in T : i[1] = lo
          BY <2>1, <4>1
        <5>2. i \in S /\ i # j /\ i[2] \in Int /\ a <= i[2] + 1
          BY <2>3, <2>6, <2>a
        <5>3. i[2] + 1 < j[1] \/ j[2] + 1 < i[1]
          BY <5>2, <2>5
        <5> QED BY <1>2, <2>1, <3>0, <3>2, <5>1, <5>2, <5>3
      <4> QED BY <1>2, <2>1, <3>0, <3>2, <4>1
    <3> QED BY <3>0, <3>1, <3>2
  <2>8. new[1] = lo /\ new[2] = hi /\ new \in Intervals
    BY <2>1
  <2> HIDE DEF new
  <2>9. Canonical((S \ T) \cup {new})
    <3>1. \A i \in (S \ T) \cup {new} : i[1] <= i[2]
      BY <1>2, <2>1, <2>6, <2>8
    <3>2. ASSUME NEW i \in (S \ T) \cup {new}, NEW j \in (S \ T) \cup {new}
          PROVE  i = j \/ i[2] + 1 < j[1] \/ j[2] + 1 < i[1]
      BY <2>5, <2>7, <2>8
    <3> QED BY <3>1, <3>2 DEF Canonical
  <2> QED BY <2>2, <2>8, <2>9
<1> QED BY <1>1, <1>2
=============================================================================
