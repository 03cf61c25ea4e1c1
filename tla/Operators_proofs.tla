-------------------------- MODULE Operators_proofs --------------------------
(***************************************************************************)
(* Theorems about operators without variables.  Intervals and recursive    *)
(* functions; the reduction map: the threads' columns are a partition of   *)
(* the rows, so every element that a thread adds above its own rows is in  *)
(* one map, once; the coordinate maps, of matrices of any size: each       *)
(* reverse map undoes its map, and one column to the right in a            *)
(* transformed row is one step along the order's direction; the internal   *)
(* matrix: whatever its path of transformations, it is what loading it in  *)
(* its order would give, with the items' points in rank order and row      *)
(* pointers that count them; the encoder: what it makes of a row stands    *)
(* for the row's elements, each once; numbers as bytes: what is written is *)
(* what is read.                                                           *)
(***************************************************************************)
EXTENDS ReductionMap, Drle, Ctl, FiniteSetTheorems, SequenceTheorems, WellFoundedInduction, TLAPS

\* A nonempty set of natural numbers has a least one.
LEMMA LeastNat ==
  ASSUME NEW S \in SUBSET Nat, S # {}
  PROVE  \E n \in S : \A m \in S : n <= m
<1> DEFINE R == OpToRel(<, Nat)
<1>1. IsWellFoundedOn(R, Nat)
  BY NatLessThanWellFounded
<1>2. \A m, n \in Nat : m < n => <<m, n>> \in R
  BY DEF OpToRel
<1> HIDE DEF R
<1>3. PICK n \in S : \A m \in S : ~(<<m, n>> \in R)
  BY Zenon, <1>1, WFMin
<1>4. \A m \in S : ~(m < n)
  BY <1>2, <1>3
<1> QED
  BY <1>3, <1>4

\* Induction: a set that has lo, and the next number of each it has before hi, has
\* all from lo to hi.
LEMMA IntervalInduction ==
  ASSUME NEW lo \in Int, NEW hi \in Int, NEW S,
         lo <= hi => lo \in S, \A n \in lo..(hi - 1) : n \in S => n + 1 \in S
  PROVE  lo..hi \subseteq S
<1> DEFINE Left == {k \in Nat : lo + k <= hi /\ lo + k \notin S}
<1>1. SUFFICES ASSUME NEW i \in lo..hi, i \notin S PROVE FALSE
  OBVIOUS
<1>2. i - lo \in Left
  BY <1>1
<1>3. PICK k \in Left : \A m \in Left : k <= m
  <2>1. Left \in SUBSET Nat /\ Left # {}
    BY <1>2
  <2> HIDE DEF Left
  <2> QED
    BY <2>1, LeastNat
<1>4. k # 0
  BY <1>3
<1>5. k - 1 \in Nat /\ k - 1 \notin Left
  BY <1>3, <1>4
<1>6. lo + (k - 1) \in S /\ lo + (k - 1) \in lo..(hi - 1)
  BY <1>3, <1>5
<1>7. (lo + (k - 1)) + 1 = lo + k
  BY <1>3
<1> QED
  BY <1>3, <1>6, <1>7

\* f takes values in S on 0..n: a first one, and the others by a rule from the one before.
Follows(f, n, S, first, rule) ==
  f \in [0..n -> S] /\ f[0] = first /\ \A i \in 1..n : f[i] = rule[<<i, f[i - 1]>>]

\* Recursion: from a first value and a rule there is a function on 0..n.
LEMMA IntervalRecursion ==
  ASSUME NEW n \in Nat, NEW S, NEW first \in S, NEW rule,
         \A i \in 1..n, s \in S : rule[<<i, s>>] \in S
  PROVE  \E f : Follows(f, n, S, first, rule)
<1> DEFINE Upto(k, f) == Follows(f, k, S, first, rule)
           Has == {k \in 0..n : \E f : Upto(k, f)}
<1>1. 0 \in Has
  <2> DEFINE f == [i \in 0..0 |-> first]
  <2>1. Upto(0, f) /\ 0 \in 0..n
    BY DEF Follows
  <2> HIDE DEF f, Upto
  <2> QED
    BY <2>1
<1>2. ASSUME NEW k \in 0..(n - 1), k \in Has PROVE k + 1 \in Has
  <2>1. PICK f : Upto(k, f)
    BY <1>2
  <2> DEFINE g == [i \in 0..(k + 1) |-> IF i = k + 1 THEN rule[<<k + 1, f[k]>>] ELSE f[i]]
  <2>2. g \in [0..(k + 1) -> S]
    BY <2>1 DEF Follows
  <2>3. g[0] = first
    BY <2>1 DEF Follows
  <2>4. ASSUME NEW i \in 1..(k + 1)
        PROVE  g[i] = rule[<<i, g[i - 1]>>]
    <3>1. CASE i = k + 1
      <4>1. g[k + 1] = rule[<<k + 1, f[k]>>] /\ g[k] = f[k] /\ i - 1 = k
        BY <3>1
      <4> HIDE DEF g
      <4> QED
        BY <3>1, <4>1
    <3>2. CASE i # k + 1
      <4>1. g[i] = f[i] /\ g[i - 1] = f[i - 1] /\ i \in 1..k
        BY <3>2
      <4> QED
        BY <2>1, <4>1 DEF Follows
    <3> QED
      BY <3>1, <3>2
  <2>5. k + 1 \in 0..n
    OBVIOUS
  <2> HIDE DEF g
  <2>6. Upto(k + 1, g)
    BY <2>2, <2>3, <2>4 DEF Follows
  <2> HIDE DEF Upto
  <2> QED
    BY <2>5, <2>6
<1> HIDE DEF Has
<1>3. 0..n \subseteq Has
  <2>1. 0 \in Int /\ n \in Int
    OBVIOUS
  <2> QED
    BY Zenon, <1>1, <1>2, <2>1, IntervalInduction
<1>4. n \in Has
  BY <1>3
<1> QED
  BY <1>4 DEF Has

-----------------------------------------------------------------------------
(***************************************************************************)
(* The recursive functions of MakeMap obey their equations.                *)
(***************************************************************************)
\* What the columns before one count is a number, and grows with the column.
LEMMA BeforeSums ==
  ASSUME NEW count \in [Rows -> Nat]
  PROVE  /\ Before(count) \in [0..NRows -> Nat]
         /\ Before(count)[0] = 0
         /\ \A j \in Rows : Before(count)[j + 1] = Before(count)[j] + count[j]
         /\ \A i, j \in 0..NRows : i <= j => Before(count)[i] <= Before(count)[j]
<1> DEFINE rule == [c \in (1..NRows) \X Nat |-> c[2] + count[c[1] - 1]]
           b == Before(count)
<1>1. NRows \in Nat /\ \A j \in 1..NRows : j - 1 \in Rows
  BY NRowsAssumption DEF Rows
<1>2. \A i \in 1..NRows, s \in Nat : rule[<<i, s>>] \in Nat
  BY <1>1
<1>3. PICK f : Follows(f, NRows, Nat, 0, rule)
  <2>1. 0 \in Nat /\ NRows \in Nat
    BY <1>1
  <2> HIDE DEF rule
  <2> QED
    BY <1>2, <2>1, IntervalRecursion
<1>4. f = [j \in 0..NRows |-> IF j = 0 THEN 0 ELSE f[j - 1] + count[j - 1]]
  <2>1. \A j \in 1..NRows : rule[<<j, f[j - 1]>>] = f[j - 1] + count[j - 1]
    BY <1>1, <1>3 DEF Follows
  <2>2. \A j \in 0..NRows : j # 0 => j \in 1..NRows
    BY <1>1
  <2> HIDE DEF rule
  <2> QED
    BY <1>3, <2>1, <2>2 DEF Follows
<1>5. b = [j \in 0..NRows |-> IF j = 0 THEN 0 ELSE b[j - 1] + count[j - 1]]
  BY <1>4 DEF Before
<1> HIDE DEF b
<1>6. b[0] = 0 /\ \A j \in Rows : b[j + 1] = b[j] + count[j]
  <2>1. 0 \in 0..NRows /\ \A j \in Rows : j + 1 \in 0..NRows /\ j + 1 # 0 /\ (j + 1) - 1 = j
    BY <1>1 DEF Rows
  <2> QED
    BY <1>5, <2>1
<1>7. b \in [0..NRows -> Nat]
  <2> DEFINE S == {j \in 0..NRows : b[j] \in Nat}
  <2>1. 0 \in S
    BY <1>1, <1>6
  <2>2. ASSUME NEW j \in 0..(NRows - 1), j \in S PROVE j + 1 \in S
    BY <1>1, <1>6, <2>2 DEF Rows
  <2> HIDE DEF S
  <2>3. 0..NRows \subseteq S
    <3>1. 0 \in Int /\ NRows \in Int
      BY <1>1
    <3> QED
      BY Zenon, <2>1, <2>2, <3>1, IntervalInduction
  <2>4. \A j \in 0..NRows : b[j] \in Nat
    BY <2>3 DEF S
  <2> QED
    BY <1>5, <2>4
<1>8. ASSUME NEW i \in 0..NRows PROVE \A j \in i..NRows : b[i] <= b[j]
  <2> DEFINE S == {j \in i..NRows : b[i] <= b[j]}
  <2>1. i \in S
    BY <1>1, <1>7
  <2>2. ASSUME NEW j \in i..(NRows - 1), j \in S PROVE j + 1 \in S
    <3>1. j \in Rows /\ j \in 0..NRows /\ j + 1 \in i..NRows /\ i \in Nat
      BY <1>1 DEF Rows
    <3>2. b[i] \in Nat /\ b[j] \in Nat /\ count[j] \in Nat /\ b[j + 1] = b[j] + count[j]
      BY <1>6, <1>7, <3>1
    <3>3. b[i] <= b[j]
      BY <2>2
    <3> QED
      BY <3>1, <3>2, <3>3
  <2> HIDE DEF S
  <2>3. i..NRows \subseteq S
    <3>1. i \in Int /\ NRows \in Int
      BY <1>1
    <3> QED
      BY Zenon, <2>1, <2>2, <3>1, IntervalInduction
  <2> QED
    BY <2>3 DEF S
<1>9. \A i, j \in 0..NRows : i <= j => b[i] <= b[j]
  BY <1>1, <1>8
<1> QED
  BY <1>6, <1>7, <1>9 DEF b

\* A thread takes its share before the columns end.
LEMMA ShareFits ==
  ASSUME NEW count \in [Rows -> Nat], NEW start \in 0..NRows, NEW k \in Nat \ {0},
         NEW limit, limit = (Before(count)[NRows] - Before(count)[start]) \div k
  PROVE  LET fits == {e \in start..NRows : Before(count)[e] - Before(count)[start] >= limit}
         IN  Min(fits) \in start..NRows /\ \A e \in fits : Min(fits) <= e
<1> DEFINE b == Before(count)
           fits == {e \in start..NRows : b[e] - b[start] >= limit}
<1>1. NRows \in Nat /\ b[NRows] \in Nat /\ b[start] \in Nat /\ b[start] <= b[NRows]
  BY BeforeSums, NRowsAssumption
<1>2. b[NRows] - b[start] >= limit /\ limit \in Nat
  <2> HIDE DEF b
  <2>1. \A m \in Nat : m \div k <= m /\ m \div k \in Nat
    OBVIOUS
  <2>2. b[NRows] - b[start] \in Nat
    BY <1>1
  <2>3. limit = (b[NRows] - b[start]) \div k
    BY DEF b
  <2> QED
    BY <2>1, <2>2, <2>3
<1>3. NRows \in fits
  BY <1>1, <1>2
<1>4. fits \in SUBSET Nat /\ fits # {}
  BY <1>1, <1>3
<1> HIDE DEF fits
<1>5. \E e \in fits : \A m \in fits : e <= m
  BY <1>4, LeastNat
<1>6. Min(fits) \in fits /\ \A m \in fits : Min(fits) <= m
  BY <1>5 DEF Min
<1> QED
  BY <1>6 DEF fits

\* The ends of the threads' columns rise from 0 to the last column's.
LEMMA EndsRise ==
  ASSUME NEW count \in [Rows -> Nat], NEW n \in Nat \ {0}
  PROVE  /\ Ends(count, n) \in [0..n -> 0..NRows]
         /\ Ends(count, n)[0] = 0 /\ Ends(count, n)[n] = NRows
         /\ \A i, j \in 0..n : i <= j => Ends(count, n)[i] <= Ends(count, n)[j]
<1> DEFINE before == Before(count)
           limit(i, start) == (before[NRows] - before[start]) \div (n - i + 1)
           fits(i, start) == {e \in start..NRows : before[e] - before[start] >= limit(i, start)}
           next(i, start) == IF i = n THEN NRows ELSE Min(fits(i, start))
           rule == [c \in (1..n) \X (0..NRows) |-> next(c[1], c[2])]
           end == Ends(count, n)
<1>1. NRows \in Nat /\ 0 \in 0..NRows /\ NRows \in 0..NRows
  BY NRowsAssumption
<1>2. \A i \in 1..n, start \in 0..NRows : next(i, start) \in start..NRows
  <2> SUFFICES ASSUME NEW i \in 1..n, NEW start \in 0..NRows PROVE next(i, start) \in start..NRows
    OBVIOUS
  <2>1. CASE i = n
    BY <1>1, <2>1
  <2>2. CASE i # n
    <3>1. n - i + 1 \in Nat \ {0}
      OBVIOUS
    <3>2. Min(fits(i, start)) \in start..NRows
      BY <3>1, ShareFits
    <3> QED
      BY <2>2, <3>2
  <2> QED
    BY <2>1, <2>2
<1> HIDE DEF next
<1>3. \A i \in 1..n, start \in 0..NRows : rule[<<i, start>>] = next(i, start)
  OBVIOUS
<1> HIDE DEF rule
<1>4. \A i \in 1..n, start \in 0..NRows : rule[<<i, start>>] \in 0..NRows
  <2>1. \A start \in 0..NRows : start..NRows \subseteq 0..NRows
    BY <1>1
  <2> QED
    BY <1>2, <1>3, <2>1
<1>5. PICK f : Follows(f, n, 0..NRows, 0, rule)
  BY <1>1, <1>4, IntervalRecursion
<1>6. f = [i \in 0..n |-> IF i = 0 THEN 0 ELSE next(i, f[i - 1])]
  <2>1. \A i \in 0..n : i # 0 => i \in 1..n /\ i - 1 \in 0..n
    OBVIOUS
  <2> QED
    BY <1>3, <1>5, <2>1 DEF Follows
<1>7. end = [i \in 0..n |-> IF i = 0 THEN 0 ELSE next(i, end[i - 1])]
  BY <1>6 DEF Ends, next
<1> HIDE DEF end
<1>8. end[0] = 0 /\ \A i \in 1..n : end[i] = next(i, end[i - 1])
  BY <1>7
<1>9. \A i \in 0..n : end[i] \in 0..NRows
  <2> DEFINE S == {i \in 0..n : end[i] \in 0..NRows}
  <2>1. 0 \in S
    BY <1>1, <1>8
  <2>2. ASSUME NEW i \in 0..(n - 1), i \in S PROVE i + 1 \in S
    <3>1. i + 1 \in 1..n /\ i + 1 \in 0..n /\ (i + 1) - 1 = i
      OBVIOUS
    <3>2. end[i + 1] \in end[i]..NRows
      BY <1>2, <1>8, <2>2, <3>1
    <3> QED
      BY <1>1, <2>2, <3>1, <3>2
  <2> HIDE DEF S
  <2>3. 0..n \subseteq S
    <3>1. 0 \in Int /\ n \in Int
      OBVIOUS
    <3> QED
      BY Zenon, <2>1, <2>2, <3>1, IntervalInduction
  <2> QED
    BY <2>3 DEF S
<1>10. \A i \in 1..n : end[i - 1] <= end[i]
  <2> SUFFICES ASSUME NEW i \in 1..n PROVE end[i - 1] <= end[i]
    OBVIOUS
  <2>1. end[i - 1] \in 0..NRows /\ end[i] = next(i, end[i - 1])
    BY <1>8, <1>9
  <2> QED
    BY <1>2, <2>1
<1>11. ASSUME NEW i \in 0..n PROVE \A j \in i..n : end[i] <= end[j]
  <2> DEFINE S == {j \in i..n : end[i] <= end[j]}
  <2>1. i \in S
    BY <1>9
  <2>2. ASSUME NEW j \in i..(n - 1), j \in S PROVE j + 1 \in S
    <3>1. j + 1 \in 1..n /\ j + 1 \in i..n /\ (j + 1) - 1 = j /\ j \in 0..n
      OBVIOUS
    <3>2. end[j] <= end[j + 1] /\ end[i] <= end[j]
      BY <1>10, <2>2, <3>1
    <3>3. end[i] \in Int /\ end[j] \in Int /\ end[j + 1] \in Int
      BY <1>9, <3>1
    <3> QED
      BY <3>1, <3>2, <3>3
  <2> HIDE DEF S
  <2>3. i..n \subseteq S
    <3>1. i \in Int /\ n \in Int
      OBVIOUS
    <3> QED
      BY Zenon, <2>1, <2>2, <3>1, IntervalInduction
  <2> QED
    BY <2>3 DEF S
<1>12. end[n] = NRows
  <2>1. n \in 1..n /\ next(n, end[n - 1]) = NRows
    BY DEF next
  <2> QED
    BY <1>8, <2>1
<1>13. end \in [0..n -> 0..NRows]
  BY <1>7, <1>9
<1>14. \A i, j \in 0..n : i <= j => end[i] <= end[j]
  BY <1>11
<1> QED
  BY <1>8, <1>12, <1>13, <1>14 DEF end

\* Each row's column is in the share of one thread.
LEMMA SharesPartition ==
  ASSUME NEW count \in [Rows -> Nat], NEW n \in Nat \ {0}
  PROVE  /\ \A i \in 1..n : Shares(count, n)[i] \subseteq Rows
         /\ \A r \in Rows : \E i \in 1..n : r \in Shares(count, n)[i]
         /\ \A i, j \in 1..n : i # j => Shares(count, n)[i] \cap Shares(count, n)[j] = {}
<1> DEFINE end == Ends(count, n)
<1> HIDE DEF end
<1>1. /\ end \in [0..n -> 0..NRows] /\ end[0] = 0 /\ end[n] = NRows
      /\ \A i, j \in 0..n : i <= j => end[i] <= end[j]
  BY EndsRise DEF end
<1>2. \A i \in 1..n : Shares(count, n)[i] = end[i - 1]..(end[i] - 1)
  BY DEF Shares, end
<1>3. \A i \in 0..n : end[i] \in Nat /\ end[i] <= NRows
  BY <1>1, NRowsAssumption
<1>4. \A i \in 1..n : end[i - 1] \in Nat /\ end[i] \in Nat /\ end[i] <= NRows
  BY <1>3
<1>5. \A i \in 1..n : Shares(count, n)[i] \subseteq Rows
  <2>1. \A a, b \in Nat : b <= NRows => a..(b - 1) \subseteq Rows
    BY NRowsAssumption DEF Rows
  <2> QED
    BY <1>2, <1>4, <2>1
<1>6. ASSUME NEW r \in Rows PROVE \E i \in 1..n : r \in Shares(count, n)[i]
  <2> DEFINE S == {i \in 1..n : r < end[i]}
  <2>1. n \in S /\ S \in SUBSET Nat
    BY <1>1, NRowsAssumption DEF Rows
  <2>2. PICK i \in S : \A m \in S : i <= m
    <3> HIDE DEF S
    <3> QED
      BY <2>1, LeastNat
  <2>3. ~(r < end[i - 1])
    <3>1. i = 1 \/ (i - 1 \in 1..n /\ ~(i <= i - 1))
      BY <2>2
    <3>2. CASE i = 1
      BY <1>1, <3>2, NRowsAssumption DEF Rows
    <3>3. CASE i - 1 \in 1..n /\ ~(i <= i - 1)
      BY <2>2, <3>3
    <3> QED
      BY <3>1, <3>2, <3>3
  <2>4. i \in 1..n /\ r \in Int /\ r < end[i] /\ end[i] \in Nat /\ end[i - 1] \in Nat
    BY <1>4, <2>2, NRowsAssumption DEF Rows
  <2>5. r \in end[i - 1]..(end[i] - 1)
    BY <2>3, <2>4
  <2> QED
    BY <1>2, <2>4, <2>5
<1>7. ASSUME NEW i \in 1..n, NEW j \in 1..n, i < j
      PROVE  Shares(count, n)[i] \cap Shares(count, n)[j] = {}
  <2>1. end[i] <= end[j - 1]
    BY <1>1, <1>7
  <2>2. end[i - 1] \in Nat /\ end[i] \in Nat /\ end[j - 1] \in Nat /\ end[j] \in Nat
    BY <1>4
  <2>3. \A a, b, c, d \in Nat : b <= c => (a..(b - 1)) \cap (c..(d - 1)) = {}
    OBVIOUS
  <2>4. (end[i - 1]..(end[i] - 1)) \cap (end[j - 1]..(end[j] - 1)) = {}
    BY <2>1, <2>2, <2>3
  <2> QED
    BY <1>2, <2>4
<1>8. \A i, j \in 1..n : i # j => i < j \/ j < i
  OBVIOUS
<1>9. \A i, j \in 1..n : i # j => Shares(count, n)[i] \cap Shares(count, n)[j] = {}
  BY <1>7, <1>8
<1> QED
  BY <1>5, <1>6, <1>9

-----------------------------------------------------------------------------
\* The list of a finite set has each of its elements once.
LEMMA ListedOnce ==
  ASSUME NEW E \in SUBSET (Int \X Int), IsFiniteSet(E)
  PROVE  /\ DOMAIN Listed(E) = 1..Cardinality(E)
         /\ \A k \in DOMAIN Listed(E) : Listed(E)[k] \in E
         /\ \A k, l \in DOMAIN Listed(E) : Listed(E)[k] = Listed(E)[l] => k = l
         /\ \A e \in E : \E k \in DOMAIN Listed(E) : Listed(E)[k] = e
<1> DEFINE Precedes(d, e) == d[2] < e[2] \/ (d[2] = e[2] /\ d[1] < e[1])
           Below(e) == {d \in E : Precedes(d, e)}
           rank(e) == Cardinality(Below(e))
           n == Cardinality(E)
<1>1. n \in Nat
  BY FS_CardinalityType
<1>2. \A d, e \in E : d # e => Precedes(d, e) \/ Precedes(e, d)
  OBVIOUS
<1>3. \A c, d, e \in E : Precedes(c, d) /\ Precedes(d, e) => Precedes(c, e)
  OBVIOUS
<1>4. \A e \in E : ~Precedes(e, e)
  OBVIOUS
<1> HIDE DEF Precedes
<1>5. \A e \in E : IsFiniteSet(Below(e)) /\ rank(e) \in Nat /\ rank(e) < n
  <2> SUFFICES ASSUME NEW e \in E
               PROVE  IsFiniteSet(Below(e)) /\ rank(e) \in Nat /\ rank(e) < n
    OBVIOUS
  <2>1. Below(e) \in SUBSET E /\ Below(e) # E
    BY <1>4
  <2> HIDE DEF Below
  <2>2. IsFiniteSet(Below(e)) /\ rank(e) <= n /\ n # rank(e)
    BY <2>1, FS_Subset
  <2>3. rank(e) \in Nat
    BY <2>2, FS_CardinalityType
  <2> QED
    BY <1>1, <2>2, <2>3
<1>6. ASSUME NEW d \in E, NEW e \in E, Precedes(d, e) PROVE rank(d) < rank(e)
  <2>1. Below(d) \in SUBSET Below(e)
    BY <1>3, <1>6
  <2>2. d \in Below(e) /\ d \notin Below(d)
    BY <1>4, <1>6
  <2>3. IsFiniteSet(Below(e)) /\ rank(d) \in Nat /\ rank(e) \in Nat
    BY <1>5
  <2> HIDE DEF Below
  <2>4. rank(d) <= rank(e) /\ rank(d) # rank(e)
    BY <2>1, <2>2, <2>3, FS_Subset
  <2> QED
    BY <2>3, <2>4
<1>7. \A e \in E : rank(e) \in Nat /\ rank(e) < n
  BY <1>5
<1> HIDE DEF Below, rank, n
<1>8. \A d, e \in E : rank(d) = rank(e) => d = e
  BY <1>2, <1>6, <1>7
<1>9. \A k \in 1..n : \E e \in E : rank(e) = k - 1
  <2> DEFINE f == [e \in E |-> rank(e) + 1]
  <2>1. f \in Injection(E, 1..n)
    <3>1. \A e \in E : f[e] = rank(e) + 1 /\ f[e] \in 1..n
      BY <1>1, <1>7
    <3>2. \A d, e \in E : f[d] = f[e] => rank(d) = rank(e)
      BY <1>7, <3>1
    <3>3. f \in [E -> 1..n]
      BY <3>1
    <3> HIDE DEF f
    <3> QED
      BY <1>8, <3>2, <3>3 DEF Injection, IsInjective
  <2>2. IsFiniteSet(1..n) /\ Cardinality(1..n) = Cardinality(E)
    BY <1>1, FS_Interval DEF n
  <2>3. f \in Surjection(E, 1..n)
    <3> HIDE DEF f
    <3> QED
      BY <2>1, <2>2, FS_Injection
  <2>4. \A k \in 1..n : \E e \in E : f[e] = k
    <3> HIDE DEF f
    <3> QED
      BY <2>3 DEF Surjection
  <2> QED
    BY <1>7, <2>4
<1>10. Listed(E) = [k \in 1..n |-> CHOOSE e \in E : rank(e) = k - 1]
  BY DEF Listed, Precedes, Below, rank, n
<1>11. \A k \in 1..n : Listed(E)[k] \in E /\ rank(Listed(E)[k]) = k - 1
  BY <1>9, <1>10
<1>12. DOMAIN Listed(E) = 1..n
  BY <1>10
<1>13. \A k, l \in 1..n : Listed(E)[k] = Listed(E)[l] => k = l
  BY <1>1, <1>11
<1>14. ASSUME NEW e \in E PROVE \E k \in 1..n : Listed(E)[k] = e
  <2>1. rank(e) + 1 \in 1..n /\ (rank(e) + 1) - 1 = rank(e)
    BY <1>1, <1>7
  <2>2. Listed(E)[rank(e) + 1] = e
    BY <1>8, <1>11, <2>1
  <2> QED
    BY <2>1, <2>2
<1> QED
  BY <1>11, <1>12, <1>13, <1>14 DEF n

\* Each element of a private vector that one of n threads adds to is in the list of
\* one thread, once, nothing else is in a list, and the elements that are added to one
\* row are in the list of the same thread.
EachOnce(lists, reach, n) ==
  /\ \A t \in 0..(n - 1) :
       /\ \E len \in Nat : DOMAIN lists[t] = 1..len
       /\ \A i, j \in DOMAIN lists[t] : lists[t][i] = lists[t][j] => i = j
       /\ \A i \in DOMAIN lists[t] :
            \E k \in 0..(n - 1) : \E r \in reach[k] : lists[t][i] = <<k, r>>
  /\ \A k \in 0..(n - 1) : \A r \in reach[k] :
       \E t \in 0..(n - 1) : \E i \in DOMAIN lists[t] : lists[t][i] = <<k, r>>
  /\ \A t, u \in 0..(n - 1) : \A i \in DOMAIN lists[t], j \in DOMAIN lists[u] :
       lists[t][i][2] = lists[u][j][2] => t = u

\* The reduction map of any threads, whatever rows above their own their parts reach,
\* has each private element that MakeMap finds in use once, in one thread's list.
THEOREM MakeMapOnce ==
  ASSUME NEW n \in Nat \ {0}, NEW reach, \A k \in 0..(n - 1) : reach[k] \in SUBSET (0..(NRows - 2))
  PROVE  EachOnce(MakeMap(reach, n), reach, n)
<1> DEFINE cpus == 0..(n - 1)
           users(j) == {k \in cpus : j - 1 \in reach[k]}
           count == [j \in Rows |-> Cardinality(users(j))]
           share(t) == Shares(count, n)[t + 1]
           E(t) == UNION {{<<k, j - 1>> : k \in users(j)} : j \in share(t)}
           map == MakeMap(reach, n)
<1>1. count \in [Rows -> Nat]
  <2>1. \A j \in Rows : users(j) \in SUBSET cpus
    OBVIOUS
  <2>2. IsFiniteSet(cpus)
    BY FS_Interval
  <2> HIDE DEF cpus, users
  <2>3. \A j \in Rows : Cardinality(users(j)) \in Nat
    BY <2>1, <2>2, FS_Subset, FS_CardinalityType
  <2> QED
    BY <2>3
<1>2. map = [t \in cpus |-> Listed(E(t))]
  BY DEF MakeMap
<1> HIDE DEF count, map
<1>3. /\ \A t \in cpus : share(t) \subseteq Rows
      /\ \A r \in Rows : \E t \in cpus : r \in share(t)
      /\ \A t, u \in cpus : t # u => share(t) \cap share(u) = {}
  <2>1. \A t \in cpus : t + 1 \in 1..n
    OBVIOUS
  <2>2. \A i \in 1..n : i - 1 \in cpus /\ (i - 1) + 1 = i
    OBVIOUS
  <2>3. \A t, u \in cpus : t # u => t + 1 # u + 1
    OBVIOUS
  <2>4. /\ \A i \in 1..n : Shares(count, n)[i] \subseteq Rows
        /\ \A r \in Rows : \E i \in 1..n : r \in Shares(count, n)[i]
        /\ \A i, j \in 1..n : i # j => Shares(count, n)[i] \cap Shares(count, n)[j] = {}
    BY <1>1, SharesPartition
  <2> HIDE DEF cpus
  <2>5. \A r \in Rows : \E t \in cpus : r \in share(t)
    <3> SUFFICES ASSUME NEW r \in Rows PROVE \E t \in cpus : r \in share(t)
      OBVIOUS
    <3>1. PICK i \in 1..n : r \in Shares(count, n)[i]
      BY <2>4
    <3>2. i - 1 \in cpus /\ r \in share(i - 1)
      BY <2>2, <3>1
    <3> QED
      BY <3>2
  <2> QED
    BY <2>1, <2>3, <2>4, <2>5
<1> HIDE DEF share
<1>4. \A t \in cpus : \A e : e \in E(t) <=> \E j \in share(t), k \in cpus : j - 1 \in reach[k] /\ e = <<k, j - 1>>
  OBVIOUS
<1>5. ASSUME NEW t \in cpus PROVE IsFiniteSet(E(t)) /\ E(t) \in SUBSET (Int \X Int)
  <2>1. E(t) \subseteq cpus \X (0..(NRows - 2))
    <3> HIDE DEF E
    <3> QED
      BY <1>4
  <2>2. IsFiniteSet(cpus) /\ IsFiniteSet(0..(NRows - 2))
    BY FS_Interval, NRowsAssumption
  <2>3. IsFiniteSet(cpus \X (0..(NRows - 2)))
    BY <2>2, FS_Product
  <2>4. IsFiniteSet(E(t))
    BY <2>1, <2>3, FS_Subset
  <2>5. cpus \X (0..(NRows - 2)) \subseteq Int \X Int
    OBVIOUS
  <2> QED
    BY <2>1, <2>4, <2>5
<1> HIDE DEF E, cpus
<1>6. \A t \in cpus : /\ DOMAIN map[t] = 1..Cardinality(E(t)) /\ Cardinality(E(t)) \in Nat
                      /\ \A k \in DOMAIN map[t] : map[t][k] \in E(t)
                      /\ \A k, l \in DOMAIN map[t] : map[t][k] = map[t][l] => k = l
                      /\ \A e \in E(t) : \E k \in DOMAIN map[t] : map[t][k] = e
  <2> SUFFICES ASSUME NEW t \in cpus
               PROVE  /\ DOMAIN map[t] = 1..Cardinality(E(t)) /\ Cardinality(E(t)) \in Nat
                      /\ \A k \in DOMAIN map[t] : map[t][k] \in E(t)
                      /\ \A k, l \in DOMAIN map[t] : map[t][k] = map[t][l] => k = l
                      /\ \A e \in E(t) : \E k \in DOMAIN map[t] : map[t][k] = e
    OBVIOUS
  <2>1. map[t] = Listed(E(t))
    BY <1>2
  <2> QED
    BY <1>5, <2>1, ListedOnce, FS_CardinalityType
<1>7. ASSUME NEW t \in cpus, NEW i \in DOMAIN map[t]
      PROVE  \E k \in cpus : \E r \in reach[k] : map[t][i] = <<k, r>> /\ r + 1 \in share(t)
  <2>1. map[t][i] \in E(t)
    BY <1>6
  <2>2. PICK j \in share(t), k \in cpus : j - 1 \in reach[k] /\ map[t][i] = <<k, j - 1>>
    BY <1>4, <2>1
  <2>3. j \in Int /\ (j - 1) + 1 = j
    BY <1>3 DEF Rows
  <2> QED
    BY <2>2, <2>3
<1>8. ASSUME NEW k \in cpus, NEW r \in reach[k]
      PROVE  \E t \in cpus : \E i \in DOMAIN map[t] : map[t][i] = <<k, r>>
  <2>1. r + 1 \in Rows /\ (r + 1) - 1 = r
    BY NRowsAssumption DEF Rows, cpus
  <2>2. PICK t \in cpus : r + 1 \in share(t)
    BY <1>3, <2>1
  <2>3. <<k, r>> \in E(t)
    BY <1>4, <2>1, <2>2
  <2> QED
    BY <1>6, <2>3
<1>9. ASSUME NEW t \in cpus, NEW u \in cpus, NEW i \in DOMAIN map[t], NEW j \in DOMAIN map[u],
             map[t][i][2] = map[u][j][2]
      PROVE  t = u
  <2>1. PICK k \in cpus : \E r \in reach[k] : map[t][i] = <<k, r>> /\ r + 1 \in share(t)
    BY <1>7
  <2>2. PICK l \in cpus : \E r \in reach[l] : map[u][j] = <<l, r>> /\ r + 1 \in share(u)
    BY <1>7
  <2> QED
    BY <1>3, <1>9, <2>1, <2>2
<1>10. \A t \in cpus : \E len \in Nat : DOMAIN map[t] = 1..len
  BY <1>6
<1>11. \A t \in cpus : \A i \in DOMAIN map[t] : \E k \in cpus : \E r \in reach[k] : map[t][i] = <<k, r>>
  BY <1>7
<1> QED
  BY <1>6, <1>8, <1>9, <1>10, <1>11 DEF EachOnce, cpus, map
-----------------------------------------------------------------------------
(***************************************************************************)
(* The coordinate maps.                                                    *)
(***************************************************************************)
Pos == Nat \ {0}

\* The matrices the transformations are used on, and an entry of one.
Matrix(nrows, ncols) == nrows \in Pos /\ ncols \in Pos
Inside(p, nrows, ncols) == p \in [y : 1..nrows, x : 1..ncols]

\* A block starts on a row (column) that is a multiple of its height (width).
BlockAligned(t, p) ==
  /\ t[1] = "BLOCK_R" => (p.y - 1) % t[2] = 0
  /\ t[1] = "BLOCK_C" => (p.x - 1) % t[2] = 0

-----------------------------------------------------------------------------
\* Transposing twice changes nothing.
LEMMA RoundTripV ==
  ASSUME NEW y \in Pos, NEW x \in Pos
  PROVE  RMapV(MapV(Point(y, x))) = Point(y, x)
  BY DEF RMapV, MapV, Point

\* The two triangles of the diagonal map are turned back separately.
LEMMA RoundTripD ==
  ASSUME NEW nrows \in Pos, NEW y \in 1..nrows, NEW x \in Pos
  PROVE  RMapD(MapD(Point(y, x), nrows), nrows) = Point(y, x)
  BY DEF RMapD, MapD, Point, Pos

\* So are those of the reverse diagonal map.
LEMMA RoundTripRD ==
  ASSUME NEW ncols \in Pos, NEW x \in 1..ncols, NEW y \in Pos
  PROVE  RMapRD(MapRD(Point(y, x), ncols), ncols) = Point(y, x)
  BY DEF RMapRD, MapRD, Point, Pos

\* Division and remainder by r recombine to the row.
LEMMA RoundTripBR ==
  ASSUME NEW r \in BlockSizes, NEW y \in Pos, NEW x \in Pos
  PROVE  RMapBR(MapBR(Point(y, x), r), r) = Point(y, x)
<1>1. r \in {1, 2, 3, 4, 5, 6, 7, 8}
  BY DEF BlockSizes
<1>2. CASE r = 1  BY <1>2 DEF RMapBR, MapBR, Point, Pos
<1>3. CASE r = 2  BY <1>3 DEF RMapBR, MapBR, Point, Pos
<1>4. CASE r = 3  BY <1>4 DEF RMapBR, MapBR, Point, Pos
<1>5. CASE r = 4  BY <1>5 DEF RMapBR, MapBR, Point, Pos
<1>6. CASE r = 5  BY <1>6 DEF RMapBR, MapBR, Point, Pos
<1>7. CASE r = 6  BY <1>7 DEF RMapBR, MapBR, Point, Pos
<1>8. CASE r = 7  BY <1>8 DEF RMapBR, MapBR, Point, Pos
<1>9. CASE r = 8  BY <1>9 DEF RMapBR, MapBR, Point, Pos
<1> QED
  BY <1>1, <1>2, <1>3, <1>4, <1>5, <1>6, <1>7, <1>8, <1>9

\* Column blocks are row blocks of the transposed matrix.
LEMMA RoundTripBC ==
  ASSUME NEW c \in BlockSizes, NEW y \in Pos, NEW x \in Pos
  PROVE  RMapBC(MapBC(Point(y, x), c), c) = Point(y, x)
<1>1. MapV(Point(y, x)) = Point(x, y)
  BY DEF MapV, Point
<1>2. RMapBR(MapBR(Point(x, y), c), c) = Point(x, y)
  BY RoundTripBR
<1> QED
  BY <1>1, <1>2 DEF RMapBC, MapBC, RMapV, MapV, Point

\* The six kinds of order.
LEMMA OrderKinds ==
  ASSUME NEW t \in IterOrders
  PROVE  \/ t = <<"HORIZONTAL", 0>> \/ t = <<"VERTICAL", 0>>
         \/ t = <<"DIAGONAL", 0>> \/ t = <<"REV_DIAGONAL", 0>>
         \/ \E r \in BlockSizes : t = <<"BLOCK_R", r>>
         \/ \E c \in BlockSizes : t = <<"BLOCK_C", c>>
  BY DEF IterOrders, HORIZONTAL, VERTICAL, DIAGONAL, REV_DIAGONAL, BLOCK_R, BLOCK_C

\* An entry is the point of its coordinates.
LEMMA InsideIsPoint ==
  ASSUME NEW nrows, NEW ncols, Matrix(nrows, ncols), NEW p, Inside(p, nrows, ncols)
  PROVE  p = Point(p.y, p.x) /\ p.y \in Pos /\ p.x \in Pos /\ p.y \in 1..nrows /\ p.x \in 1..ncols
  BY DEF Inside, Matrix, Point, Pos

\* Whatever the order, mapping an entry of a matrix of any size to the order
\* and back gives the entry: no transformation moves a nonzero.
THEOREM RoundTrip ==
  ASSUME NEW nrows, NEW ncols, Matrix(nrows, ncols),
         NEW p, Inside(p, nrows, ncols), NEW t \in IterOrders
  PROVE  RevXform(t, Xform(t, p, nrows, ncols), nrows, ncols) = p
<1>0. p = Point(p.y, p.x) /\ p.y \in Pos /\ p.x \in Pos /\ p.y \in 1..nrows /\ p.x \in 1..ncols
  BY InsideIsPoint
<1>1. nrows \in Pos /\ ncols \in Pos
  BY DEF Matrix
<1>2. CASE t = <<"HORIZONTAL", 0>>
  BY <1>0, <1>2 DEF Xform, RevXform, Point
<1>3. CASE t = <<"VERTICAL", 0>>
  BY <1>0, <1>3, RoundTripV DEF Xform, RevXform
<1>4. CASE t = <<"DIAGONAL", 0>>
  BY <1>0, <1>1, <1>4, RoundTripD DEF Xform, RevXform
<1>5. CASE t = <<"REV_DIAGONAL", 0>>
  BY <1>0, <1>1, <1>5, RoundTripRD DEF Xform, RevXform
<1>6. ASSUME NEW r \in BlockSizes, t = <<"BLOCK_R", r>>
      PROVE  RevXform(t, Xform(t, p, nrows, ncols), nrows, ncols) = p
  BY <1>0, <1>6, RoundTripBR DEF Xform, RevXform
<1>7. ASSUME NEW c \in BlockSizes, t = <<"BLOCK_C", c>>
      PROVE  RevXform(t, Xform(t, p, nrows, ncols), nrows, ncols) = p
  BY <1>0, <1>7, RoundTripBC DEF Xform, RevXform
<1> QED
  BY <1>2, <1>3, <1>4, <1>5, <1>6, <1>7, OrderKinds

-----------------------------------------------------------------------------
\* Within an aligned block of r rows, the next element in block order is one
\* column to the right in the transformed row.
LEMMA AlongBlock ==
  ASSUME NEW r \in BlockSizes, NEW y \in Pos, NEW x \in Pos, NEW k \in Nat,
         (y - 1) % r = 0
  PROVE  MapBR(Point(y + (k % r), x + (k \div r)), r)
           = Point(MapBR(Point(y, x), r).y, MapBR(Point(y, x), r).x + k)
<1>1. r \in {1, 2, 3, 4, 5, 6, 7, 8}
  BY DEF BlockSizes
<1>2. CASE r = 1  BY <1>2 DEF MapBR, Point, Pos
<1>3. CASE r = 2  BY <1>3 DEF MapBR, Point, Pos
<1>4. CASE r = 3  BY <1>4 DEF MapBR, Point, Pos
<1>5. CASE r = 4  BY <1>5 DEF MapBR, Point, Pos
<1>6. CASE r = 5  BY <1>6 DEF MapBR, Point, Pos
<1>7. CASE r = 6  BY <1>7 DEF MapBR, Point, Pos
<1>8. CASE r = 7  BY <1>8 DEF MapBR, Point, Pos
<1>9. CASE r = 8  BY <1>9 DEF MapBR, Point, Pos
<1> QED
  BY <1>1, <1>2, <1>3, <1>4, <1>5, <1>6, <1>7, <1>8, <1>9

\* The columns of a transformed row run along the order's direction: the
\* element k columns after p's in its row of the order is the entry the kernel
\* computes from p by k steps, so a horizontal run found by the encoder in the
\* transformed matrix is a pattern the kernel walks in the original one.
THEOREM ColumnsRunAlong ==
  ASSUME NEW nrows, NEW ncols, Matrix(nrows, ncols),
         NEW p, Inside(p, nrows, ncols), NEW t \in IterOrders, NEW k \in Nat,
         BlockAligned(t, p)
  PROVE  Xform(t, Along(t, p, k), nrows, ncols)
           = Point(Xform(t, p, nrows, ncols).y, Xform(t, p, nrows, ncols).x + k)
<1>0. p = Point(p.y, p.x) /\ p.y \in Pos /\ p.x \in Pos /\ p.y \in 1..nrows /\ p.x \in 1..ncols
  BY InsideIsPoint
<1>1. nrows \in Pos /\ ncols \in Pos
  BY DEF Matrix
<1>2. CASE t = <<"HORIZONTAL", 0>>
  BY <1>0, <1>2 DEF Xform, Along, Point
<1>3. CASE t = <<"VERTICAL", 0>>
  BY <1>0, <1>3 DEF Xform, Along, MapV, Point
<1>4. CASE t = <<"DIAGONAL", 0>>
  BY <1>0, <1>1, <1>4 DEF Xform, Along, MapD, Point, Pos
<1>5. CASE t = <<"REV_DIAGONAL", 0>>
  BY <1>0, <1>1, <1>5 DEF Xform, Along, MapRD, Point, Pos
<1>6. ASSUME NEW r \in BlockSizes, t = <<"BLOCK_R", r>>
      PROVE  Xform(t, Along(t, p, k), nrows, ncols)
               = Point(Xform(t, p, nrows, ncols).y, Xform(t, p, nrows, ncols).x + k)
  <2>1. (p.y - 1) % r = 0
    BY <1>6 DEF BlockAligned
  <2>2. MapBR(Point(p.y + (k % r), p.x + (k \div r)), r)
          = Point(MapBR(Point(p.y, p.x), r).y, MapBR(Point(p.y, p.x), r).x + k)
    BY <1>0, <2>1, AlongBlock
  <2> QED
    BY <1>0, <1>6, <2>2 DEF Xform, Along
<1>7. ASSUME NEW c \in BlockSizes, t = <<"BLOCK_C", c>>
      PROVE  Xform(t, Along(t, p, k), nrows, ncols)
               = Point(Xform(t, p, nrows, ncols).y, Xform(t, p, nrows, ncols).x + k)
  <2>1. (p.x - 1) % c = 0
    BY <1>7 DEF BlockAligned
  <2>2. MapBR(Point(p.x + (k % c), p.y + (k \div c)), c)
          = Point(MapBR(Point(p.x, p.y), c).y, MapBR(Point(p.x, p.y), c).x + k)
    BY <1>0, <2>1, AlongBlock
  <2>3. /\ MapV(p) = Point(p.x, p.y)
        /\ MapV(Along(t, p, k)) = Point(p.x + (k % c), p.y + (k \div c))
    BY <1>7 DEF MapV, Along, Point
  <2> QED
    BY <1>7, <2>2, <2>3 DEF Xform, MapBC
<1> QED
  BY <1>2, <1>3, <1>4, <1>5, <1>6, <1>7, OrderKinds
-----------------------------------------------------------------------------
(***************************************************************************)
(* Sorting.                                                                *)
(***************************************************************************)
\* Finitely many points, each with coordinates of its own.
Apart(pts) ==
  /\ IsFiniteSet(pts)
  /\ \A p \in pts : p.y \in Int /\ p.x \in Int
  /\ \A p, q \in pts : p.y = q.y /\ p.x = q.x => p = q

\* A sequence of points in row-major order, and the points in it.
Rising(s) ==
  /\ s = [k \in 1..Len(s) |-> s[k]] /\ Len(s) \in Nat
  /\ \A k \in 1..Len(s) : s[k].y \in Int /\ s[k].x \in Int
  /\ \A j, k \in 1..Len(s) : j < k => CooLess(s[j], s[k])
InOrder(s, pts) ==
  /\ Rising(s)
  /\ \A k \in 1..Len(s) : s[k] \in pts
  /\ \A p \in pts : \E k \in 1..Len(s) : s[k] = p

\* The ranks of n points are 1 to n, each once, and rise with the order.
LEMMA RankIs ==
  ASSUME NEW pts, Apart(pts)
  PROVE  /\ Cardinality(pts) \in Nat
         /\ Rank(pts) \in [pts -> 1..Cardinality(pts)]
         /\ \A p, q \in pts : Rank(pts)[p] < Rank(pts)[q] <=> CooLess(p, q)
         /\ \A p, q \in pts : Rank(pts)[p] = Rank(pts)[q] => p = q
         /\ \A k \in 1..Cardinality(pts) : \E p \in pts : Rank(pts)[p] = k
<1> DEFINE Less(p) == {q \in pts : CooLess(q, p)}
           n == Cardinality(pts)
           rank == Rank(pts)
<1>1. IsFiniteSet(pts) /\ n \in Nat
  BY FS_CardinalityType DEF Apart
<1>2. \A p \in pts : ~CooLess(p, p)
  BY DEF Apart, CooLess
<1>3. \A p, q, r \in pts : CooLess(p, q) /\ CooLess(q, r) => CooLess(p, r)
  BY DEF Apart, CooLess
<1>4. \A p, q \in pts : p # q => CooLess(p, q) \/ CooLess(q, p)
  BY DEF Apart, CooLess
<1>5. ASSUME NEW p \in pts
      PROVE  IsFiniteSet(Less(p)) /\ Cardinality(Less(p)) \in 0..(n - 1)
  <2>1. Less(p) \in SUBSET pts /\ Less(p) # pts
    BY <1>2
  <2> HIDE DEF Less
  <2>2. IsFiniteSet(Less(p)) /\ Cardinality(Less(p)) <= n /\ Cardinality(Less(p)) # n
    BY <1>1, <2>1, FS_Subset
  <2>3. Cardinality(Less(p)) \in Nat
    BY <2>2, FS_CardinalityType
  <2> QED
    BY <1>1, <2>2, <2>3
<1>6. ASSUME NEW p \in pts, NEW q \in pts, CooLess(p, q)
      PROVE  Cardinality(Less(p)) < Cardinality(Less(q))
  <2>1. Less(p) \in SUBSET Less(q) /\ p \in Less(q) /\ p \notin Less(p)
    BY <1>2, <1>3, <1>6
  <2> HIDE DEF Less
  <2>2. Cardinality(Less(p)) <= Cardinality(Less(q)) /\ Cardinality(Less(p)) # Cardinality(Less(q))
    BY <1>5, <2>1, FS_Subset
  <2> QED
    BY <1>5, <2>2
<1>7. \A p \in pts : rank[p] = Cardinality(Less(p)) + 1
  BY DEF Rank
<1>8. rank = [p \in pts |-> rank[p]]
  BY DEF Rank
<1> HIDE DEF Less, rank
<1>9. rank \in [pts -> 1..n]
  BY <1>1, <1>5, <1>7, <1>8
<1>10. \A p, q \in pts : CooLess(p, q) => rank[p] < rank[q]
  BY <1>5, <1>6, <1>7
<1>11. \A p, q \in pts : rank[p] = rank[q] => p = q
  BY <1>4, <1>9, <1>10
<1>12. \A p, q \in pts : rank[p] < rank[q] => CooLess(p, q)
  BY <1>4, <1>9, <1>10
<1>13. rank \in Surjection(pts, 1..n)
  <2>1. rank \in Injection(pts, 1..n)
    BY <1>9, <1>11 DEF Injection, IsInjective
  <2>2. IsFiniteSet(1..n) /\ Cardinality(1..n) = n
    BY <1>1, FS_Interval
  <2> QED
    BY <2>1, <2>2, FS_Injection
<1>14. \A k \in 1..n : \E p \in pts : rank[p] = k
  BY <1>13 DEF Surjection
<1> QED
  BY <1>1, <1>9, <1>10, <1>11, <1>12, <1>14 DEF rank

\* Sort puts the points in order.
LEMMA SortIs ==
  ASSUME NEW pts, Apart(pts)
  PROVE  InOrder(Sort(pts), pts) /\ Len(Sort(pts)) = Cardinality(pts)
<1> DEFINE n == Cardinality(pts)
           rank == Rank(pts)
           s == Sort(pts)
<1>1. /\ n \in Nat
      /\ rank \in [pts -> 1..n]
      /\ \A p, q \in pts : rank[p] < rank[q] <=> CooLess(p, q)
      /\ \A p, q \in pts : rank[p] = rank[q] => p = q
      /\ \A k \in 1..n : \E p \in pts : rank[p] = k
  BY RankIs
<1>2. s = [k \in 1..n |-> CHOOSE p \in pts : rank[p] = k]
  BY DEF Sort
<1> HIDE DEF rank, s, n
<1>3. Len(s) = n /\ s = [k \in 1..Len(s) |-> s[k]]
  BY <1>1, <1>2
<1>4. \A k \in 1..n : s[k] \in pts /\ rank[s[k]] = k
  BY <1>1, <1>2
<1>5. \A p \in pts : rank[p] \in 1..n /\ s[rank[p]] = p
  BY <1>1, <1>4
<1>6. \A p \in pts : p.y \in Int /\ p.x \in Int
  BY DEF Apart
<1>7. \A j, k \in 1..n : j < k => CooLess(s[j], s[k])
  BY <1>1, <1>4
<1>8. Rising(s)
  BY <1>1, <1>3, <1>4, <1>6, <1>7 DEF Rising
<1> QED
  BY <1>3, <1>4, <1>5, <1>8 DEF InOrder, s, n

\* In a sequence of all points in order each stands at its rank.
LEMMA RankOfRising ==
  ASSUME NEW pts, Apart(pts), NEW s, InOrder(s, pts), NEW k \in 1..Len(s)
  PROVE  Rank(pts)[s[k]] = k
<1> DEFINE Less == {q \in pts : CooLess(q, s[k])}
           f == [j \in 1..(k - 1) |-> s[j]]
<1>1. /\ Len(s) \in Nat
      /\ \A i \in 1..Len(s) : s[i].y \in Int /\ s[i].x \in Int /\ s[i] \in pts
      /\ \A i, j \in 1..Len(s) : i < j => CooLess(s[i], s[j])
      /\ \A p \in pts : \E i \in 1..Len(s) : s[i] = p
  BY DEF InOrder, Rising
<1>2. \A i, j \in 1..Len(s) : CooLess(s[i], s[j]) => i < j
  <2>1. SUFFICES ASSUME NEW i \in 1..Len(s), NEW j \in 1..Len(s), CooLess(s[i], s[j]), ~(i < j)
                 PROVE FALSE
    OBVIOUS
  <2>2. i = j \/ CooLess(s[j], s[i])
    BY <1>1, <2>1
  <2> QED
    BY <1>1, <2>1, <2>2 DEF CooLess
<1>3. \A j \in 1..(k - 1) : j \in 1..Len(s) /\ j < k
  BY <1>1
<1>4. f \in [1..(k - 1) -> Less]
  BY <1>1, <1>3
<1>5. \A j \in 1..(k - 1) : f[j] = s[j]
  OBVIOUS
<1>6. \A i, j \in 1..Len(s) : s[i] = s[j] => i = j
  <2>1. \A i, j \in 1..Len(s) : i # j => i < j \/ j < i
    OBVIOUS
  <2>2. \A i, j \in 1..Len(s) : CooLess(s[i], s[j]) => s[i] # s[j]
    BY <1>1 DEF CooLess
  <2> QED
    BY <1>1, <2>1, <2>2
<1>7. \A p \in Less : \E j \in 1..(k - 1) : f[j] = p
  <2> TAKE p \in Less
  <2>1. PICK i \in 1..Len(s) : s[i] = p
    BY <1>1
  <2>2. i < k
    BY <1>2, <2>1
  <2>3. i \in 1..(k - 1)
    BY <2>2
  <2> QED
    BY <1>5, <2>1, <2>3
<1>8. \A i, j \in 1..(k - 1) : f[i] = f[j] => i = j
  BY <1>3, <1>5, <1>6
<1> HIDE DEF Less, f
<1>9. f \in Bijection(1..(k - 1), Less)
  BY <1>4, <1>7, <1>8 DEF Bijection, Injection, IsInjective, Surjection
<1>10. Cardinality(Less) = k - 1
  <2>1. k \in Int /\ k >= 1
    BY <1>1
  <2>2. IsFiniteSet(1..(k - 1)) /\ Cardinality(1..(k - 1)) = k - 1
    BY <2>1, FS_Interval
  <2>3. ExistsBijection(1..(k - 1), Less)
    BY <1>9 DEF ExistsBijection
  <2> QED
    BY <2>2, <2>3, FS_Bijection
<1>11. s[k] \in pts
  BY <1>1
<1> QED
  BY <1>1, <1>10, <1>11 DEF Rank, Less

\* There is one way to order points.
LEMMA SortUnique ==
  ASSUME NEW pts, Apart(pts), NEW s, InOrder(s, pts)
  PROVE  s = Sort(pts)
<1> DEFINE u == Sort(pts)
<1>1. InOrder(u, pts)
  BY SortIs
<1> HIDE DEF u
<1>2. \A k \in 1..Len(s) : Rank(pts)[s[k]] = k /\ s[k] \in pts
  BY RankOfRising DEF InOrder
<1>3. \A k \in 1..Len(u) : Rank(pts)[u[k]] = k /\ u[k] \in pts
  BY <1>1, RankOfRising DEF InOrder
<1>4. \A p \in pts : Rank(pts)[p] \in 1..Len(s) /\ Rank(pts)[p] \in 1..Len(u)
  <2> TAKE p \in pts
  <2>1. PICK j \in 1..Len(s) : s[j] = p
    BY DEF InOrder
  <2>2. PICK k \in 1..Len(u) : u[k] = p
    BY <1>1 DEF InOrder
  <2> QED
    BY <1>2, <1>3, <2>1, <2>2
<1>5. Len(s) \in Nat /\ Len(u) \in Nat
  BY <1>1 DEF InOrder, Rising
<1>6. 1..Len(s) = 1..Len(u)
  <2>1. \A k \in 1..Len(s) : k \in 1..Len(u)
    BY <1>2, <1>4
  <2>2. \A k \in 1..Len(u) : k \in 1..Len(s)
    BY <1>3, <1>4
  <2> QED
    BY <2>1, <2>2
<1>7. \A k \in 1..Len(s) : s[k] = u[k]
  BY <1>2, <1>3, <1>6, RankIs
<1>8. s = [k \in 1..Len(s) |-> s[k]] /\ u = [k \in 1..Len(u) |-> u[k]]
  BY <1>1 DEF InOrder, Rising
<1>9. u = [k \in 1..Len(s) |-> u[k]]
  BY <1>6, <1>8
<1> QED
  BY <1>7, <1>8, <1>9 DEF u

-----------------------------------------------------------------------------
(***************************************************************************)
(* Row pointers: how many points of a sequence lie in rows before one.     *)
(***************************************************************************)
Count(s, i) == Cardinality({k \in 1..Len(s) : s[k].y < i})
Pointers(s, n) == [i \in 1..n |-> Count(s, i)]

\* The points before a row are the first ones, as many as are counted.
LEMMA CountIs ==
  ASSUME NEW s, Rising(s), NEW i \in Int
  PROVE  /\ Count(s, i) \in 0..Len(s)
         /\ \A k \in 1..Len(s) : k <= Count(s, i) <=> s[k].y < i
<1> DEFINE T == {k \in 1..Len(s) : s[k].y < i}
<1>1. /\ Len(s) \in Nat
      /\ \A k \in 1..Len(s) : s[k].y \in Int
      /\ \A j, k \in 1..Len(s) : j < k => s[j].y <= s[k].y
  BY DEF Rising, CooLess
<1>2. IsFiniteSet(1..Len(s)) /\ Cardinality(1..Len(s)) = Len(s)
  BY <1>1, FS_Interval
<1>3. T \in SUBSET (1..Len(s))
  OBVIOUS
<1>4. \A k \in T : 1..k \subseteq T
  BY <1>1
<1>5. \A k \in 1..Len(s) : k \notin T => T \subseteq 1..(k - 1)
  BY <1>1
<1>6. \A k \in 1..Len(s) : k \in T <=> s[k].y < i
  OBVIOUS
<1> HIDE DEF T
<1>7. IsFiniteSet(T) /\ Cardinality(T) \in Nat /\ Cardinality(T) <= Len(s)
  BY <1>2, <1>3, FS_Subset, FS_CardinalityType
<1>8. ASSUME NEW k \in T PROVE k <= Cardinality(T)
  <2>1. k \in Int /\ k >= 1
    BY <1>1, <1>3
  <2>2. IsFiniteSet(1..k) /\ Cardinality(1..k) = k
    BY <2>1, FS_Interval
  <2>3. 1..k \in SUBSET T
    BY <1>4
  <2>4. Cardinality(1..k) <= Cardinality(T)
    BY ONLY Zenon, <1>7, <2>3, FS_Subset
  <2> QED
    BY <1>7, <2>1, <2>2, <2>4
<1>9. ASSUME NEW k \in 1..Len(s), k \notin T PROVE ~(k <= Cardinality(T))
  <2>1. k \in Int /\ k >= 1
    BY <1>1
  <2>2. IsFiniteSet(1..(k - 1)) /\ Cardinality(1..(k - 1)) = k - 1
    BY <2>1, FS_Interval
  <2>3. T \in SUBSET (1..(k - 1))
    BY <1>5, <1>9
  <2>4. Cardinality(T) <= k - 1
    BY <2>2, <2>3, FS_Subset
  <2> QED
    BY <1>7, <2>1, <2>4
<1> QED
  BY <1>6, <1>7, <1>8, <1>9 DEF Count, T

\* The matrix m holds the points of s, with n row pointers.
Holds(m, s, n) ==
  /\ n \in Pos
  /\ m.elems = [k \in 1..Len(s) |-> [x |-> s[k].x, item |-> s[k].item]]
  /\ m.rowptr = Pointers(s, n)
  /\ \A k \in 1..Len(s) : s[k].y \in 1..(n - 1)

\* Points in order, each of the three fields.
Stream(s) ==
  /\ Rising(s)
  /\ \A k \in 1..Len(s) : s[k] = [y |-> s[k].y, x |-> s[k].x, item |-> s[k].item]

\* The points of a matrix are those it holds: the row an element lies in by the
\* row pointers is its point's row.
LEMMA PointsAre ==
  ASSUME NEW m, NEW s, NEW n, Stream(s), Holds(m, s, n)
  PROVE  Points(m) = s
<1> DEFINE RowOf(k) == CHOOSE r \in 1..GetNrRows(m) : m.rowptr[r] < k /\ k <= m.rowptr[r + 1]
<1>1. /\ Rising(s) /\ Len(s) \in Nat /\ n \in Nat /\ n >= 1
      /\ \A k \in 1..Len(s) : s[k].y \in 1..(n - 1)
  BY DEF Holds, Stream, Rising, Pos
<1>2. GetNrRows(m) = n - 1
  BY <1>1 DEF GetNrRows, Holds, Pointers
<1>3. \A i \in 1..n : m.rowptr[i] = Count(s, i)
  BY DEF Holds, Pointers
<1>4. ASSUME NEW k \in 1..Len(s), NEW r \in 1..(n - 1)
      PROVE  m.rowptr[r] < k /\ k <= m.rowptr[r + 1] <=> r = s[k].y
  <2>1. /\ r \in Int /\ r + 1 \in Int /\ r \in 1..n /\ r + 1 \in 1..n
        /\ s[k].y \in Int
    BY <1>1
  <2>2. Count(s, r) \in 0..Len(s) /\ \A j \in 1..Len(s) : j <= Count(s, r) <=> s[j].y < r
    BY Zenon, <1>1, <2>1, CountIs
  <2>3. /\ Count(s, r + 1) \in 0..Len(s)
        /\ \A j \in 1..Len(s) : j <= Count(s, r + 1) <=> s[j].y < r + 1
    BY Zenon, <1>1, <2>1, CountIs
  <2>4. m.rowptr[r] = Count(s, r) /\ m.rowptr[r + 1] = Count(s, r + 1)
    BY <1>3, <2>1
  <2> QED
    BY <1>1, <2>1, <2>2, <2>3, <2>4
<1>5. ASSUME NEW k \in 1..Len(s) PROVE RowOf(k) = s[k].y
  BY <1>1, <1>2, <1>4
<1>6. DOMAIN m.elems = 1..Len(s) /\ \A k \in 1..Len(s) : m.elems[k] = [x |-> s[k].x, item |-> s[k].item]
  BY DEF Holds
<1> HIDE DEF RowOf
<1>7. Points(m) = [k \in 1..Len(s) |-> [y |-> RowOf(k), x |-> m.elems[k].x, item |-> m.elems[k].item]]
  BY <1>6 DEF Points, RowOf
<1>8. \A k \in 1..Len(s) :
        [y |-> RowOf(k), x |-> m.elems[k].x, item |-> m.elems[k].item] = s[k]
  <2> TAKE k \in 1..Len(s)
  <2>1. RowOf(k) = s[k].y /\ m.elems[k].x = s[k].x /\ m.elems[k].item = s[k].item
    <3>1. m.elems[k] = [x |-> s[k].x, item |-> s[k].item]
      BY Zenon, <1>6
    <3>2. m.elems[k].x = s[k].x /\ m.elems[k].item = s[k].item
      BY <3>1
    <3> QED
      BY Zenon, <1>5, <3>2
  <2>2. s[k] = [y |-> s[k].y, x |-> s[k].x, item |-> s[k].item]
    BY Zenon DEF Stream
  <2> QED
    BY Zenon, <2>1, <2>2
<1>9. s = [k \in 1..Len(s) |-> s[k]]
  BY <1>1 DEF Rising
<1> QED
  BY <1>7, <1>8, <1>9

\* How many row pointers Finalize leaves.
NrPointers(s) == IF Len(s) = 0 THEN 1 ELSE s[Len(s)].y + 1

\* What SetElems and Finalize build holds the points they were given.
LEMMA BuiltHolds ==
  ASSUME NEW m, NEW s, Stream(s), \A k \in 1..Len(s) : s[k].y \in Pos,
         m.elems = ElemsOf(s), m.rowptr = RowPtrOf(s, 1)
  PROVE  Holds(m, s, NrPointers(s))
<1> DEFINE n == NrPointers(s)
<1>1. /\ Rising(s) /\ Len(s) \in Nat /\ DOMAIN s = 1..Len(s)
      /\ \A k \in 1..Len(s) : s[k].y \in Int /\ s[k].y >= 1
      /\ \A j, k \in 1..Len(s) : j < k => s[j].y <= s[k].y
  BY DEF Stream, Rising, Pos, CooLess
<1>2. \A k \in 1..Len(s) : s[k].y <= s[Len(s)].y
  BY <1>1
<1>3. n \in Pos /\ \A k \in 1..Len(s) : s[k].y \in 1..(n - 1)
  BY <1>1, <1>2 DEF NrPointers, Pos
<1>4. m.elems = [k \in 1..Len(s) |-> [x |-> s[k].x, item |-> s[k].item]]
  BY <1>1 DEF ElemsOf
<1>5. m.rowptr = Pointers(s, n)
  <2>1. CASE Len(s) = 0
    <3>1. s = <<>>
      BY <1>1, <2>1
    <3>2. Count(s, 1) = 0
      BY <1>1, <2>1, CountIs
    <3>3. n = 1 /\ m.rowptr = <<0>>
      BY <2>1, <3>1 DEF NrPointers, RowPtrOf
    <3>4. Pointers(s, 1) = [i \in 1..1 |-> 0]
      <4>1. \A i \in 1..1 : Count(s, i) = 0
        BY <3>2
      <4> QED
        BY <4>1 DEF Pointers
    <3>5. <<0>> = [i \in 1..1 |-> 0]
      OBVIOUS
    <3> QED
      BY Zenon, <3>3, <3>4, <3>5
  <2>2. CASE Len(s) # 0
    <3> DEFINE last == s[Len(s)].y
               f == [i \in 1..last |-> Count(s, 1 + i)]
    <3>1. s # <<>> /\ Last(s) = s[Len(s)] /\ last \in Nat /\ last >= 1 /\ last - 1 + 1 = last
      BY <1>1, <2>2 DEF Last
    <3>2. m.rowptr = <<0>> \o f
      <4>1. m.rowptr = <<0>> \o [i \in 1..(Last(s).y - 1 + 1) |->
                                   Quantify(DOMAIN s, LAMBDA k : s[k].y < 1 + i)]
        BY <3>1 DEF RowPtrOf
      <4>2. \A i \in 1..last : Quantify(DOMAIN s, LAMBDA k : s[k].y < 1 + i) = Count(s, 1 + i)
        BY <1>1 DEF Quantify, Count
      <4>3. [i \in 1..(Last(s).y - 1 + 1) |-> Quantify(DOMAIN s, LAMBDA k : s[k].y < 1 + i)] = f
        BY <3>1, <4>2
      <4> HIDE DEF f
      <4> QED
        BY <4>1, <4>3
    <3>3. \A i \in 1..last : f[i] = Count(s, 1 + i) /\ Count(s, 1 + i) \in Nat
      <4> TAKE i \in 1..last
      <4>1. 1 + i \in Int
        BY <3>1
      <4>2. Count(s, 1 + i) \in 0..Len(s)
        BY <1>1, <4>1, CountIs
      <4> QED
        BY <1>1, <4>2
    <3>4. f \in Seq(Nat) /\ Len(f) = last
      <4>1. f \in [1..last -> Nat]
        BY <3>3
      <4> HIDE DEF f, last
      <4> QED
        BY <3>1, <4>1
    <3>5. Count(s, 1) = 0
      <4>1. Count(s, 1) \in 0..Len(s) /\ \A k \in 1..Len(s) : k <= Count(s, 1) <=> s[k].y < 1
        BY <1>1, CountIs
      <4> QED
        BY <1>1, <2>2, <4>1
    <3>6. n = last + 1
      BY <2>2 DEF NrPointers
    <3> HIDE DEF f, last
    <3>7. <<0>> \o f = [i \in 1..(last + 1) |-> IF i = 1 THEN 0 ELSE f[i - 1]]
      BY <3>1, <3>4
    <3>8. ASSUME NEW i \in 1..(last + 1)
          PROVE  (IF i = 1 THEN 0 ELSE f[i - 1]) = Count(s, i)
      <4>1. CASE i = 1
        BY <3>5, <4>1
      <4>2. CASE i # 1
        <5>1. i - 1 \in 1..last /\ 1 + (i - 1) = i
          BY <3>1, <4>2
        <5>2. f[i - 1] = Count(s, 1 + (i - 1))
          BY <3>3, <5>1
        <5> QED
          BY <4>2, <5>1, <5>2
      <4> QED
        BY <4>1, <4>2
    <3>9. Pointers(s, n) = [i \in 1..(last + 1) |-> Count(s, i)]
      BY <3>6 DEF Pointers
    <3> QED
      BY <3>2, <3>7, <3>8, <3>9
  <2> QED
    BY <2>1, <2>2
<1> QED
  BY <1>3, <1>4, <1>5 DEF Holds

-----------------------------------------------------------------------------
(***************************************************************************)
(* The points of a set of items in an order.  What an item is does not     *)
(* matter: at gives its place in the matrix.                               *)
(***************************************************************************)
\* No two items are at one place, and all are in the matrix.
Lie(items, at, nrows, ncols) ==
  /\ nrows \in Nat /\ ncols \in Nat
  /\ IsFiniteSet(items)
  /\ \A e \in items : at[e] \in [y : 1..nrows, x : 1..ncols]
  /\ \A d, e \in items : at[d] = at[e] => d = e

Placed(t, e, at, nrows, ncols) ==
  [y |-> Xform(t, at[e], nrows, ncols).y,
   x |-> Xform(t, at[e], nrows, ncols).x, item |-> e]
AllPlaced(t, items, at, nrows, ncols) ==
  {Placed(t, e, at, nrows, ncols) : e \in items}

\* An item's place lies in the matrix.
LEMMA AtInside ==
  ASSUME NEW items, NEW at, NEW nrows, NEW ncols,
         Lie(items, at, nrows, ncols), NEW e \in items
  PROVE  /\ Matrix(nrows, ncols) /\ Inside(at[e], nrows, ncols)
         /\ at[e].y \in 1..nrows /\ at[e].x \in 1..ncols
         /\ at[e] = Point(at[e].y, at[e].x)
<1> DEFINE p == at[e]
<1>1. p \in [y : 1..nrows, x : 1..ncols] /\ nrows \in Nat /\ ncols \in Nat
  BY DEF Lie
<1> HIDE DEF p
<1>2. /\ Matrix(nrows, ncols) /\ Inside(p, nrows, ncols)
      /\ p.y \in 1..nrows /\ p.x \in 1..ncols
      /\ p = Point(p.y, p.x)
  BY <1>1 DEF Matrix, Inside, Point, Pos
<1> QED
  BY <1>2 DEF p

\* The reverse maps look at the coordinates only.
LEMMA RevXformOf ==
  ASSUME NEW t \in IterOrders, NEW p, NEW nrows, NEW ncols
  PROVE  RevXform(t, p, nrows, ncols) = RevXform(t, Point(p.y, p.x), nrows, ncols)
<1> DEFINE q == Point(p.y, p.x)
<1>1. q.y = p.y /\ q.x = p.x
  BY DEF Point
<1> HIDE DEF q
<1>2. /\ RMapV(q) = RMapV(p) /\ RMapD(q, nrows) = RMapD(p, nrows)
      /\ RMapRD(q, ncols) = RMapRD(p, ncols)
      /\ Point(q.y, q.x) = Point(p.y, p.x)
  BY <1>1 DEF RMapV, MapV, RMapD, RMapRD
<1>3. \A r : RMapBR(q, r) = RMapBR(p, r) /\ RMapBC(q, r) = RMapBC(p, r)
  BY <1>1 DEF RMapBR, RMapBC
<1> QED
  BY <1>2, <1>3, OrderKinds DEF RevXform, q

\* A transformation takes an item's point in one order to its point in the other.
LEMMA PlacedMoves ==
  ASSUME NEW items, NEW at, NEW nrows, NEW ncols,
         Lie(items, at, nrows, ncols), NEW e \in items,
         NEW t \in IterOrders
  PROVE  RevXform(t, Placed(t, e, at, nrows, ncols), nrows, ncols) = at[e]
<1> DEFINE p == at[e]
           i == Placed(t, e, at, nrows, ncols)
           q == Xform(t, p, nrows, ncols)
<1>1. Matrix(nrows, ncols) /\ Inside(p, nrows, ncols)
  BY AtInside
<1>2. i.y = q.y /\ i.x = q.x
  BY DEF Placed
<1>3. q = Point(q.y, q.x)
  BY OrderKinds DEF Xform, MapV, MapD, MapRD, MapBC, MapBR, Point
<1> HIDE DEF p, i, q
<1>4. RevXform(t, q, nrows, ncols) = p
  BY <1>1, RoundTrip DEF q
<1>5. RevXform(t, i, nrows, ncols) = RevXform(t, q, nrows, ncols)
  <2>1. RevXform(t, i, nrows, ncols) = RevXform(t, Point(i.y, i.x), nrows, ncols)
    BY RevXformOf
  <2> QED
    BY Zenon, <1>2, <1>3, <2>1
<1> QED
  BY Zenon, <1>4, <1>5 DEF p, i

\* Where the maps lead: the rows of an order are numbered from one, and there are
\* fewer of them than rows and columns together.
LEMMA PlacedRow ==
  ASSUME NEW items, NEW at, NEW nrows, NEW ncols,
         Lie(items, at, nrows, ncols), NEW e \in items,
         NEW t \in IterOrders
  PROVE  /\ Placed(t, e, at, nrows, ncols).y \in 1..(nrows + ncols)
         /\ Placed(t, e, at, nrows, ncols).x \in Int
         /\ t = HORIZONTAL => /\ Placed(t, e, at, nrows, ncols).y = at[e].y
                              /\ Placed(t, e, at, nrows, ncols).x = at[e].x
<1> DEFINE i == Placed(t, e, at, nrows, ncols)
           y == at[e].y
           x == at[e].x
<1>1. /\ y \in 1..nrows /\ x \in 1..ncols /\ nrows \in Nat /\ ncols \in Nat
      /\ at[e] = Point(y, x)
  <2>1. nrows \in Nat /\ ncols \in Nat
    BY DEF Lie
  <2> QED
    BY <2>1, AtInside
<1>2. i.y = Xform(t, Point(y, x), nrows, ncols).y /\ i.x = Xform(t, Point(y, x), nrows, ncols).x
  BY <1>1 DEF Placed
<1> SUFFICES /\ i.y \in 1..(nrows + ncols)
             /\ i.x \in Int
             /\ t = HORIZONTAL => i.y = y /\ i.x = x
  OBVIOUS
<1> HIDE DEF i, y, x
<1>3. CASE t = <<"HORIZONTAL", 0>>
  BY <1>1, <1>2, <1>3 DEF Xform, Point, HORIZONTAL
<1>4. CASE t = <<"VERTICAL", 0>>
  BY <1>1, <1>2, <1>4 DEF Xform, MapV, Point, HORIZONTAL
<1>5. CASE t = <<"DIAGONAL", 0>>
  BY <1>1, <1>2, <1>5 DEF Xform, MapD, Point, HORIZONTAL
<1>6. CASE t = <<"REV_DIAGONAL", 0>>
  BY <1>1, <1>2, <1>6 DEF Xform, MapRD, Point, HORIZONTAL
<1>7. ASSUME NEW r \in BlockSizes, NEW a \in Nat, NEW b \in Nat, a >= 1, b >= 1
      PROVE  MapBR(Point(a, b), r).y \in 1..a /\ MapBR(Point(a, b), r).x \in Int
  <2>1. r \in {1, 2, 3, 4, 5, 6, 7, 8}
    BY DEF BlockSizes
  <2>2. MapBR(Point(a, b), r).y = ((a - 1) \div r) + 1
    BY DEF MapBR, Point
  <2>3. MapBR(Point(a, b), r).x = ((a - 1) % r) + r * (b - 1) + 1
    BY DEF MapBR, Point
  <2>4. ((a - 1) \div r) + 1 \in 1..a
    BY <1>7, <2>1
  <2>5. ((a - 1) % r) + r * (b - 1) + 1 \in Int
    BY <1>7, <2>1
  <2> QED
    BY <2>2, <2>3, <2>4, <2>5
<1>8. ASSUME NEW r \in BlockSizes, t = <<"BLOCK_R", r>>
      PROVE  i.y \in 1..nrows /\ i.x \in Int
  BY <1>1, <1>2, <1>7, <1>8 DEF Xform
<1>9. ASSUME NEW c \in BlockSizes, t = <<"BLOCK_C", c>>
      PROVE  i.y \in 1..ncols /\ i.x \in Int
  <2>1. MapV(Point(y, x)) = Point(x, y)
    BY DEF MapV, Point
  <2> QED
    BY <1>1, <1>2, <1>7, <1>9, <2>1 DEF Xform, MapBC
<1>10. ASSUME NEW r \in BlockSizes PROVE t # <<"HORIZONTAL", 0>> \/ (t # <<"BLOCK_R", r>> /\ t # <<"BLOCK_C", r>>)
  OBVIOUS
<1> QED
  BY <1>1, <1>3, <1>4, <1>5, <1>6, <1>8, <1>9, <1>10, OrderKinds DEF HORIZONTAL

\* No two items meet in any order.
LEMMA PlacedApart ==
  ASSUME NEW items, NEW at, NEW nrows, NEW ncols,
         Lie(items, at, nrows, ncols), NEW t \in IterOrders
  PROVE  Apart(AllPlaced(t, items, at, nrows, ncols))
<1> DEFINE pts == AllPlaced(t, items, at, nrows, ncols)
           Im(e) == Placed(t, e, at, nrows, ncols)
<1>1. IsFiniteSet(pts)
  <2>1. IsFiniteSet(items)
    BY DEF Lie
  <2> DEFINE f == [e \in items |-> Im(e)]
  <2>2. f \in Surjection(items, pts)
    BY DEF AllPlaced, Surjection
  <2> HIDE DEF f, pts
  <2> QED
    BY <2>1, <2>2, FS_Surjection
<1>2. \A p \in pts : p.y \in Int /\ p.x \in Int
  <2> TAKE p \in pts
  <2>1. PICK e \in items : p = Im(e)
    BY DEF AllPlaced
  <2>2. Im(e).y \in 1..(nrows + ncols) /\ Im(e).x \in Int
    BY PlacedRow
  <2>3. nrows + ncols \in Int
    BY DEF Lie
  <2> HIDE DEF Im, pts
  <2> QED
    BY <2>1, <2>2, <2>3
<1>3. ASSUME NEW d \in items, NEW e \in items, Im(d).y = Im(e).y, Im(d).x = Im(e).x
      PROVE  Im(d) = Im(e)
  <2>0. /\ RevXform(t, Im(d), nrows, ncols) = at[d]
        /\ RevXform(t, Im(e), nrows, ncols) = at[e]
    BY PlacedMoves
  <2>1. RevXform(t, Im(d), nrows, ncols) = RevXform(t, Im(e), nrows, ncols)
    <3> HIDE DEF Im
    <3>1. /\ RevXform(t, Im(d), nrows, ncols) = RevXform(t, Point(Im(d).y, Im(d).x), nrows, ncols)
          /\ RevXform(t, Im(e), nrows, ncols) = RevXform(t, Point(Im(e).y, Im(e).x), nrows, ncols)
      BY RevXformOf
    <3> QED
      BY <1>3, <3>1
  <2>2. at[d] = at[e]
    BY <2>0, <2>1
  <2>3. d = e
    BY <2>2 DEF Lie
  <2> QED
    BY <2>3
<1>4. pts = {Im(e) : e \in items}
  BY DEF AllPlaced
<1> HIDE DEF Im, pts
<1>5. \A p, q \in pts : p.y = q.y /\ p.x = q.x => p = q
  BY <1>3, <1>4
<1> QED
  BY <1>1, <1>2, <1>5 DEF Apart, pts

-----------------------------------------------------------------------------
(***************************************************************************)
(* A matrix that is what loading its items in its order would give.        *)
(***************************************************************************)
InRows(t, items, at, nrows, ncols) == Sort(AllPlaced(t, items, at, nrows, ncols))

\* The sorted points are the items' points, each once.
LEMMA InRowsIs ==
  ASSUME NEW items, NEW at, NEW nrows, NEW ncols,
         Lie(items, at, nrows, ncols), NEW t \in IterOrders,
         NEW s, s = InRows(t, items, at, nrows, ncols)
  PROVE  /\ Stream(s)
         /\ \A k \in 1..Len(s) : /\ s[k].item \in items
                                 /\ s[k] = Placed(t, s[k].item, at, nrows, ncols)
                                 /\ s[k].y \in 1..(nrows + ncols)
         /\ \A e \in items : \E k \in 1..Len(s) : s[k].item = e
         /\ \A j, k \in 1..Len(s) : s[j].item = s[k].item => j = k
         /\ t = HORIZONTAL =>
              \A k \in 1..Len(s) : s[k].y = at[s[k].item].y /\ s[k].x = at[s[k].item].x
<1> DEFINE Im(e) == Placed(t, e, at, nrows, ncols)
           pts == AllPlaced(t, items, at, nrows, ncols)
<1>1. InOrder(s, pts)
  BY PlacedApart, SortIs DEF InRows
<1>2. Rising(s) /\ Len(s) \in Nat
  BY <1>1 DEF InOrder, Rising
<1>3. pts = {Im(e) : e \in items}
  BY DEF AllPlaced
<1>4. \A e : Im(e).item = e /\ Im(e) = [y |-> Im(e).y, x |-> Im(e).x, item |-> Im(e).item]
  BY DEF Placed
<1>5. \A e \in items : /\ Im(e).y \in 1..(nrows + ncols)
                       /\ t = HORIZONTAL => Im(e).y = at[e].y /\ Im(e).x = at[e].x
  BY PlacedRow
<1> HIDE DEF Im, pts
<1>6. ASSUME NEW k \in 1..Len(s)
      PROVE  /\ s[k].item \in items /\ s[k] = Im(s[k].item)
             /\ s[k] = [y |-> s[k].y, x |-> s[k].x, item |-> s[k].item]
  <2>1. PICK e \in items : s[k] = Im(e)
    BY <1>1, <1>3 DEF InOrder
  <2>2. s[k].item = e
    BY <1>4, <2>1
  <2>3. Im(e) = [y |-> Im(e).y, x |-> Im(e).x, item |-> Im(e).item]
    BY <1>4
  <2>4. s[k] = [y |-> s[k].y, x |-> s[k].x, item |-> s[k].item]
    BY Zenon, <2>1, <2>3
  <2> QED
    BY Zenon, <2>1, <2>2, <2>4
<1>7. \A k \in 1..Len(s) : s[k].y \in 1..(nrows + ncols)
  BY <1>5, <1>6
<1>8. ASSUME NEW e \in items PROVE \E k \in 1..Len(s) : s[k].item = e
  <2>1. PICK k \in 1..Len(s) : s[k] = Im(e)
    BY <1>1, <1>3 DEF InOrder
  <2> QED
    BY <1>4, <2>1
<1>9. ASSUME NEW j \in 1..Len(s), NEW k \in 1..Len(s), s[j].item = s[k].item
      PROVE  j = k
  <2>1. s[j] = s[k]
    BY Zenon, <1>6, <1>9
  <2>2. j < k => CooLess(s[j], s[k])
    BY <1>2 DEF Rising
  <2>3. k < j => CooLess(s[k], s[j])
    BY <1>2 DEF Rising
  <2>4. ~CooLess(s[k], s[k])
    BY <1>2 DEF Rising, CooLess
  <2> QED
    BY <1>2, <2>1, <2>2, <2>3, <2>4
<1>10. ASSUME t = HORIZONTAL, NEW k \in 1..Len(s)
       PROVE  s[k].y = at[s[k].item].y /\ s[k].x = at[s[k].item].x
  <2>1. /\ s[k].item \in items /\ s[k].y = Im(s[k].item).y /\ s[k].x = Im(s[k].item).x
    BY Zenon, <1>6
  <2> QED
    BY <1>5, <1>10, <2>1
<1>11. Stream(s)
  BY <1>2, <1>6 DEF Stream
<1> QED
  BY <1>6, <1>7, <1>8, <1>9, <1>10, <1>11 DEF Im

\* The matrix m holds the items in its order, and no more row pointers than its
\* order can have rows.
Keeps(m, items, at) ==
  /\ m.type \in IterOrders
  /\ Lie(items, at, m.nrRows, m.nrCols)
  /\ \E n \in 1..(m.nrRows + m.nrCols + 1) :
       /\ Holds(m, InRows(m.type, items, at, m.nrRows, m.nrCols), n)
       /\ m.type = HORIZONTAL => n <= m.nrRows + 1

\* The points of such a matrix are the sorted ones.
LEMMA KeptPoints ==
  ASSUME NEW m, NEW items, NEW at, Keeps(m, items, at)
  PROVE  Points(m) = InRows(m.type, items, at, m.nrRows, m.nrCols)
<1> DEFINE s == InRows(m.type, items, at, m.nrRows, m.nrCols)
<1>1. PICK n \in 1..(m.nrRows + m.nrCols + 1) : Holds(m, s, n)
  BY DEF Keeps
<1>2. m.type \in IterOrders /\ Lie(items, at, m.nrRows, m.nrCols)
  BY DEF Keeps
<1>3. Stream(s)
  BY <1>2, InRowsIs
<1> HIDE DEF s
<1> QED
  BY <1>1, <1>3, PointsAre DEF s

\* What is built from the sorted points is such a matrix.
LEMMA BuiltKeeps ==
  ASSUME NEW m, NEW items, NEW at,
         m.type \in IterOrders, Lie(items, at, m.nrRows, m.nrCols),
         m.elems = ElemsOf(InRows(m.type, items, at, m.nrRows, m.nrCols)),
         m.rowptr = RowPtrOf(InRows(m.type, items, at, m.nrRows, m.nrCols), 1)
  PROVE  Keeps(m, items, at)
<1> DEFINE s == InRows(m.type, items, at, m.nrRows, m.nrCols)
           n == NrPointers(s)
<1>1. /\ Stream(s)
      /\ \A k \in 1..Len(s) : s[k].item \in items /\ s[k].y \in 1..(m.nrRows + m.nrCols)
      /\ m.type = HORIZONTAL => \A k \in 1..Len(s) : s[k].y = at[s[k].item].y
  BY InRowsIs
<1>2. m.nrRows \in Nat /\ m.nrCols \in Nat
  BY DEF Lie
<1>3. Len(s) \in Nat
  BY <1>1 DEF Stream, Rising
<1>4. \A e \in items : at[e].y \in 1..m.nrRows
  BY AtInside
<1>5. m.elems = ElemsOf(s) /\ m.rowptr = RowPtrOf(s, 1)
  OBVIOUS
<1> HIDE DEF s
<1>6. \A k \in 1..Len(s) : s[k].y \in Pos
  BY <1>1, <1>2 DEF Pos
<1>7. Holds(m, s, n)
  BY <1>1, <1>5, <1>6, BuiltHolds
<1>8. n \in 1..(m.nrRows + m.nrCols + 1)
  <2>1. CASE Len(s) = 0
    BY <1>2, <2>1 DEF NrPointers
  <2>2. CASE Len(s) # 0
    <3>1. s[Len(s)].y \in 1..(m.nrRows + m.nrCols)
      BY <1>1, <1>3, <2>2
    <3> QED
      BY <1>2, <2>2, <3>1 DEF NrPointers
  <2> QED
    BY <2>1, <2>2
<1>9. m.type = HORIZONTAL => n <= m.nrRows + 1
  <2>1. CASE Len(s) = 0
    BY <1>2, <2>1 DEF NrPointers
  <2>2. CASE Len(s) # 0
    <3>1. Len(s) \in 1..Len(s)
      BY <1>3, <2>2
    <3>2. m.type = HORIZONTAL => s[Len(s)].y \in 1..m.nrRows
      BY <1>1, <1>4, <3>1
    <3> QED
      BY <1>2, <2>2, <3>2 DEF NrPointers
  <2> QED
    BY <2>1, <2>2
<1> QED
  BY <1>7, <1>8, <1>9 DEF Keeps, s

\* A record with the given fields.
MatrixFields == {"type", "rowptr", "elems", "nrRows", "nrCols"}
WindowFields == MatrixFields \cup {"rowStart", "first"}
Has(m, fields) == m = [f \in fields |-> m[f]]
\* A transformation changes no other field.
OtherFieldsKept(new, m, fields) == \A f \in fields \ {"type", "rowptr", "elems"} : new[f] = m[f]

\* A transformation leaves such a matrix, with the same items: it forgets nothing
\* of where it came from.
LEMMA TransformedKeeps ==
  ASSUME NEW m, NEW items, NEW at, Keeps(m, items, at),
         NEW fields, Has(m, fields), MatrixFields \subseteq fields, NEW t \in IterOrders
  PROVE  /\ Keeps(Transformed(m, t), items, at)
         /\ Has(Transformed(m, t), fields) /\ Transformed(m, t).type = t
         /\ OtherFieldsKept(Transformed(m, t), m, fields)
<1> DEFINE Moved(p) == TransformFn(m.type, t, p, m.nrRows, m.nrCols)
           MovedPoint(p) == [y |-> Moved(p).y, x |-> Moved(p).x, item |-> p.item]
           s == InRows(m.type, items, at, m.nrRows, m.nrCols)
           u == InRows(t, items, at, m.nrRows, m.nrCols)
           new == [m EXCEPT !.type = t, !.rowptr = RowPtrOf(u, 1), !.elems = ElemsOf(u)]
<1>1. m.type \in IterOrders /\ Lie(items, at, m.nrRows, m.nrCols)
  BY DEF Keeps
<1>2. Points(m) = s
  BY KeptPoints
<1>3. {MovedPoint(p) : p \in ToSet(s)} = AllPlaced(t, items, at, m.nrRows, m.nrCols)
  <2>1. /\ Stream(s)
        /\ \A k \in 1..Len(s) : /\ s[k].item \in items
                                /\ s[k] = Placed(m.type, s[k].item, at, m.nrRows, m.nrCols)
        /\ \A e \in items : \E k \in 1..Len(s) : s[k].item = e
    BY <1>1, InRowsIs
  <2>2. DOMAIN s = 1..Len(s)
    BY <2>1 DEF Stream, Rising
  <2> HIDE DEF s
  <2>3. ASSUME NEW k \in 1..Len(s)
        PROVE  MovedPoint(s[k]) = Placed(t, s[k].item, at, m.nrRows, m.nrCols)
    <3> DEFINE e == s[k].item
    <3>1. e \in items /\ s[k] = Placed(m.type, e, at, m.nrRows, m.nrCols)
      BY <2>1
    <3>2. RevXform(m.type, s[k], m.nrRows, m.nrCols) = at[e]
      BY <1>1, <3>1, PlacedMoves
    <3> QED
      BY Zenon, <3>2 DEF Placed, TransformFn
  <2>4. ToSet(s) = {s[k] : k \in 1..Len(s)}
    BY <2>2 DEF ToSet
  <2> HIDE DEF MovedPoint
  <2>5. {MovedPoint(p) : p \in ToSet(s)} = {MovedPoint(s[k]) : k \in 1..Len(s)}
    BY <2>4
  <2>6. {MovedPoint(s[k]) : k \in 1..Len(s)}
          = {Placed(t, s[k].item, at, m.nrRows, m.nrCols) : k \in 1..Len(s)}
    BY <2>3
  <2>7. {Placed(t, s[k].item, at, m.nrRows, m.nrCols) : k \in 1..Len(s)}
          = {Placed(t, e, at, m.nrRows, m.nrCols) : e \in items}
    BY <2>1
  <2> QED
    BY <2>5, <2>6, <2>7 DEF AllPlaced
<1>4. CASE t = m.type
  <2>1. Transformed(m, t) = m
    BY <1>4 DEF Transformed
  <2> QED
    BY <1>4, <2>1 DEF OtherFieldsKept
<1>5. CASE t # m.type
  <2>1. Transformed(m, t) = new
    <3>1. Sort({MovedPoint(p) : p \in ToSet(Points(m))}) = u
      BY <1>2, <1>3 DEF InRows
    <3> QED
      BY <1>5, <3>1 DEF Transformed
  <2> HIDE DEF u
  <2>2. /\ new.type = t /\ new.rowptr = RowPtrOf(u, 1) /\ new.elems = ElemsOf(u)
        /\ new.nrRows = m.nrRows /\ new.nrCols = m.nrCols
        /\ Has(new, fields)
        /\ \A f \in fields \ {"type", "rowptr", "elems"} : new[f] = m[f]
    BY DEF Has, MatrixFields
  <2> HIDE DEF new
  <2>3. u = InRows(new.type, items, at, new.nrRows, new.nrCols)
    BY <2>2 DEF u
  <2>4. Keeps(new, items, at)
    BY <1>1, <2>2, <2>3, BuiltKeeps
  <2> QED
    BY <2>1, <2>2, <2>4 DEF OtherFieldsKept
<1> QED
  BY <1>4, <1>5

\* The elements of m are the items of the points of s.
HasElems(m, items, s) ==
  /\ m.elems \in Seq([x : Int, item : items]) /\ Len(m.elems) = Len(s)
  /\ \A k \in 1..Len(s) : m.elems[k] = [x |-> s[k].x, item |-> s[k].item]
  /\ \A k \in 1..Len(s) : m.elems[k].item = s[k].item
  /\ {m.elems[k].item : k \in DOMAIN m.elems} = items

\* The elements of such a matrix are its items, each once.
LEMMA KeptElems ==
  ASSUME NEW m, NEW items, NEW at, Keeps(m, items, at)
  PROVE  HasElems(m, items, InRows(m.type, items, at, m.nrRows, m.nrCols))
<1> DEFINE s == InRows(m.type, items, at, m.nrRows, m.nrCols)
<1>0. s = InRows(m.type, items, at, m.nrRows, m.nrCols)
  OBVIOUS
<1> HIDE DEF s
<1>1. m.elems = [k \in 1..Len(s) |-> [x |-> s[k].x, item |-> s[k].item]]
  BY <1>0 DEF Keeps, Holds
<1>2. m.type \in IterOrders /\ Lie(items, at, m.nrRows, m.nrCols)
  BY DEF Keeps
<1>3. /\ Stream(s)
      /\ \A k \in 1..Len(s) : s[k].item \in items
      /\ \A e \in items : \E k \in 1..Len(s) : s[k].item = e
  BY <1>0, <1>2, InRowsIs
<1>4. Len(s) \in Nat /\ \A k \in 1..Len(s) : s[k].x \in Int
  BY <1>3 DEF Stream, Rising
<1> DEFINE T == [x : Int, item : items]
<1>5. m.elems \in [1..Len(s) -> T]
  BY <1>1, <1>3, <1>4
<1>6. \A k \in 1..Len(s) : m.elems[k] = [x |-> s[k].x, item |-> s[k].item]
  BY <1>1
<1>7. \A k \in 1..Len(s) : m.elems[k].item = s[k].item
  <2> TAKE k \in 1..Len(s)
  <2>1. m.elems[k] = [x |-> s[k].x, item |-> s[k].item]
    BY Zenon, <1>6
  <2> QED
    BY <2>1
<1>8. m.elems \in Seq(T) /\ Len(m.elems) = Len(s) /\ DOMAIN m.elems = 1..Len(s)
  <2> HIDE DEF T
  <2> QED
    BY <1>4, <1>5
<1>9. {m.elems[k].item : k \in 1..Len(s)} = items
  BY <1>3, <1>7
<1> QED
  BY <1>6, <1>7, <1>8, <1>9 DEF s, HasElems

-----------------------------------------------------------------------------
(***************************************************************************)
(* Sequences of anything.                                                  *)
(***************************************************************************)
IsSeq(s) == Len(s) \in Nat /\ s = [k \in 1..Len(s) |-> s[k]]

\* A function on 1 to n is a sequence of length n.
LEMMA FunctionIs ==
  ASSUME NEW n \in Nat, NEW s, s = [k \in 1..n |-> s[k]]
  PROVE  IsSeq(s) /\ Len(s) = n
  BY DEF IsSeq

\* A sequence is one of its elements.
LEMMA ElementsIn ==
  ASSUME NEW s, IsSeq(s), NEW S, \A k \in 1..Len(s) : s[k] \in S
  PROVE  s \in Seq(S)
<1>1. s \in [1..Len(s) -> S] /\ Len(s) \in Nat
  BY DEF IsSeq
<1> QED
  BY <1>1

\* Sequences of a set's elements are sequences.
LEMMA SeqIs ==
  ASSUME NEW S, NEW s \in Seq(S)
  PROVE  IsSeq(s)
<1>1. Len(s) \in Nat /\ s \in [1..Len(s) -> S]
  BY LenProperties
<1> QED
  BY <1>1 DEF IsSeq

\* One sequence after the other.
LEMMA ConcatIs ==
  ASSUME NEW s, IsSeq(s), NEW t, IsSeq(t)
  PROVE  /\ IsSeq(s \o t) /\ Len(s \o t) = Len(s) + Len(t)
         /\ \A k \in 1..Len(s) : (s \o t)[k] = s[k]
         /\ \A k \in 1..Len(t) : (s \o t)[Len(s) + k] = t[k]
         /\ \A k \in (Len(s) + 1)..(Len(s) + Len(t)) : (s \o t)[k] = t[k - Len(s)]
<1> DEFINE S == {s[k] : k \in 1..Len(s)} \cup {t[k] : k \in 1..Len(t)}
<1>1. s \in Seq(S) /\ t \in Seq(S)
  BY ElementsIn
<1>2. Len(s) \in Nat /\ Len(t) \in Nat
  BY DEF IsSeq
<1> HIDE DEF S
<1>3. /\ s \o t \in Seq(S) /\ Len(s \o t) = Len(s) + Len(t)
      /\ \A k \in 1..(Len(s) + Len(t)) : (s \o t)[k] = IF k <= Len(s) THEN s[k] ELSE t[k - Len(s)]
  BY Zenon, <1>1, ConcatProperties
<1>4. IsSeq(s \o t)
  BY Zenon, <1>3, SeqIs
<1> QED
  BY <1>2, <1>3, <1>4

\* One element more.
LEMMA AppendIs ==
  ASSUME NEW s, IsSeq(s), NEW e
  PROVE  /\ IsSeq(Append(s, e)) /\ Len(Append(s, e)) = Len(s) + 1
         /\ \A k \in 1..Len(s) : Append(s, e)[k] = s[k]
         /\ Append(s, e)[Len(s) + 1] = e
<1> DEFINE S == {s[k] : k \in 1..Len(s)} \cup {e}
<1>1. s \in Seq(S) /\ e \in S
  BY ElementsIn
<1>2. Len(s) \in Nat
  BY DEF IsSeq
<1> HIDE DEF S
<1>3. Append(s, e) \in Seq(S) /\ Len(Append(s, e)) = Len(s) + 1
  BY <1>1
<1>4. IsSeq(Append(s, e))
  BY Zenon, <1>3, SeqIs
<1>5. \A k \in 1..(Len(s) + 1) : Append(s, e)[k] = IF k = Len(s) + 1 THEN e ELSE s[k]
  BY <1>1
<1> QED
  BY <1>2, <1>3, <1>4, <1>5

\* A stretch of a sequence, maybe empty.
LEMMA StretchIs ==
  ASSUME NEW s, IsSeq(s), NEW i \in 1..(Len(s) + 1), NEW j \in (i - 1)..Len(s)
  PROVE  /\ IsSeq(SubSeq(s, i, j)) /\ Len(SubSeq(s, i, j)) = j - i + 1
         /\ \A k \in 1..(j - i + 1) : SubSeq(s, i, j)[k] = s[i + k - 1]
<1> DEFINE S == {s[k] : k \in 1..Len(s)}
<1>1. s \in Seq(S) /\ Len(s) \in Nat
  BY ElementsIn DEF IsSeq
<1> HIDE DEF S
<1>2. Len(SubSeq(s, i, j)) = j - i + 1 /\ j - i + 1 \in Nat
  BY <1>1
<1>3. \A k \in 1..(j - i + 1) : SubSeq(s, i, j)[k] = s[i + k - 1]
  BY <1>1
<1>4. SubSeq(s, i, j) \in Seq(S)
  BY <1>1
<1>5. IsSeq(SubSeq(s, i, j))
  BY Zenon, <1>4, SeqIs
<1> QED
  BY <1>2, <1>3, <1>5

\* All but the last element.
LEMMA FrontIs ==
  ASSUME NEW s, IsSeq(s), s # <<>>
  PROVE  /\ Len(s) \in Pos /\ Last(s) = s[Len(s)]
         /\ IsSeq(Front(s)) /\ Len(Front(s)) = Len(s) - 1
         /\ \A k \in 1..(Len(s) - 1) : Front(s)[k] = s[k]
<1>1. Len(s) \in Pos
  <2>1. Len(s) = 0 => s = <<>>
    BY DEF IsSeq
  <2> QED
    BY <2>1 DEF IsSeq, Pos
<1>2. 1 \in 1..(Len(s) + 1) /\ Len(s) - 1 \in (1 - 1)..Len(s) /\ (Len(s) - 1) - 1 + 1 = Len(s) - 1
  BY <1>1 DEF Pos
<1>3. /\ IsSeq(SubSeq(s, 1, Len(s) - 1)) /\ Len(SubSeq(s, 1, Len(s) - 1)) = (Len(s) - 1) - 1 + 1
      /\ \A k \in 1..((Len(s) - 1) - 1 + 1) : SubSeq(s, 1, Len(s) - 1)[k] = s[1 + k - 1]
  BY <1>2, StretchIs
<1>4. \A k \in 1..(Len(s) - 1) : 1 + k - 1 = k
  OBVIOUS
<1> QED
  BY <1>1, <1>2, <1>3, <1>4 DEF Front, Last

-----------------------------------------------------------------------------
(***************************************************************************)
(* Division, and multiples.                                                *)
(***************************************************************************)
\* Quotient and remainder.
LEMMA DivisionIs ==
  ASSUME NEW n \in Nat, NEW d \in Pos
  PROVE  /\ n \div d \in Nat /\ n % d \in 0..(d - 1)
         /\ n = (n \div d) * d + (n % d)
  BY DEF Pos

\* Multiples are apart by at least what they are multiples of.
LEMMA MultiplesApart ==
  ASSUME NEW j \in Int, NEW k \in Int, j < k, NEW d \in Nat
  PROVE  j * d \in Int /\ k * d \in Int /\ (k - 1) * d \in Int /\ (k - 1) * d = k * d - d
         /\ j * d <= (k - 1) * d
<1>1. PICK c \in Nat : k - 1 = j + c
  <2>1. (k - 1) - j \in Nat /\ k - 1 = j + ((k - 1) - j)
    OBVIOUS
  <2> QED
    BY <2>1
<1>2. (j + c) * d = j * d + c * d /\ c * d \in Nat /\ j * d \in Int /\ k * d \in Int
  OBVIOUS
<1>3. (k - 1) * d = k * d - d
  OBVIOUS
<1> QED
  BY <1>1, <1>2, <1>3

-----------------------------------------------------------------------------
(***************************************************************************)
(* What the encoder makes of a row: the elements of the new row stand for  *)
(* stretches of the old one, one after the other.                          *)
(***************************************************************************)
\* n stretches from[j] .. to[j] that make up a .. b.
Stretches(from, to, n, a, b) ==
  /\ \A j \in 1..n : from[j] \in a..b /\ to[j] \in from[j]..b
  /\ \A j, k \in 1..n : j < k => to[j] < from[k]
  /\ \A i \in a..b : \E j \in 1..n : from[j] <= i /\ i <= to[j]

\* Elements i .. j of a row can be a pattern of the order t: they are single
\* elements at its distance, and a block's elements begin at its alignment.
RunsAlong(p, t, old, i, j) ==
  /\ p = [order |-> t, delta |-> p.delta, size |-> p.size, other |-> p.other]
  /\ p.size = j - i + 1 /\ p.size \in Pos /\ p.delta \in Pos /\ p.other \in Nat
  /\ \A k \in i..j : ~HasPattern(old[k]) /\ old[k].x = old[i].x + (k - i) * p.delta
  /\ IsBlockType(t) # 0 => /\ p.delta = 1 /\ p.size = IsBlockType(t) * p.other
                           /\ (old[i].x - 1) % IsBlockType(t) = 0

\* The element e stands for elements i .. j of a row: it is the only one, or the
\* pattern of them all.
StandsFor(e, t, old, i, j) ==
  \/ i = j /\ e = old[i]
  \/ \E p : RunsAlong(p, t, old, i, j) /\ e = Unit(old, i, p)

\* The elements of new stand for elements a .. b of a row.
Covers(new, t, old, a, b) ==
  /\ IsSeq(new)
  /\ \E from, to : /\ Stretches(from, to, Len(new), a, b)
                   /\ \A j \in 1..Len(new) : StandsFor(new[j], t, old, from[j], to[j])

\* Nothing stands for nothing.
LEMMA CoversNothing ==
  ASSUME NEW t, NEW old, NEW a \in Int, NEW b, b = a - 1
  PROVE  Covers(<<>>, t, old, a, b)
<1>1. IsSeq(<<>>) /\ Len(<<>>) = 0
  BY DEF IsSeq
<1>2. Stretches(<<>>, <<>>, 0, a, b)
  BY DEF Stretches
<1> QED
  BY <1>1, <1>2 DEF Covers

\* Two stretches of a row.
LEMMA CoversBoth ==
  ASSUME NEW t, NEW old, NEW a \in Int, NEW b \in Int, NEW c \in Int, a - 1 <= b, b <= c,
         NEW s, Covers(s, t, old, a, b), NEW d, d = b + 1, NEW u, Covers(u, t, old, d, c)
  PROVE  Covers(s \o u, t, old, a, c)
<1> DEFINE m == Len(s)
           n == Len(u)
<1>1. PICK f1, t1 : /\ Stretches(f1, t1, m, a, b)
                    /\ \A j \in 1..m : StandsFor(s[j], t, old, f1[j], t1[j])
  BY DEF Covers
<1>2. PICK f2, t2 : /\ Stretches(f2, t2, n, b + 1, c)
                    /\ \A j \in 1..n : StandsFor(u[j], t, old, f2[j], t2[j])
  BY DEF Covers
<1>3. IsSeq(s) /\ IsSeq(u) /\ m \in Nat /\ n \in Nat
  BY DEF Covers, IsSeq
<1>4. /\ IsSeq(s \o u) /\ Len(s \o u) = m + n
      /\ \A k \in 1..m : (s \o u)[k] = s[k]
      /\ \A k \in (m + 1)..(m + n) : (s \o u)[k] = u[k - m]
  BY <1>3, ConcatIs
<1> DEFINE from == [j \in 1..(m + n) |-> IF j <= m THEN f1[j] ELSE f2[j - m]]
           to == [j \in 1..(m + n) |-> IF j <= m THEN t1[j] ELSE t2[j - m]]
<1> HIDE DEF m, n
<1>5. \A j \in 1..m : j \in 1..(m + n) /\ from[j] = f1[j] /\ to[j] = t1[j]
  BY <1>3
<1>6. \A j \in 1..n : /\ j + m \in 1..(m + n) /\ from[j + m] = f2[j] /\ to[j + m] = t2[j]
                      /\ j + m \in (m + 1)..(m + n)
  BY <1>3
<1>7. \A j \in 1..(m + n) : j \in 1..m \/ (j \in (m + 1)..(m + n) /\ j - m \in 1..n /\ (j - m) + m = j)
  BY <1>3
<1> HIDE DEF from, to
<1>8. \A j \in 1..(m + n) : from[j] \in a..c /\ to[j] \in from[j]..c
  <2> TAKE j \in 1..(m + n)
  <2>1. CASE j \in 1..m
    <3>1. f1[j] \in a..b /\ t1[j] \in f1[j]..b
      BY <1>1, <2>1 DEF Stretches
    <3> QED
      BY <1>5, <2>1, <3>1
  <2>2. CASE j - m \in 1..n /\ (j - m) + m = j
    <3>1. f2[j - m] \in (b + 1)..c /\ t2[j - m] \in f2[j - m]..c
      BY <1>2, <2>2 DEF Stretches
    <3>2. from[j] = f2[j - m] /\ to[j] = t2[j - m]
      BY <1>6, <2>2
    <3> QED
      BY <3>1, <3>2
  <2> QED
    BY <1>7, <2>1, <2>2
<1>9. ASSUME NEW j \in 1..(m + n), NEW k \in 1..(m + n), j < k PROVE to[j] < from[k]
  <2>1. CASE k \in 1..m
    <3>1. j \in 1..m
      BY <1>3, <1>9, <2>1
    <3>2. t1[j] < f1[k]
      BY <1>1, <1>9, <2>1, <3>1 DEF Stretches
    <3> QED
      BY <1>5, <2>1, <3>1, <3>2
  <2>2. CASE k - m \in 1..n /\ (k - m) + m = k /\ j \in 1..m
    <3>1. f2[k - m] \in (b + 1)..c /\ t1[j] \in f1[j]..b /\ f1[j] \in a..b
      BY <1>1, <1>2, <2>2 DEF Stretches
    <3>2. from[k] = f2[k - m] /\ to[j] = t1[j]
      BY <1>5, <1>6, <2>2
    <3> QED
      BY <3>1, <3>2
  <2>3. CASE k - m \in 1..n /\ (k - m) + m = k /\ j - m \in 1..n /\ (j - m) + m = j
    <3>1. j - m < k - m
      BY <1>3, <1>9
    <3>2. t2[j - m] < f2[k - m]
      BY <1>2, <2>3, <3>1 DEF Stretches
    <3>3. from[k] = f2[k - m] /\ to[j] = t2[j - m]
      BY <1>6, <2>3
    <3> QED
      BY <3>2, <3>3
  <2> QED
    BY <1>7, <2>1, <2>2, <2>3
<1>10. ASSUME NEW i \in a..c PROVE \E j \in 1..(m + n) : from[j] <= i /\ i <= to[j]
  <2>1. CASE i \in a..b
    <3>1. PICK j \in 1..m : f1[j] <= i /\ i <= t1[j]
      BY <1>1, <2>1 DEF Stretches
    <3> QED
      BY <1>5, <3>1
  <2>2. CASE i \in (b + 1)..c
    <3>1. PICK j \in 1..n : f2[j] <= i /\ i <= t2[j]
      BY <1>2, <2>2 DEF Stretches
    <3> QED
      BY <1>6, <3>1
  <2> QED
    BY <2>1, <2>2
<1>11. Stretches(from, to, m + n, a, c)
  BY <1>8, <1>9, <1>10 DEF Stretches
<1>12. \A j \in 1..(m + n) : StandsFor((s \o u)[j], t, old, from[j], to[j])
  <2> TAKE j \in 1..(m + n)
  <2>1. CASE j \in 1..m
    BY <1>1, <1>4, <1>5, <2>1
  <2>2. CASE j \in (m + 1)..(m + n) /\ j - m \in 1..n /\ (j - m) + m = j
    <3>1. from[j] = f2[j - m] /\ to[j] = t2[j - m] /\ (s \o u)[j] = u[j - m]
      BY <1>4, <1>6, <2>2
    <3> QED
      BY <1>2, <2>2, <3>1
  <2> QED
    BY <1>7, <2>1, <2>2
<1> QED
  BY <1>4, <1>11, <1>12 DEF Covers

\* The elements of group are single elements of a row, from the one after g on.
IsGroup(group, old, g) ==
  /\ IsSeq(group) /\ g \in Nat
  /\ \A i \in 1..Len(group) : /\ group[i] = old[g + i]
                              /\ ~HasPattern(group[i]) /\ group[i].x \in Int

\* Single elements stand for themselves.
LEMMA CoversSingles ==
  ASSUME NEW t, NEW old, NEW group, NEW g, IsGroup(group, old, g),
         NEW i \in Pos, NEW n \in Nat, i + n - 1 <= Len(group)
  PROVE  /\ Covers(Singles(group, i, n), t, old, g + i, g + i + n - 1)
         /\ Len(Singles(group, i, n)) = n
         /\ \A k \in 1..n : ~HasPattern(Singles(group, i, n)[k])
<1> DEFINE s == Singles(group, i, n)
           from == [j \in 1..n |-> g + i + j - 1]
<1>1. g \in Nat /\ i \in 1..(Len(group) + 1) /\ i + n - 1 \in (i - 1)..Len(group) /\ IsSeq(group)
      /\ (i + n - 1) - i + 1 = n /\ i >= 1 /\ i \in Nat
  BY DEF IsGroup, IsSeq, Pos
<1>2. /\ IsSeq(s) /\ Len(s) = (i + n - 1) - i + 1
      /\ \A k \in 1..((i + n - 1) - i + 1) : s[k] = group[i + k - 1]
  BY <1>1, StretchIs DEF Singles
<1> HIDE DEF s
<1>3. \A k \in 1..n : s[k] = group[i + k - 1]
  BY <1>1, <1>2
<1>4. \A k \in 1..n : s[k] = old[g + i + k - 1] /\ ~HasPattern(s[k])
  <2> TAKE k \in 1..n
  <2>1. i + k - 1 \in 1..Len(group) /\ g + (i + k - 1) = g + i + k - 1
    BY <1>1
  <2> QED
    BY <1>3, <2>1 DEF IsGroup
<1>5. \A j \in 1..n : from[j] = g + i + j - 1
  OBVIOUS
<1> HIDE DEF from
<1>6. Stretches(from, from, n, g + i, g + i + n - 1)
  <2>1. \A j \in 1..n : from[j] \in (g + i)..(g + i + n - 1) /\ from[j] \in from[j]..(g + i + n - 1)
    BY <1>1, <1>5
  <2>2. \A j, k \in 1..n : j < k => from[j] < from[k]
    BY <1>1, <1>5
  <2>3. \A k \in (g + i)..(g + i + n - 1) : \E j \in 1..n : from[j] <= k /\ k <= from[j]
    <3> TAKE k \in (g + i)..(g + i + n - 1)
    <3>1. k - g - i + 1 \in 1..n /\ g + i + (k - g - i + 1) - 1 = k
      BY <1>1
    <3>2. from[k - g - i + 1] = k
      BY <1>5, <3>1
    <3> QED
      BY <3>1, <3>2
  <2> QED
    BY <2>1, <2>2, <2>3 DEF Stretches
<1>7. \A j \in 1..n : StandsFor(s[j], t, old, from[j], from[j])
  BY <1>4, <1>5 DEF StandsFor
<1>8. Len(s) = n
  BY <1>1, <1>2
<1> QED
  BY <1>2, <1>4, <1>6, <1>7, <1>8 DEF Covers, s

\* An element that stands for several, or is a pattern of the order, has a pattern.
LEMMA UnitHasPattern ==
  ASSUME NEW t \in IterOrders, NEW old, NEW i, NEW j, NEW p, RunsAlong(p, t, old, i, j)
  PROVE  HasPattern(Unit(old, i, p))
<1>1. Unit(old, i, p).item.pattern = p
  BY DEF Unit
<1>2. p.order = t
  BY DEF RunsAlong
<1>3. t # <<"NONE", 0>>
  BY DEF IterOrders, HORIZONTAL, VERTICAL, DIAGONAL, REV_DIAGONAL, BLOCK_R, BLOCK_C
<1>4. NoPattern.order = <<"NONE", 0>>
  BY DEF NoPattern
<1> QED
  BY <1>1, <1>2, <1>3, <1>4 DEF HasPattern

\* Without the last element the last one of the row is left out, when that has no
\* pattern.
LEMMA CoversFront ==
  ASSUME NEW t \in IterOrders, NEW old, NEW a \in Int, NEW b \in Int, a <= b,
         NEW s, Covers(s, t, old, a, b)
  PROVE  /\ s # <<>> /\ Len(s) \in Pos /\ Last(s) = s[Len(s)]
         /\ ~HasPattern(Last(s)) => Last(s) = old[b] /\ Covers(Front(s), t, old, a, b - 1)
<1> DEFINE n == Len(s)
<1>1. PICK from, to : /\ Stretches(from, to, n, a, b)
                      /\ \A j \in 1..n : StandsFor(s[j], t, old, from[j], to[j])
  BY DEF Covers
<1>2. IsSeq(s) /\ n \in Nat
  BY DEF Covers, IsSeq
<1> HIDE DEF n
<1>3. PICK j \in 1..n : from[j] <= b /\ b <= to[j]
  BY <1>1 DEF Stretches
<1>4. n \in 1..n /\ s # <<>>
  <2>1. n # 0
    BY <1>2, <1>3
  <2>2. s = <<>> => n = 0
    BY DEF n
  <2> QED
    BY <1>2, <2>1, <2>2
<1>5. j = n /\ to[n] = b /\ from[n] \in a..b
  <2>1. from[n] \in a..b /\ to[n] \in from[n]..b /\ to[j] \in from[j]..b /\ from[j] \in a..b
    BY <1>1, <1>4 DEF Stretches
  <2>2. j < n => to[j] < from[n]
    BY <1>1, <1>4 DEF Stretches
  <2> QED
    BY <1>3, <1>4, <2>1, <2>2
<1>6. /\ n \in Pos /\ Last(s) = s[n]
      /\ IsSeq(Front(s)) /\ Len(Front(s)) = n - 1
      /\ \A k \in 1..(n - 1) : Front(s)[k] = s[k]
  BY <1>2, <1>4, FrontIs DEF n
<1>7. ASSUME ~HasPattern(Last(s)) PROVE from[n] = b /\ s[n] = old[b]
  <2>1. StandsFor(s[n], t, old, from[n], to[n])
    BY <1>1, <1>4
  <2>2. ~(\E p : RunsAlong(p, t, old, from[n], to[n]) /\ s[n] = Unit(old, from[n], p))
    BY <1>6, <1>7, UnitHasPattern
  <2> QED
    BY <1>5, <2>1, <2>2 DEF StandsFor
<1>8. ASSUME ~HasPattern(Last(s)) PROVE Stretches(from, to, n - 1, a, b - 1)
  <2>1. \A k \in 1..(n - 1) : k \in 1..n /\ k < n
    BY <1>2
  <2>2. \A k \in 1..(n - 1) : from[k] \in a..b /\ to[k] \in from[k]..b /\ to[k] < b
    BY <1>1, <1>4, <1>7, <1>8, <2>1 DEF Stretches
  <2>3. \A k \in 1..(n - 1) : from[k] \in a..(b - 1) /\ to[k] \in from[k]..(b - 1)
    BY <2>2
  <2>4. \A i, k \in 1..(n - 1) : i < k => to[i] < from[k]
    BY <1>1, <2>1 DEF Stretches
  <2>5. ASSUME NEW i \in a..(b - 1) PROVE \E k \in 1..(n - 1) : from[k] <= i /\ i <= to[k]
    <3>1. i \in a..b
      OBVIOUS
    <3>2. PICK k \in 1..n : from[k] <= i /\ i <= to[k]
      BY <1>1, <3>1 DEF Stretches
    <3>3. k # n
      BY <1>7, <1>8, <3>2
    <3> QED
      BY <1>2, <3>2, <3>3
  <2> QED
    BY <2>3, <2>4, <2>5 DEF Stretches
<1>9. ASSUME ~HasPattern(Last(s)) PROVE Covers(Front(s), t, old, a, b - 1)
  <2>1. \A k \in 1..(n - 1) : k \in 1..n
    BY <1>2
  <2>2. \A k \in 1..(n - 1) : StandsFor(Front(s)[k], t, old, from[k], to[k])
    BY <1>1, <1>6, <2>1
  <2> QED
    BY <1>6, <1>8, <1>9, <2>2 DEF Covers
<1> QED
  BY <1>4, <1>6, <1>7, <1>9 DEF n

\* The last element of the second of two sequences is that of both.
LEMMA LastOfBoth ==
  ASSUME NEW s, IsSeq(s), NEW u, IsSeq(u), Len(u) \in Pos
  PROVE  Last(s \o u) = u[Len(u)]
<1>1. /\ Len(s \o u) = Len(s) + Len(u)
      /\ \A k \in 1..Len(u) : (s \o u)[Len(s) + k] = u[k]
  BY ConcatIs
<1>2. Len(u) \in 1..Len(u)
  BY DEF Pos
<1> QED
  BY <1>1, <1>2 DEF Last

\* Several patterns of one size, one after the other.
LEMMA CoversUnits ==
  ASSUME NEW t, NEW old, NEW i \in Int, NEW n \in Nat, NEW size \in Pos,
         NEW p, p.size = size,
         \A k \in 1..n : RunsAlong(p, t, old, i + (k - 1) * size, i + k * size - 1),
         NEW s, s = [k \in 1..n |-> Unit(old, i + (k - 1) * size, p)]
  PROVE  Covers(s, t, old, i, i + n * size - 1)
<1> DEFINE from == [k \in 1..n |-> i + (k - 1) * size]
           to == [k \in 1..n |-> i + k * size - 1]
<1>1. IsSeq(s) /\ Len(s) = n
  BY FunctionIs
<1>2. size \in Nat /\ size >= 1
  BY DEF Pos
<1>3. /\ 0 * size = 0 /\ n * size \in Nat
      /\ \A k \in 1..n : /\ from[k] = i + (k - 1) * size /\ to[k] = i + k * size - 1
                         /\ (k - 1) * size \in Int /\ k * size \in Int
  BY <1>2
<1> HIDE DEF from, to
<1>4. \A k \in 1..n : k * size <= n * size
  <2> TAKE k \in 1..n
  <2>1. CASE k = n
    BY <1>3, <2>1
  <2>2. CASE k < n
    <3>1. k * size <= (n - 1) * size /\ (n - 1) * size = n * size - size
      BY <1>2, <2>2, MultiplesApart
    <3> QED
      BY <1>2, <1>3, <3>1
  <2> QED
    BY <2>1, <2>2
<1>5. \A k \in 1..n : k * size = (k - 1) * size + size /\ (k - 1) * size \in Nat
  BY <1>2
<1>6. \A k \in 1..n : from[k] \in i..(i + n * size - 1) /\ to[k] \in from[k]..(i + n * size - 1)
  <2> TAKE k \in 1..n
  <2> DEFINE a == (k - 1) * size
             b == k * size
             c == n * size
  <2>1. a \in Nat /\ b = a + size /\ b <= c /\ c \in Nat /\ from[k] = i + a /\ to[k] = i + b - 1
    BY <1>3, <1>4, <1>5
  <2> HIDE DEF a, b, c
  <2>2. from[k] \in i..(i + c - 1) /\ to[k] \in from[k]..(i + c - 1)
    BY <1>2, <2>1
  <2> QED
    BY <2>2 DEF c
<1>7. ASSUME NEW j \in 1..n, NEW k \in 1..n, j < k PROVE to[j] < from[k]
  <2> DEFINE a == (k - 1) * size
             b == j * size
  <2>1. b <= a /\ a \in Int /\ b \in Int
    BY <1>2, <1>7, MultiplesApart
  <2>2. from[k] = i + a /\ to[j] = i + b - 1
    BY <1>3
  <2> HIDE DEF a, b
  <2> QED
    BY <2>1, <2>2
<1>8. ASSUME NEW h \in i..(i + n * size - 1) PROVE \E k \in 1..n : from[k] <= h /\ h <= to[k]
  <2> DEFINE q == (h - i) \div size
             r == (h - i) % size
             c == n * size
             a == q * size
  <2>1. h - i \in Nat /\ c \in Nat /\ h - i <= c - 1
    BY <1>3
  <2>2. q \in Nat /\ r \in 0..(size - 1) /\ h - i = a + r
    BY <2>1, DivisionIs
  <2>3. a \in Nat
    BY <1>2, <2>2
  <2> HIDE DEF q, r
  <2>4. q < n
    <3> SUFFICES ASSUME n <= q PROVE FALSE
      BY <2>2
    <3>1. c <= a
      <4>1. CASE n = q
        BY <2>1, <2>3, <4>1
      <4>2. CASE n < q
        <5>1. n * size <= (q - 1) * size /\ (q - 1) * size = q * size - size
          BY <1>2, <2>2, <4>2, MultiplesApart
        <5> QED
          BY <1>2, <2>1, <2>3, <5>1
      <4> QED
        BY <2>2, <4>1, <4>2
    <3> HIDE DEF a, c
    <3> QED
      BY <1>2, <2>1, <2>2, <2>3, <3>1
  <2>5. q + 1 \in 1..n /\ (q + 1) - 1 = q /\ (q + 1) * size = a + size
    BY <1>2, <2>2, <2>4
  <2>6. from[q + 1] = i + a /\ to[q + 1] = i + (a + size) - 1
    BY <1>3, <2>5
  <2> HIDE DEF a, c
  <2>7. from[q + 1] <= h /\ h <= to[q + 1]
    BY <1>2, <2>1, <2>2, <2>3, <2>6
  <2> QED
    BY <2>5, <2>7
<1>9. Stretches(from, to, n, i, i + n * size - 1)
  BY <1>6, <1>7, <1>8 DEF Stretches
<1>10. \A k \in 1..n : StandsFor(s[k], t, old, from[k], to[k])
  BY <1>3 DEF StandsFor
<1> QED
  BY <1>1, <1>9, <1>10 DEF Covers

-----------------------------------------------------------------------------
(***************************************************************************)
(* RLEncode.                                                               *)
(***************************************************************************)
\* The runs of the first n elements of a group: maximal stretches of one distance.
RunsOf(runs, group, n) ==
  /\ IsSeq(runs) /\ (n = 0 <=> Len(runs) = 0)
  /\ \A k \in 1..Len(runs) :
       /\ runs[k] = [from |-> runs[k].from, val |-> runs[k].val, to |-> runs[k].to]
       /\ runs[k].from \in 1..n /\ runs[k].to \in runs[k].from..n
       /\ \A i \in runs[k].from..runs[k].to : Distance(group, i) = runs[k].val
  /\ Len(runs) # 0 => runs[1].from = 1 /\ runs[Len(runs)].to = n
  /\ \A k \in 1..(Len(runs) - 1) : /\ runs[k + 1].from = runs[k].to + 1
                                   /\ runs[k + 1].val # runs[k].val

\* One element more is in the last run, or in one of its own.
LEMMA OneMoreInRuns ==
  ASSUME NEW group, NEW n \in Nat, NEW runs, RunsOf(runs, group, n)
  PROVE  RunsOf(WithDistance(runs, n + 1, Distance(group, n + 1)), group, n + 1)
<1> DEFINE d == Distance(group, n + 1)
           len == Len(runs)
           new == WithDistance(runs, n + 1, d)
<1>1. IsSeq(runs) /\ len \in Nat /\ (n = 0 <=> len = 0) /\ (runs = <<>> => len = 0)
  BY DEF RunsOf, IsSeq
<1>2. len # 0 => runs # <<>> /\ Last(runs) = runs[len]
  BY <1>1 DEF Last
<1>3. d = Distance(group, n + 1)
  OBVIOUS
<1> HIDE DEF d
<1>4. CASE runs # <<>> /\ Last(runs).val = d
  <2>1. len \in 1..len /\ n # 0
    <3>1. len # 0
      <4>1. len = 0 => runs = <<>>
        BY DEF RunsOf, IsSeq
      <4> QED
        BY <1>4, <4>1
    <3> QED
      BY <1>1, <3>1
  <2> DEFINE last == [runs[len] EXCEPT !.to = n + 1]
  <2>2. new = [runs EXCEPT ![len] = last]
    BY <1>4 DEF WithDistance
  <2>3. runs = [k \in 1..len |-> runs[k]]
    BY <1>1 DEF IsSeq
  <2>4. last = [from |-> runs[len].from, val |-> runs[len].val, to |-> n + 1]
    <3>1. runs[len] = [from |-> runs[len].from, val |-> runs[len].val, to |-> runs[len].to]
      BY <2>1 DEF RunsOf
    <3> DEFINE r == runs[len]
    <3>2. r = [from |-> r.from, val |-> r.val, to |-> r.to]
      BY <3>1
    <3> HIDE DEF r
    <3>3. [r EXCEPT !.to = n + 1] = [from |-> r.from, val |-> r.val, to |-> n + 1]
      BY <3>2
    <3> QED
      BY <3>3 DEF r
  <2>5. new = [k \in 1..len |-> IF k = len THEN last ELSE runs[k]]
    <3> HIDE DEF last, new
    <3> QED
      BY <2>2, <2>3
  <2> HIDE DEF new, last
  <2>6. IsSeq(new) /\ Len(new) = len
    <3>1. new = [k \in 1..len |-> new[k]]
      BY <2>5
    <3> QED
      BY <1>1, <3>1, FunctionIs
  <2>7. new[len] = last /\ \A k \in 1..(len - 1) : k \in 1..len /\ new[k] = runs[k]
    BY <1>1, <2>1, <2>5
  <2>8. last.from = runs[len].from /\ last.val = runs[len].val /\ last.to = n + 1
    BY <2>4
  <2>9. runs[len].to = n /\ runs[len].from \in 1..n /\ runs[len].val = d
        /\ \A i \in runs[len].from..n : Distance(group, i) = d
    <3>1. runs[len].to = n
      BY <2>1 DEF RunsOf
    <3>2. /\ runs[len].from \in 1..n
          /\ \A i \in runs[len].from..runs[len].to : Distance(group, i) = runs[len].val
      BY <2>1 DEF RunsOf
    <3>3. runs[len].val = d
      BY <1>2, <1>4, <2>1
    <3> QED
      BY <3>1, <3>2, <3>3
  <2>10. ASSUME NEW k \in 1..len
         PROVE  /\ new[k] = [from |-> new[k].from, val |-> new[k].val, to |-> new[k].to]
                /\ new[k].from = runs[k].from /\ new[k].val = runs[k].val
                /\ new[k].from \in 1..(n + 1) /\ new[k].to \in new[k].from..(n + 1)
                /\ \A i \in new[k].from..new[k].to : Distance(group, i) = new[k].val
    <3>1. CASE k = len
      <4>1. new[k] = last
        BY <2>7, <3>1
      <4>2. last = [from |-> last.from, val |-> last.val, to |-> last.to]
        BY <2>4
      <4>3. \A i \in last.from..(n + 1) : i \in last.from..n \/ i = n + 1
        BY <2>8, <2>9
      <4> QED
        BY <1>3, <2>8, <2>9, <3>1, <4>1, <4>2, <4>3
    <3>2. CASE k # len
      <4>1. new[k] = runs[k]
        BY <2>7, <1>1, <3>2
      <4>2. /\ runs[k] = [from |-> runs[k].from, val |-> runs[k].val, to |-> runs[k].to]
            /\ runs[k].from \in 1..n /\ runs[k].to \in runs[k].from..n
            /\ \A i \in runs[k].from..runs[k].to : Distance(group, i) = runs[k].val
        BY DEF RunsOf
      <4> QED
        BY <4>1, <4>2
    <3> QED
      BY <3>1, <3>2
  <2>11. new[1].from = 1 /\ new[len].to = n + 1
    <3>1. runs[1].from = 1 /\ 1 \in 1..len
      BY <2>1 DEF RunsOf
    <3> QED
      BY <2>7, <2>8, <2>10, <3>1
  <2>12. ASSUME NEW k \in 1..(len - 1)
         PROVE  new[k + 1].from = new[k].to + 1 /\ new[k + 1].val # new[k].val
    <3>1. k \in 1..len /\ k + 1 \in 1..len /\ new[k] = runs[k]
      BY <1>1, <2>7
    <3>2. runs[k + 1].from = runs[k].to + 1 /\ runs[k + 1].val # runs[k].val
      BY DEF RunsOf
    <3> QED
      BY <2>10, <3>1, <3>2
  <2> QED
    BY <1>1, <2>1, <2>6, <2>10, <2>11, <2>12 DEF RunsOf, new, d
<1>5. CASE ~(runs # <<>> /\ Last(runs).val = d)
  <2> DEFINE last == [from |-> n + 1, val |-> d, to |-> n + 1]
  <2>1. new = Append(runs, last)
    BY <1>5 DEF WithDistance
  <2> HIDE DEF new
  <2>2. /\ IsSeq(new) /\ Len(new) = len + 1
        /\ \A k \in 1..len : new[k] = runs[k]
        /\ new[len + 1] = last
    BY <1>1, <2>1, AppendIs
  <2>3. ASSUME NEW k \in 1..(len + 1)
        PROVE  /\ new[k] = [from |-> new[k].from, val |-> new[k].val, to |-> new[k].to]
               /\ new[k].from \in 1..(n + 1) /\ new[k].to \in new[k].from..(n + 1)
               /\ \A i \in new[k].from..new[k].to : Distance(group, i) = new[k].val
    <3>1. CASE k = len + 1
      <4>1. new[k] = last
        BY <2>2, <3>1
      <4>2. \A i \in (n + 1)..(n + 1) : i = n + 1
        OBVIOUS
      <4> QED
        BY <1>3, <4>1, <4>2
    <3>2. CASE k # len + 1
      <4>1. new[k] = runs[k] /\ k \in 1..len
        BY <2>2, <1>1, <3>2
      <4>2. /\ runs[k] = [from |-> runs[k].from, val |-> runs[k].val, to |-> runs[k].to]
            /\ runs[k].from \in 1..n /\ runs[k].to \in runs[k].from..n
            /\ \A i \in runs[k].from..runs[k].to : Distance(group, i) = runs[k].val
        BY <4>1 DEF RunsOf
      <4> QED
        BY <4>1, <4>2
    <3> QED
      BY <3>1, <3>2
  <2>4. new[1].from = 1 /\ new[len + 1].to = n + 1
    <3>1. CASE len = 0
      BY <1>1, <2>2, <3>1
    <3>2. CASE len # 0
      <4>1. runs[1].from = 1 /\ 1 \in 1..len
        BY <1>1, <3>2 DEF RunsOf
      <4> QED
        BY <2>2, <4>1
    <3> QED
      BY <3>1, <3>2
  <2>5. ASSUME NEW k \in 1..len
        PROVE  new[k + 1].from = new[k].to + 1 /\ new[k + 1].val # new[k].val
    <3>1. CASE k = len
      <4>1. len # 0 /\ runs # <<>> /\ Last(runs) = runs[len] /\ new[k + 1] = last /\ new[k] = runs[k]
        BY <1>2, <1>1, <2>2, <3>1
      <4>2. runs[len].to = n /\ runs[len].val # d
        BY <1>5, <4>1 DEF RunsOf
      <4> QED
        BY <3>1, <4>1, <4>2
    <3>2. CASE k # len
      <4>1. k \in 1..(len - 1) /\ k \in 1..len /\ k + 1 \in 1..len
        BY <1>1, <3>2
      <4>2. new[k] = runs[k] /\ new[k + 1] = runs[k + 1]
        BY <2>2, <4>1
      <4>3. runs[k + 1].from = runs[k].to + 1 /\ runs[k + 1].val # runs[k].val
        BY <4>1 DEF RunsOf
      <4> QED
        BY <4>2, <4>3
    <3> QED
      BY <3>1, <3>2
  <2>6. (len + 1) - 1 = len /\ len + 1 # 0 /\ n + 1 # 0
    BY <1>1
  <2> QED
    BY <2>2, <2>3, <2>4, <2>5, <2>6 DEF RunsOf, new, d
<1> QED
  BY <1>4, <1>5

\* The runs of a group.
LEMMA RunsAre ==
  ASSUME NEW group, IsSeq(group)
  PROVE  RunsOf(Runs(group), group, Len(group))
<1> DEFINE n == Len(group)
           Next1(f, i) == WithDistance(f[i - 1], i, Distance(group, i))
           Obeys(f, k) == f = [i \in 0..k |-> IF i = 0 THEN <<>> ELSE Next1(f, i)]
           Has1 == {k \in 0..n : \E f : Obeys(f, k)}
<1>1. n \in Nat
  BY DEF IsSeq
<1> HIDE DEF n
<1>2. 0 \in Has1
  <2> DEFINE f == [i \in 0..0 |-> <<>>]
  <2>1. f = [i \in 0..0 |-> IF i = 0 THEN <<>> ELSE Next1(f, i)]
    <3>1. \A i \in 0..0 : i = 0
      OBVIOUS
    <3> HIDE DEF Next1
    <3> QED
      BY <3>1
  <2>2. Obeys(f, 0)
    BY <2>1
  <2> HIDE DEF Obeys
  <2> QED
    BY <1>1, <2>2
<1>3. ASSUME NEW k \in 0..(n - 1), k \in Has1 PROVE k + 1 \in Has1
  <2>1. PICK f : Obeys(f, k)
    BY <1>3
  <2> DEFINE step(s, i) == WithDistance(s, i, Distance(group, i))
             g == [i \in 0..(k + 1) |-> IF i = k + 1 THEN step(f[k], k + 1) ELSE f[i]]
  <2>2. /\ f[0] = <<>> /\ \A i \in 1..k : f[i] = step(f[i - 1], i)
    <3> HIDE DEF step
    <3>1. f = [i \in 0..k |-> IF i = 0 THEN <<>> ELSE step(f[i - 1], i)]
      BY <2>1 DEF step
    <3>2. 0 \in 0..k /\ \A i \in 1..k : i \in 0..k /\ i # 0
      OBVIOUS
    <3> QED
      BY <3>1, <3>2
  <2> HIDE DEF step
  <2>3. g[k + 1] = step(f[k], k + 1) /\ \A i \in 0..k : g[i] = f[i]
    OBVIOUS
  <2>4. ASSUME NEW i \in 0..(k + 1)
        PROVE  g[i] = IF i = 0 THEN <<>> ELSE step(g[i - 1], i)
    <3> HIDE DEF g
    <3>1. CASE i = 0
      BY <2>2, <2>3, <3>1
    <3>2. CASE i \in 1..k
      BY <2>2, <2>3, <3>2
    <3>3. CASE i = k + 1
      <4>1. i - 1 = k /\ i # 0
        BY <3>3
      <4> QED
        BY <2>3, <3>3, <4>1
    <3> QED
      BY <3>1, <3>2, <3>3
  <2>5. g = [i \in 0..(k + 1) |-> g[i]]
    OBVIOUS
  <2> HIDE DEF g
  <2>6. g = [i \in 0..(k + 1) |-> IF i = 0 THEN <<>> ELSE step(g[i - 1], i)]
    BY <2>4, <2>5
  <2>7. Obeys(g, k + 1)
    BY <2>6 DEF step
  <2>8. k + 1 \in 0..n
    BY <1>1
  <2> HIDE DEF Obeys
  <2> QED
    BY <2>7, <2>8
<1>4. n \in Has1
  <2> HIDE DEF Has1
  <2>1. 0..n \subseteq Has1
    <3>1. 0 \in Int /\ n \in Int
      BY <1>1
    <3> QED
      BY Zenon, <1>2, <1>3, <3>1, IntervalInduction
  <2> QED
    BY <1>1, <2>1
<1> DEFINE rles == CHOOSE f : Obeys(f, n)
<1>5. Runs(group) = rles[n]
  BY DEF Runs, n
<1>6. Obeys(rles, n)
  <2>1. \E f : Obeys(f, n)
    BY <1>4
  <2> HIDE DEF Obeys
  <2> QED
    BY <2>1
<1> HIDE DEF rles
<1>7. rles[0] = <<>> /\ \A i \in 1..n : rles[i] = WithDistance(rles[i - 1], i, Distance(group, i))
  <2> DEFINE step(i) == WithDistance(rles[i - 1], i, Distance(group, i))
  <2> HIDE DEF step
  <2>1. rles = [i \in 0..n |-> IF i = 0 THEN <<>> ELSE step(i)]
    BY <1>6 DEF step
  <2>2. 0 \in 0..n /\ \A i \in 1..n : i \in 0..n /\ i # 0
    BY <1>1
  <2>3. rles[0] = <<>> /\ \A i \in 1..n : rles[i] = step(i)
    BY <2>1, <2>2
  <2> QED
    BY <2>3 DEF step
<1> DEFINE S == {i \in 0..n : RunsOf(rles[i], group, i)}
<1>8. 0 \in S
  <2>1. RunsOf(<<>>, group, 0)
    BY DEF RunsOf, IsSeq
  <2> QED
    BY <1>1, <1>7, <2>1
<1>9. ASSUME NEW i \in 0..(n - 1), i \in S PROVE i + 1 \in S
  <2>1. i + 1 \in 1..n /\ (i + 1) - 1 = i /\ i + 1 \in 0..n /\ i \in Nat
    BY <1>1
  <2>2. rles[i + 1] = WithDistance(rles[i], i + 1, Distance(group, i + 1))
    BY <1>7, <2>1
  <2>3. RunsOf(rles[i], group, i)
    BY <1>9
  <2> QED
    BY <2>1, <2>2, <2>3, OneMoreInRuns
<1>10. n \in S
  <2> HIDE DEF S
  <2>1. 0..n \subseteq S
    <3>1. 0 \in Int /\ n \in Int
      BY <1>1
    <3> QED
      BY Zenon, <1>8, <1>9, <3>1, IntervalInduction
  <2> QED
    BY <1>1, <2>1
<1> QED
  BY <1>5, <1>10 DEF n

-----------------------------------------------------------------------------
(***************************************************************************)
(* DoEncode, a run at a time.                                              *)
(***************************************************************************)
IsRun(rle, group) ==
  /\ rle.from \in 1..Len(group) /\ rle.to \in rle.from..Len(group)
  /\ \A i \in rle.from..rle.to : Distance(group, i) = rle.val

\* Elements that follow each other at a distance are at its multiples from the first.
LEMMA Evenly ==
  ASSUME NEW group, NEW d \in Int, NEW i \in Int, NEW j \in Int,
         \A k \in i..j : group[k].x \in Int,
         \A k \in (i + 1)..j : group[k].x - group[k - 1].x = d
  PROVE  \A k \in i..j : group[k].x = group[i].x + (k - i) * d
<1> DEFINE S == {k \in i..j : group[k].x = group[i].x + (k - i) * d}
<1>1. i <= j => i \in S
  <2>1. i - i = 0 /\ 0 * d = 0
    OBVIOUS
  <2> QED
    BY <2>1
<1>2. ASSUME NEW k \in i..(j - 1), k \in S PROVE k + 1 \in S
  <2>1. k + 1 \in (i + 1)..j /\ k + 1 \in i..j /\ (k + 1) - 1 = k /\ k \in i..j /\ i \in i..j
    OBVIOUS
  <2>2. group[k + 1].x - group[k].x = d /\ group[k].x = group[i].x + (k - i) * d
    BY <1>2, <2>1
  <2>3. ((k + 1) - i) * d = (k - i) * d + d
    BY <2>1
  <2> DEFINE a == (k - i) * d
             b == ((k + 1) - i) * d
             u == group[i].x
             v == group[k].x
             w == group[k + 1].x
  <2>4. a \in Int /\ b = a + d
    BY <2>1, <2>3
  <2>5. u \in Int /\ v \in Int /\ w \in Int /\ w - v = d /\ v = u + a
    BY <2>1, <2>2
  <2> HIDE DEF a, b, u, v, w
  <2>6. w = u + b
    BY <2>4, <2>5
  <2>7. group[k + 1].x = group[i].x + ((k + 1) - i) * d
    BY Zenon, <2>6 DEF b, u, w
  <2> QED
    BY Zenon, <2>1, <2>7
<1>3. i..j \subseteq S
  <2> HIDE DEF S
  <2> QED
    BY Zenon, <1>1, <1>2, IntervalInduction
<1> QED
  BY <1>3

\* A pattern of a group's elements is one of the row's.
LEMMA UnitOfGroup ==
  ASSUME NEW old, NEW group, NEW g, IsGroup(group, old, g),
         NEW i \in Pos, NEW p, p.size \in Pos, i + p.size - 1 <= Len(group)
  PROVE  Unit(group, i, p) = Unit(old, g + i, p)
<1>1. \A k \in 1..p.size : group[i + k - 1] = old[(g + i) + k - 1]
  <2> TAKE k \in 1..p.size
  <2>1. i + k - 1 \in 1..Len(group) /\ g + (i + k - 1) = (g + i) + k - 1
    BY DEF IsGroup, IsSeq, Pos
  <2> QED
    BY <2>1 DEF IsGroup
<1>2. group[i].x = old[g + i].x
  <2>1. i \in 1..Len(group)
    BY DEF IsGroup, IsSeq, Pos
  <2> QED
    BY <2>1 DEF IsGroup
<1> QED
  BY <1>1, <1>2 DEF Unit

\* A pattern stands for its elements.
LEMMA CoversUnit ==
  ASSUME NEW t, NEW old, NEW i \in Int, NEW j \in Int, i <= j,
         NEW p, RunsAlong(p, t, old, i, j)
  PROVE  Covers(<<Unit(old, i, p)>>, t, old, i, j)
<1> DEFINE s == <<Unit(old, i, p)>>
<1>1. IsSeq(s) /\ Len(s) = 1 /\ s[1] = Unit(old, i, p)
  <2> DEFINE u == Unit(old, i, p)
  <2> HIDE DEF u
  <2>1. Len(<<u>>) = 1 /\ <<u>>[1] = u /\ <<u>> = [k \in 1..1 |-> u]
    OBVIOUS
  <2>2. <<u>> = [k \in 1..1 |-> <<u>>[k]]
    BY <2>1
  <2> QED
    BY <2>1, <2>2 DEF IsSeq, u
<1>2. StandsFor(s[1], t, old, i, j)
  BY <1>1 DEF StandsFor
<1> DEFINE from == [k \in 1..1 |-> i]
           to == [k \in 1..1 |-> j]
<1>3. from[1] = i /\ to[1] = j
  OBVIOUS
<1> HIDE DEF from, to, s
<1>4. Stretches(from, to, 1, i, j)
  BY <1>3 DEF Stretches
<1>5. \A k \in 1..1 : k = 1
  OBVIOUS
<1>6. \A k \in 1..1 : StandsFor(s[k], t, old, from[k], to[k])
  BY <1>2, <1>3, <1>5
<1> QED
  BY <1>1, <1>4, <1>6 DEF Covers, s

\* Patterns of one size, of a group's elements.
LEMMA CoversChunks ==
  ASSUME NEW t, NEW old, NEW group, NEW g, IsGroup(group, old, g),
         NEW i \in Pos, NEW n \in Nat, NEW size \in Pos, i + n * size - 1 <= Len(group),
         NEW p, p.size = size,
         \A k \in 1..n : RunsAlong(p, t, old, (g + i) + (k - 1) * size, (g + i) + k * size - 1),
         NEW s, s = [k \in 1..n |-> Unit(group, i + (k - 1) * size, p)]
  PROVE  Covers(s, t, old, g + i, g + i + n * size - 1)
<1>1. g \in Nat /\ size \in Nat /\ i \in Nat /\ i >= 1 /\ size >= 1 /\ Len(group) \in Nat
  BY DEF IsGroup, IsSeq, Pos
<1>2. \A k \in 1..n : Unit(group, i + (k - 1) * size, p) = Unit(old, (g + i) + (k - 1) * size, p)
  <2> TAKE k \in 1..n
  <2> DEFINE a == (k - 1) * size
             b == n * size
  <2>1. a \in Nat /\ b \in Nat /\ a + size <= b
    <3>1. k * size = a + size /\ a \in Nat /\ b \in Nat /\ k * size \in Nat
      BY <1>1
    <3>2. CASE k = n
      BY <3>1, <3>2
    <3>3. CASE k < n
      <4>1. k * size <= (n - 1) * size /\ (n - 1) * size = n * size - size
        BY <1>1, <3>3, MultiplesApart
      <4> DEFINE c == k * size
                 d == (n - 1) * size
      <4>2. c = a + size /\ c <= d /\ d = b - size
        BY <3>1, <4>1
      <4> HIDE DEF a, b, c, d
      <4> QED
        BY <1>1, <3>1, <4>2
    <3> QED
      BY <3>2, <3>3
  <2>2. i + b - 1 <= Len(group)
    OBVIOUS
  <2> HIDE DEF a, b
  <2>3. i + a \in Pos /\ (i + a) + p.size - 1 <= Len(group) /\ g + (i + a) = (g + i) + a
    BY <1>1, <2>1, <2>2 DEF Pos
  <2>4. Unit(group, i + a, p) = Unit(old, g + (i + a), p)
    BY <2>3, UnitOfGroup
  <2> QED
    BY <2>3, <2>4 DEF a
<1>3. s = [k \in 1..n |-> Unit(old, (g + i) + (k - 1) * size, p)]
  BY <1>2
<1>4. Covers(s, t, old, g + i, (g + i) + n * size - 1)
  <2>1. g + i \in Int
    BY <1>1
  <2> QED
    BY <1>3, <2>1, CoversUnits
<1> QED
  BY <1>4

\* DoEncode: runs along the row become patterns of the order, with the element
\* before them if that is still a single one.
LEMMA EncodeRunCovers ==
  ASSUME NEW t \in IterOrders, IsBlockType(t) = 0, NEW old, NEW group, NEW g,
         IsGroup(group, old, g), NEW deltas \in SUBSET Pos, NEW rle, IsRun(rle, group),
         NEW encoded, Covers(encoded, t, old, 1, g + rle.from - 1)
  PROVE  Covers(EncodeRun(group, deltas, t, encoded, rle), t, old, 1, g + rle.to)
<1> DEFINE from == rle.from
           to == rle.to
           d == rle.val
           freq == to - from + 1
           takes == from > 1 /\ ~HasPattern(Last(encoded))
           start == IF takes THEN from - 1 ELSE from
           before == IF takes THEN Front(encoded) ELSE encoded
           n == to - start + 1
           whole == n \div MaxLimit
           rest == n % MaxLimit
           tail == start + whole * MaxLimit
           new == EncodeRun(group, deltas, t, encoded, rle)
           chunks == [k \in 1..whole |->
                        Unit(group, start + (k - 1) * MaxLimit, DeltaRLE(MaxLimit, d, t))]
           end == IF rest >= MinLimit THEN <<Unit(group, tail, DeltaRLE(rest, d, t))>>
                                      ELSE Singles(group, tail, rest)
<1>1. /\ from \in Pos /\ to \in from..Len(group) /\ Len(group) \in Nat /\ g \in Nat
      /\ \A i \in from..to : Distance(group, i) = d
      /\ freq \in Pos /\ from + freq - 1 = to /\ to \in Nat
      /\ \A i \in 1..Len(group) : group[i].x \in Int
      /\ MaxLimit \in Pos /\ MinLimit \in Nat /\ 2 <= MinLimit
  BY LimitsAssumption DEF IsRun, IsGroup, IsSeq, Pos
<1>2. new = IF freq = 1 \/ d \notin deltas THEN encoded \o Singles(group, from, freq)
            ELSE before \o chunks \o end
  BY DEF EncodeRun
<1>3. CASE freq = 1 \/ d \notin deltas
  <2>1. new = encoded \o Singles(group, from, freq)
    BY <1>2, <1>3
  <2> HIDE DEF from, to, d, freq, new
  <2>2. Covers(Singles(group, from, freq), t, old, g + from, g + from + freq - 1)
    <3>1. from \in Pos /\ freq \in Nat /\ from + freq - 1 <= Len(group)
      BY <1>1 DEF Pos
    <3> QED
      BY Zenon, <3>1, CoversSingles
  <2>3. /\ g + from + freq - 1 = g + to /\ g + from - 1 \in Int /\ g + to \in Int
        /\ 1 - 1 <= g + from - 1 /\ g + from - 1 <= g + to /\ g + from = (g + from - 1) + 1
    BY <1>1 DEF Pos
  <2>4. Covers(encoded, t, old, 1, g + from - 1)
    BY DEF from
  <2>5. Covers(encoded \o Singles(group, from, freq), t, old, 1, g + to)
    BY <2>2, <2>3, <2>4, CoversBoth
  <2> QED
    BY <2>1, <2>5 DEF new, to
<1>4. CASE ~(freq = 1 \/ d \notin deltas)
  <2>1. new = before \o chunks \o end /\ d \in Pos
    BY <1>2, <1>4
  <2> HIDE DEF new, from, to, d, freq
  <2>2. /\ start \in Pos /\ start <= to /\ from - 1 <= start /\ start <= from
        /\ Covers(before, t, old, 1, g + start - 1)
        /\ start < from => from > 1
    <3>0. Covers(encoded, t, old, 1, g + from - 1)
      BY DEF from
    <3>1. CASE takes
      <4>1. g + from - 1 \in Int /\ 1 <= g + from - 1 /\ (g + from - 1) - 1 = g + (from - 1) - 1
        BY <1>1, <3>1 DEF Pos
      <4>2. Covers(Front(encoded), t, old, 1, (g + from - 1) - 1)
        BY <3>0, <3>1, <4>1, CoversFront
      <4>3. before = Front(encoded) /\ start = from - 1
        BY <3>1
      <4> HIDE DEF before, start, takes
      <4>4. from > 1
        BY <3>1 DEF takes
      <4>5. start \in Pos /\ start <= to /\ from - 1 <= start /\ start <= from
            /\ (g + from - 1) - 1 = g + start - 1
        BY <1>1, <4>1, <4>3, <4>4 DEF Pos
      <4>6. Covers(before, t, old, 1, g + start - 1)
        BY Zenon, <4>2, <4>3, <4>5
      <4> QED
        BY <4>4, <4>5, <4>6
    <3>2. CASE ~takes
      <4>1. before = encoded /\ start = from
        BY <3>2
      <4> HIDE DEF before, start, takes
      <4> QED
        BY <1>1, <3>0, <4>1 DEF Pos
    <3> QED
      BY <3>1, <3>2
  <2> HIDE DEF start, before, takes
  <2>3. \A k \in (start + 1)..to : group[k].x - group[k - 1].x = d
    <3> TAKE k \in (start + 1)..to
    <3>1. k \in from..to /\ k # 1
      BY <1>1, <2>2 DEF Pos
    <3>2. Distance(group, k) = d
      BY <1>1, <3>1
    <3> QED
      BY <3>1, <3>2 DEF Distance
  <2>4. \A k \in start..to : group[k].x = group[start].x + (k - start) * d
    <3>1. \A k \in start..to : group[k].x \in Int
      BY <1>1, <2>2 DEF Pos
    <3>2. start \in Int /\ to \in Int /\ d \in Int
      BY <1>1, <2>1, <2>2 DEF Pos
    <3> QED
      BY ONLY <2>3, <3>1, <3>2, Evenly
  <2>5. ASSUME NEW i \in start..to, NEW j \in i..to
        PROVE  RunsAlong(DeltaRLE(j - i + 1, d, t), t, old, g + i, g + j)
    <3> DEFINE p == DeltaRLE(j - i + 1, d, t)
    <3>1. /\ p.order = t /\ p.delta = d /\ p.size = j - i + 1 /\ p.other = 0
          /\ p = [order |-> t, delta |-> p.delta, size |-> p.size, other |-> p.other]
      BY DEF DeltaRLE
    <3> HIDE DEF p
    <3>2. i \in Int /\ j \in Int /\ start \in Int /\ to \in Int /\ i <= j /\ g \in Int /\ d \in Int
      BY <1>1, <2>1, <2>2 DEF Pos
    <3>3. ASSUME NEW k \in (g + i)..(g + j)
          PROVE  ~HasPattern(old[k]) /\ old[k].x = old[g + i].x + (k - (g + i)) * d
      <4> DEFINE h == k - g
      <4>1. h \in i..j /\ h \in start..to /\ i \in start..to /\ g + h = k /\ h - i = k - (g + i)
            /\ h \in 1..Len(group) /\ i \in 1..Len(group)
        BY <1>1, <2>2, <3>2 DEF Pos
      <4>2. /\ group[h] = old[g + h] /\ group[i] = old[g + i]
            /\ ~HasPattern(group[h]) /\ group[h].x \in Int /\ group[i].x \in Int
        BY <4>1 DEF IsGroup
      <4>3. group[h].x = group[start].x + (h - start) * d /\ group[i].x = group[start].x + (i - start) * d
        BY <2>4, <4>1
      <4>4. group[start].x \in Int
        BY <1>1, <2>2 DEF Pos
      <4>5. (h - start) * d = (i - start) * d + (h - i) * d
        BY <3>2, <4>1
      <4> DEFINE a == (h - start) * d
                 b == (i - start) * d
                 c == (h - i) * d
      <4>6. a = b + c /\ a \in Int /\ b \in Int /\ c \in Int
            /\ group[h].x = group[start].x + a /\ group[i].x = group[start].x + b
        BY <3>2, <4>1, <4>3, <4>5
      <4> HIDE DEF a, b, c, h
      <4>7. group[h].x = group[i].x + c
        BY <4>2, <4>4, <4>6
      <4>8. c = (k - (g + i)) * d
        BY <4>1 DEF c
      <4> QED
        BY <4>1, <4>2, <4>7, <4>8
    <3>4. p.size = (g + j) - (g + i) + 1 /\ p.size \in Pos
      BY <3>1, <3>2 DEF Pos
    <3>5. \A k \in (g + i)..(g + j) : ~HasPattern(old[k]) /\ old[k].x = old[g + i].x + (k - (g + i)) * p.delta
      BY <3>1, <3>3
    <3>6. p.delta \in Pos /\ p.other \in Nat
      BY <2>1, <3>1
    <3> QED
      BY <3>1, <3>4, <3>5, <3>6 DEF RunsAlong, p
  <2>6. /\ whole \in Nat /\ rest \in 0..(MaxLimit - 1) /\ n = whole * MaxLimit + rest
        /\ whole * MaxLimit \in Nat /\ n \in Nat
    <3>1. n \in Nat
      BY <1>1, <2>2 DEF Pos
    <3> HIDE DEF n
    <3>2. whole \in Nat /\ rest \in 0..(MaxLimit - 1) /\ n = whole * MaxLimit + rest
      BY <1>1, <3>1, DivisionIs
    <3>3. MaxLimit \in Nat
      BY LimitsAssumption
    <3> HIDE DEF whole, rest
    <3> QED
      BY <3>1, <3>2, <3>3
  <2> DEFINE w == whole * MaxLimit
  <2>7. /\ n = to - start + 1 /\ w \in Nat /\ n = w + rest /\ tail = start + w
        /\ rest \in 0..(MaxLimit - 1)
    BY <2>6
  <2> HIDE DEF n, rest, tail, end
  <2>8. Covers(chunks, t, old, g + start, g + start + w - 1)
    <3> DEFINE p == DeltaRLE(MaxLimit, d, t)
    <3>1. p.size = MaxLimit
      BY DEF DeltaRLE
    <3>2. \A k \in 1..whole : RunsAlong(p, t, old, (g + start) + (k - 1) * MaxLimit,
                                        (g + start) + k * MaxLimit - 1)
      <4> TAKE k \in 1..whole
      <4> DEFINE a == (k - 1) * MaxLimit
                 b == k * MaxLimit
      <4>1. a \in Nat /\ b = a + MaxLimit /\ b <= w /\ b \in Nat
        <5>1. a \in Nat /\ b = a + MaxLimit /\ b \in Nat /\ MaxLimit \in Nat
          <6> HIDE DEF whole
          <6>1. MaxLimit \in Nat /\ k \in Nat /\ k >= 1
            BY <2>6, LimitsAssumption
          <6> QED
            BY <6>1
        <5>2. CASE k = whole
          BY <2>6, <5>1, <5>2
        <5>3. CASE k < whole
          <6> HIDE DEF whole
          <6>1. k * MaxLimit <= (whole - 1) * MaxLimit /\ (whole - 1) * MaxLimit = whole * MaxLimit - MaxLimit
            BY <2>6, <5>1, <5>3, MultiplesApart
          <6> DEFINE c == (whole - 1) * MaxLimit
          <6>2. b <= c /\ c = w - MaxLimit
            BY <6>1
          <6> HIDE DEF b, c, w
          <6> QED
            BY <2>7, <5>1, <6>2
        <5> HIDE DEF whole
        <5> QED
          BY <2>6, <5>1, <5>2, <5>3
      <4> HIDE DEF a, b, w
      <4>2. /\ start + a \in start..to /\ start + b - 1 \in (start + a)..to
            /\ (start + b - 1) - (start + a) + 1 = MaxLimit
        BY <1>1, <2>2, <2>7, <4>1 DEF Pos
      <4>3. RunsAlong(DeltaRLE((start + b - 1) - (start + a) + 1, d, t), t, old,
                      g + (start + a), g + (start + b - 1))
        BY Zenon, <2>5, <4>2
      <4>4. g + (start + a) = (g + start) + a /\ g + (start + b - 1) = (g + start) + b - 1
        BY <1>1, <2>2, <4>1 DEF Pos
      <4> QED
        BY <4>2, <4>3, <4>4 DEF a, b
    <3>3. start + whole * MaxLimit - 1 <= Len(group)
      <4>1. w = whole * MaxLimit
        OBVIOUS
      <4> HIDE DEF w, whole
      <4>2. to \in Int /\ Len(group) \in Int /\ to <= Len(group) /\ start \in Int
        BY <1>1, <2>2 DEF Pos
      <4>3. rest \in Nat /\ w \in Int /\ to - start + 1 = w + rest
        BY <1>1, <2>7 DEF Pos
      <4>4. start + w - 1 <= Len(group)
        BY <4>2, <4>3
      <4> QED
        BY <4>1, <4>4
    <3> HIDE DEF whole, p
    <3>4. chunks = [k \in 1..whole |-> Unit(group, start + (k - 1) * MaxLimit, p)]
      BY DEF p
    <3> HIDE DEF chunks
    <3>5. Covers(chunks, t, old, g + start, g + start + whole * MaxLimit - 1)
      BY Zenon, <1>1, <2>2, <2>6, <3>1, <3>2, <3>3, <3>4, CoversChunks
    <3> QED
      BY <3>5
  <2> HIDE DEF chunks, w
  <2>9. Covers(end, t, old, g + start + w, g + to)
    <3>1. CASE rest >= MinLimit
      <4> DEFINE p == DeltaRLE(rest, d, t)
      <4>1. /\ tail \in start..to /\ to \in tail..to /\ to - tail + 1 = rest /\ rest \in Pos
            /\ rest <= MaxLimit /\ tail \in Pos
        BY <1>1, <2>2, <2>7, <3>1 DEF Pos
      <4>2. RunsAlong(DeltaRLE(to - tail + 1, d, t), t, old, g + tail, g + to)
        BY <2>5, <4>1
      <4>3. p.size = rest /\ tail + rest - 1 <= Len(group)
        BY <1>1, <4>1 DEF DeltaRLE, Pos
      <4>4. Unit(group, tail, p) = Unit(old, g + tail, p)
        <5> HIDE DEF p
        <5> QED
          BY <4>1, <4>3, UnitOfGroup
      <4>5. RunsAlong(p, t, old, g + tail, g + to)
        BY <4>1, <4>2
      <4>6. g + tail \in Int /\ g + to \in Int /\ g + tail <= g + to /\ g + tail = g + start + w
        BY <1>1, <2>2, <2>7, <4>1 DEF Pos
      <4>7. end = <<Unit(old, g + tail, p)>>
        BY <3>1, <4>4 DEF end
      <4> HIDE DEF p
      <4>8. Covers(<<Unit(old, g + tail, p)>>, t, old, g + tail, g + to)
        BY <4>5, <4>6, CoversUnit
      <4> QED
        BY <4>6, <4>7, <4>8
    <3>2. CASE ~(rest >= MinLimit)
      <4>1. tail \in Pos /\ rest \in Nat /\ tail + rest - 1 <= Len(group)
            /\ g + tail = g + start + w /\ g + tail + rest - 1 = g + to
        BY <1>1, <2>2, <2>7 DEF Pos
      <4>2. Covers(Singles(group, tail, rest), t, old, g + tail, g + tail + rest - 1)
        BY <4>1, CoversSingles
      <4>3. end = Singles(group, tail, rest)
        BY <3>2 DEF end
      <4> QED
        BY <4>1, <4>2, <4>3
    <3> QED
      BY <3>1, <3>2
  <2>10. /\ g + start - 1 \in Int /\ g + start + w - 1 \in Int /\ g + to \in Int
         /\ 1 - 1 <= g + start - 1 /\ g + start - 1 <= g + start + w - 1
         /\ g + start = (g + start - 1) + 1 /\ g + start + w = (g + start + w - 1) + 1
         /\ 1 - 1 <= g + start + w - 1 /\ g + start + w - 1 <= g + to
    BY <1>1, <2>2, <2>7 DEF Pos
  <2>11. Covers(before \o chunks, t, old, 1, g + start + w - 1)
    BY <2>2, <2>8, <2>10, CoversBoth
  <2>12. Covers((before \o chunks) \o end, t, old, 1, g + to)
    BY <2>9, <2>10, <2>11, CoversBoth
  <2> QED
    BY <2>1, <2>12 DEF new, to
<1> QED
  BY <1>3, <1>4

-----------------------------------------------------------------------------
(***************************************************************************)
(* DoEncodeBlock and DoEncodeBlockAlt, a run at a time.                    *)
(***************************************************************************)
\* Multiples of a block's alignment stay on it.
LEMMA StaysAligned ==
  ASSUME NEW align \in 1..8, NEW x \in Int, x % align = 0, NEW a \in Nat
  PROVE  (x + align * a) % align = 0 /\ (align * a) \div align = a /\ align * a \in Nat
<1>1. align \in {1, 2, 3, 4, 5, 6, 7, 8}
  OBVIOUS
<1>2. CASE align = 1  BY <1>2
<1>3. CASE align = 2  BY <1>3
<1>4. CASE align = 3  BY <1>4
<1>5. CASE align = 4  BY <1>5
<1>6. CASE align = 5  BY <1>6
<1>7. CASE align = 6  BY <1>7
<1>8. CASE align = 7  BY <1>8
<1>9. CASE align = 8  BY <1>9
<1> QED
  BY <1>1, <1>2, <1>3, <1>4, <1>5, <1>6, <1>7, <1>8, <1>9

\* What is skipped leads to the alignment, and what is left over is cut off.
LEMMA SkipsToAlignment ==
  ASSUME NEW align \in 1..8, NEW x \in Int, NEW n \in Nat,
         NEW skip, skip = (align - (x % align)) % align
  PROVE  /\ skip \in 0..(align - 1) /\ (x + skip) % align = 0
         /\ n - (n % align) = align * (n \div align)
         /\ n \div align \in Nat /\ align * (n \div align) \in 0..n
<1>1. align \in {1, 2, 3, 4, 5, 6, 7, 8}
  OBVIOUS
<1>2. CASE align = 1  BY <1>2
<1>3. CASE align = 2  BY <1>3
<1>4. CASE align = 3  BY <1>4
<1>5. CASE align = 4  BY <1>5
<1>6. CASE align = 5  BY <1>6
<1>7. CASE align = 6  BY <1>7
<1>8. CASE align = 7  BY <1>8
<1>9. CASE align = 8  BY <1>9
<1> QED
  BY <1>1, <1>2, <1>3, <1>4, <1>5, <1>6, <1>7, <1>8, <1>9

\* The part of a run that blocks are taken from: consecutive columns from an aligned
\* one on, in whole rows of the block.
IsAligned(part, group, rle, align) ==
  /\ part.first \in Pos /\ part.first <= rle.from /\ rle.from - 1 <= part.first
  /\ part.from \in Nat /\ part.first <= part.from
  /\ part.n \in Nat /\ part.n = align * (part.n \div align) /\ part.n \div align \in Nat
  /\ part.n > 0 => /\ part.from + part.n - 1 <= rle.to
                   /\ (group[part.from].x - 1) % align = 0
  /\ \A k \in part.first..rle.to : group[k].x = group[part.first].x + (k - part.first)

\* Aligned takes whole blocks of a run, from an aligned column on.
LEMMA AlignedIs ==
  ASSUME NEW old, NEW group, NEW g, IsGroup(group, old, g), NEW align \in 1..8,
         NEW rle, IsRun(rle, group), rle.val = 1
  PROVE  IsAligned(Aligned(group, rle, align), group, rle, align)
<1> DEFINE from == rle.from
           to == rle.to
           first == IF group[from].x = 1 THEN from ELSE from - 1
           x == group[first].x - 1
           skip == (align - (x % align)) % align
           n == to - first + 1
           usable == IF n > skip THEN n - skip ELSE 0
           part == Aligned(group, rle, align)
<1>1. part = [first |-> first, from |-> first + skip, n |-> usable - (usable % align)]
  BY DEF Aligned
<1>2. part.first = first /\ part.from = first + skip /\ part.n = usable - (usable % align)
  BY <1>1
<1> HIDE DEF part
<1>3. /\ from \in Nat /\ from >= 1 /\ to \in Nat /\ from <= to /\ to <= Len(group)
      /\ Len(group) \in Nat
      /\ \A i \in from..to : Distance(group, i) = 1
      /\ \A i \in 1..Len(group) : group[i].x \in Int
  BY DEF IsRun, IsGroup, IsSeq, Pos
<1> HIDE DEF from, to
<1>4. first \in Nat /\ first >= 1 /\ first <= from /\ from - 1 <= first
  <2>1. CASE group[from].x = 1
    BY <1>3, <2>1
  <2>2. CASE group[from].x # 1
    <3>1. Distance(group, from) = 1
      BY <1>3
    <3>2. from # 1
      BY <2>2, <3>1 DEF Distance
    <3> QED
      BY <1>3, <2>2, <3>2
  <2> QED
    BY <2>1, <2>2
<1> HIDE DEF first
<1>5. \A k \in first..to : group[k].x = group[first].x + (k - first)
  <2>1. \A k \in first..to : group[k].x \in Int
    BY <1>3, <1>4
  <2>2. \A k \in (first + 1)..to : group[k].x - group[k - 1].x = 1
    <3> TAKE k \in (first + 1)..to
    <3>1. k \in from..to /\ k # 1
      BY <1>3, <1>4
    <3>2. Distance(group, k) = 1
      BY <1>3, <3>1
    <3> QED
      BY <3>1, <3>2 DEF Distance
  <2> DEFINE d == 1
  <2>3. first \in Int /\ to \in Int /\ d \in Int
    BY <1>3, <1>4
  <2>4. \A k \in (first + 1)..to : group[k].x - group[k - 1].x = d
    BY <2>2
  <2>5. \A k \in first..to : (k - first) * d = k - first
    BY <1>3, <1>4
  <2> HIDE DEF d
  <2>6. \A k \in first..to : group[k].x = group[first].x + (k - first) * d
    BY ONLY <2>1, <2>3, <2>4, Evenly
  <2> QED
    BY <2>5, <2>6
<1>6. x \in Int /\ n \in Nat
  BY <1>3, <1>4
<1>7. /\ skip \in 0..(align - 1) /\ (x + skip) % align = 0
  <2> HIDE DEF x
  <2> QED
    BY <1>6, SkipsToAlignment
<1>8. usable \in Nat
  <2> HIDE DEF skip, n
  <2> QED
    BY <1>6, <1>7
<1>9. /\ usable - (usable % align) = align * (usable \div align) /\ usable \div align \in Nat
      /\ align * (usable \div align) \in 0..usable
  <2> HIDE DEF usable
  <2> QED
    BY <1>6, <1>8, SkipsToAlignment
<1>10. /\ part.n \in Nat /\ part.n = align * (part.n \div align) /\ part.n \div align \in Nat
       /\ part.n <= usable
  <2> HIDE DEF usable
  <2> DEFINE q == usable \div align
  <2>1. part.n = align * q /\ q \in Nat /\ align * q \in 0..usable
    BY <1>2, <1>9
  <2> HIDE DEF q
  <2>2. (align * q) \div align = q
    <3>1. 0 \in Int /\ 0 % align = 0
      <4>1. align \in {1, 2, 3, 4, 5, 6, 7, 8}
        OBVIOUS
      <4> QED
        BY <4>1
    <3> QED
      BY <2>1, <3>1, StaysAligned
  <2> QED
    BY <1>8, <2>1, <2>2
<1>11. ASSUME part.n > 0
       PROVE  part.from + part.n - 1 <= to /\ (group[part.from].x - 1) % align = 0
  <2>1. usable > 0
    <3> HIDE DEF usable
    <3> QED
      BY <1>8, <1>10, <1>11
  <2>2. usable = n - skip
    BY <2>1
  <2> HIDE DEF usable, skip, x
  <2>3. part.from + part.n - 1 <= to /\ part.from \in first..to
    BY <1>2, <1>3, <1>4, <1>7, <1>8, <1>10, <1>11, <2>2
  <2>4. group[part.from].x = group[first].x + (part.from - first) /\ part.from - first = skip
    BY <1>2, <1>3, <1>4, <1>5, <1>7, <2>3
  <2>5. group[first].x \in Int
    BY <1>3, <1>4
  <2>6. group[part.from].x - 1 = x + skip
    BY <1>7, <2>4, <2>5 DEF x
  <2> QED
    BY <1>7, <2>3, <2>6
<1>12. part.first \in Pos /\ part.from \in Nat /\ part.first <= part.from
  <2> HIDE DEF skip
  <2> QED
    BY <1>2, <1>4, <1>7 DEF Pos
<1>13. \A k \in part.first..to : group[k].x = group[part.first].x + (k - part.first)
  BY <1>2, <1>5
<1> QED
  BY <1>2, <1>4, <1>10, <1>11, <1>12, <1>13 DEF IsAligned, from, to, part

-----------------------------------------------------------------------------
(***************************************************************************)
(* Blocks of one size.                                                     *)
(***************************************************************************)
MultiplesFit(align, dim, size, k, n) ==
  /\ size \in Pos /\ (k - 1) * size \in Nat /\ k * size = (k - 1) * size + size
  /\ n * size \in Nat /\ k * size <= n * size
  /\ (k - 1) * dim \in Nat /\ (k - 1) * size = align * ((k - 1) * dim)

\* Multiples of a multiple.
LEMMA MultiplesOf ==
  ASSUME NEW align \in 1..8, NEW dim \in Pos, NEW size, size = dim * align,
         NEW k \in Pos, NEW n \in Nat, k <= n
  PROVE  MultiplesFit(align, dim, size, k, n)
<1>1. align \in Nat /\ align >= 1 /\ dim \in Nat /\ dim >= 1 /\ k \in Nat /\ k >= 1
  BY DEF Pos
<1>2. size \in Nat /\ size >= 1
  <2>1. align \in {1, 2, 3, 4, 5, 6, 7, 8}
    OBVIOUS
  <2> QED
    BY <1>1, <2>1
<1>3. (k - 1) * dim \in Nat
  BY <1>1
<1>4. (k - 1) * (dim * align) = align * ((k - 1) * dim)
  BY <1>1
<1>5. /\ (k - 1) * size \in Nat /\ k * size = (k - 1) * size + size /\ k * size \in Nat
      /\ n * size \in Nat
  <2> HIDE DEF Pos
  <2>1. size \in Int /\ k \in Int /\ n \in Nat /\ size >= 0 /\ k - 1 \in Nat
    BY <1>1, <1>2
  <2> QED
    BY <1>1, <1>2, <2>1
<1>6. k * size <= n * size
  <2>1. CASE k = n
    BY <1>5, <2>1
  <2>2. CASE k < n
    <3>1. k * size <= (n - 1) * size /\ (n - 1) * size = n * size - size
      BY <1>1, <1>2, <2>2, MultiplesApart
    <3> DEFINE a == k * size
               b == n * size
               c == (n - 1) * size
    <3>2. a <= c /\ c = b - size /\ a \in Nat /\ b \in Nat
      BY <1>5, <3>1
    <3> HIDE DEF a, b, c
    <3>3. a <= b
      BY <1>2, <3>2
    <3> QED
      BY <3>3 DEF a, b
  <2> QED
    BY <1>1, <2>1, <2>2
<1> QED
  BY <1>2, <1>3, <1>4, <1>5, <1>6 DEF Pos, MultiplesFit

\* Blocks of one size, one after the other, from an aligned column on.
LEMMA CoversBlocks ==
  ASSUME NEW t, NEW align \in 1..8, IsBlockType(t) = align,
         NEW old, NEW group, NEW g, IsGroup(group, old, g),
         NEW i \in Pos, NEW n \in Nat, NEW dim \in Pos, NEW size, size = dim * align,
         NEW end, end = i + n * size - 1, end <= Len(group),
         \A k \in i..end : group[k].x = group[i].x + (k - i),
         n > 0 => (group[i].x - 1) % align = 0,
         NEW s, s = [k \in 1..n |-> Unit(group, i + (k - 1) * size, BlockRLE(size, dim, t))]
  PROVE  Covers(s, t, old, g + i, g + i + n * size - 1)
<1> DEFINE p == BlockRLE(size, dim, t)
<1>1. /\ p = [order |-> t, delta |-> p.delta, size |-> p.size, other |-> p.other]
      /\ p.delta = 1 /\ p.size = size /\ p.other = dim
  BY DEF BlockRLE
<1>2. size \in Pos
  <2>1. align \in {1, 2, 3, 4, 5, 6, 7, 8}
    OBVIOUS
  <2>2. dim \in Pos /\ size = dim * align
    OBVIOUS
  <2> QED
    BY ONLY <2>1, <2>2 DEF Pos
<1>3. dim \in Nat /\ i \in Nat /\ i >= 1 /\ g \in Nat /\ Len(group) \in Nat
  BY DEF Pos, IsGroup, IsSeq
<1>4. size = IsBlockType(t) * dim
  BY <1>3
<1> HIDE DEF p
<1>5. ASSUME NEW k \in 1..n
      PROVE  RunsAlong(p, t, old, (g + i) + (k - 1) * size, (g + i) + k * size - 1)
  <2> DEFINE b == (k - 1) * dim
             c == (k - 1) * size
             e == k * size
             m == n * size
             h == i + c
  <2>1. /\ b \in Nat /\ c = align * b /\ c \in Nat /\ e = c + size /\ e <= m /\ m \in Nat
        /\ size \in Nat /\ size >= 1
    <3>1. k \in Pos /\ k <= n
      BY DEF Pos
    <3>2. MultiplesFit(align, dim, size, k, n)
      <4>1. /\ align \in 1..8 /\ dim \in Pos /\ size = dim * align /\ k \in Pos /\ n \in Nat
            /\ k <= n
        BY <3>1
      <4> QED
        BY ONLY <4>1, MultiplesOf
    <3>3. /\ size \in Pos /\ (k - 1) * size \in Nat /\ k * size = (k - 1) * size + size
          /\ n * size \in Nat /\ k * size <= n * size
          /\ (k - 1) * dim \in Nat /\ (k - 1) * size = align * ((k - 1) * dim)
      BY Zenon, <3>2 DEF MultiplesFit
    <3> QED
      BY <3>3 DEF Pos
  <2>2. end = i + m - 1
    OBVIOUS
  <2> HIDE DEF b, c, e, m
  <2>3. /\ h \in Nat /\ h \in i..end /\ h + size - 1 \in h..end /\ i \in i..end
        /\ \A j \in i..end : j \in 1..Len(group)
    <3>1. end <= Len(group)
      OBVIOUS
    <3> QED
      BY ONLY <1>3, <2>1, <2>2, <3>1 DEF h
  <2>4. \A j \in i..end : /\ group[j] = old[g + j] /\ ~HasPattern(group[j])
                          /\ group[j].x \in Int
    BY <2>3 DEF IsGroup
  <2>5. \A j \in i..end : group[j].x = group[i].x + (j - i)
    OBVIOUS
  <2>6. group[h].x = group[i].x + c
    BY <1>3, <2>1, <2>3, <2>4, <2>5
  <2>7. (group[h].x - 1) % align = 0
    <3> DEFINE x == group[i].x - 1
    <3>1. x \in Int /\ x % align = 0
      <4>1. n > 0
        OBVIOUS
      <4>2. x % align = 0
        BY Zenon, <4>1
      <4>3. group[i].x \in Int
        BY Zenon, <2>3, <2>4
      <4> QED
        BY ONLY <4>2, <4>3
    <3>2. group[h].x - 1 = x + c
      <4>1. group[i].x \in Int
        BY Zenon, <2>3, <2>4
      <4> QED
        BY ONLY <2>1, <2>6, <4>1
    <3> HIDE DEF x
    <3>3. (x + align * b) % align = 0
      BY <2>1, <3>1, StaysAligned
    <3> QED
      BY <2>1, <3>2, <3>3
  <2>8. (g + i) + (k - 1) * size = g + h /\ (g + i) + k * size - 1 = g + h + size - 1
    <3>1. (g + i) + c = g + h /\ (g + i) + e - 1 = g + h + size - 1
      BY <1>3, <2>1
    <3> QED
      BY <3>1 DEF c, e
  <2> HIDE DEF h
  <2>9. ASSUME NEW j \in (g + h)..(g + h + size - 1)
        PROVE  ~HasPattern(old[j]) /\ old[j].x = old[g + h].x + (j - (g + h)) * 1
    <3> DEFINE f == j - g
    <3>1. f \in i..end /\ g + f = j /\ f - h = (j - (g + h)) * 1 /\ f \in Int
      BY <1>3, <2>1, <2>3
    <3> HIDE DEF f
    <3>2. /\ group[f] = old[j] /\ ~HasPattern(group[f]) /\ group[h] = old[g + h]
      BY <2>3, <2>4, <3>1
    <3>3. group[f].x = group[i].x + (f - i) /\ group[h].x = group[i].x + (h - i)
      BY <2>3, <2>5, <3>1
    <3>4. group[f].x = group[h].x + (f - h)
      <4> DEFINE u == group[f].x
                 v == group[h].x
                 w == group[i].x
      <4>1. u = w + (f - i) /\ v = w + (h - i) /\ w \in Int
        BY <2>3, <2>4, <3>3
      <4> HIDE DEF u, v, w
      <4>2. u = v + (f - h)
        BY <1>3, <2>3, <3>1, <4>1
      <4> QED
        BY <4>2 DEF u, v
    <3> QED
      BY <3>1, <3>2, <3>4
  <2>10. /\ p.size = (g + h + size - 1) - (g + h) + 1 /\ p.size \in Pos /\ p.delta \in Pos
         /\ p.other \in Nat
    <3>1. size = (g + h + size - 1) - (g + h) + 1
      BY ONLY <1>3, <2>1, <2>3
    <3> QED
      BY <1>1, <1>2, <1>3, <3>1 DEF Pos
  <2>11. (old[g + h].x - 1) % align = 0
    BY <2>3, <2>4, <2>7
  <2>12. \A j \in (g + h)..(g + h + size - 1) :
           ~HasPattern(old[j]) /\ old[j].x = old[g + h].x + (j - (g + h)) * p.delta
    BY <1>1, <2>9
  <2>13. RunsAlong(p, t, old, g + h, g + h + size - 1)
    BY <1>1, <1>4, <2>10, <2>11, <2>12 DEF RunsAlong
  <2> QED
    BY <2>8, <2>13
<1>6. s = [k \in 1..n |-> Unit(group, i + (k - 1) * size, p)]
  BY DEF p
<1>7. i + n * size - 1 <= Len(group)
  OBVIOUS
<1>8. p.size = size
  BY <1>1
<1>9. n \in Nat
  OBVIOUS
<1>10. \A k \in 1..n : RunsAlong(p, t, old, (g + i) + (k - 1) * size, (g + i) + k * size - 1)
  BY <1>5
<1>11. IsGroup(group, old, g) /\ i \in Pos
  OBVIOUS
<1> QED
  BY ONLY <1>2, <1>6, <1>7, <1>8, <1>9, <1>10, <1>11, CoversChunks

\* A run whose blocks stand for a part of it, when the element before them is single.
LEMMA WithBlocksCovers ==
  ASSUME NEW t \in IterOrders, NEW old, NEW group, NEW g, IsGroup(group, old, g),
         NEW rle, IsRun(rle, group),
         NEW encoded, Covers(encoded, t, old, 1, g + rle.from - 1),
         NEW part, part.first \in Pos, part.first <= rle.from, rle.from - 1 <= part.first,
         part.first < rle.from => ~HasPattern(Last(encoded)),
         part.from \in Nat, part.first <= part.from,
         NEW done \in part.from..(rle.to + 1),
         NEW blocks, Covers(blocks, t, old, g + part.from, g + done - 1)
  PROVE  Covers(WithBlocks(group, rle, encoded, part, blocks, done), t, old, 1, g + rle.to)
<1> DEFINE from == rle.from
           to == rle.to
           first == part.first
           begin == part.from
           before == IF first < from THEN Front(encoded) ELSE encoded
           head == Singles(group, first, begin - first)
           tail == Singles(group, done, to - done + 1)
<1>1. WithBlocks(group, rle, encoded, part, blocks, done) = before \o head \o blocks \o tail
  BY DEF WithBlocks
<1>2. /\ from \in Nat /\ to \in Nat /\ from >= 1 /\ from <= to /\ to <= Len(group)
      /\ Len(group) \in Nat /\ g \in Nat
  BY DEF IsRun, IsGroup, IsSeq, Pos
<1>3. /\ first \in Nat /\ first >= 1 /\ first <= from /\ from - 1 <= first
      /\ begin \in Nat /\ first <= begin /\ done \in begin..(to + 1)
  BY DEF Pos
<1>4. /\ Covers(encoded, t, old, 1, g + from - 1)
      /\ Covers(blocks, t, old, g + begin, g + done - 1)
      /\ first < from => ~HasPattern(Last(encoded))
  BY Zenon
<1> HIDE DEF from, to, first, begin
<1>5. Covers(before, t, old, 1, g + first - 1)
  <2>1. CASE first < from
    <3> DEFINE b == g + from - 1
    <3>1. b \in Int /\ 1 <= b /\ b - 1 = g + first - 1
      BY <1>2, <1>3, <2>1
    <3>2. Covers(encoded, t, old, 1, b) /\ 1 \in Int
      BY <1>4
    <3>3. before = Front(encoded) /\ ~HasPattern(Last(encoded))
      BY <1>4, <2>1
    <3> HIDE DEF b, before
    <3>4. Covers(Front(encoded), t, old, 1, b - 1)
      BY <3>1, <3>2, <3>3, CoversFront
    <3> QED
      BY Zenon, <3>1, <3>3, <3>4
  <2>2. CASE ~(first < from)
    <3>1. first = from /\ before = encoded
      BY <1>2, <1>3, <2>2
    <3> QED
      BY Zenon, <1>4, <3>1
  <2> QED
    BY <2>1, <2>2
<1>6. Covers(head, t, old, g + first, g + begin - 1)
  <2>1. /\ first \in Pos /\ begin - first \in Nat /\ first + (begin - first) - 1 <= Len(group)
        /\ g + first + (begin - first) - 1 = g + begin - 1
    BY <1>2, <1>3 DEF Pos
  <2> DEFINE n == begin - first
  <2>2. first \in Pos /\ n \in Nat /\ first + n - 1 <= Len(group) /\ g + first + n - 1 = g + begin - 1
    BY <2>1
  <2> HIDE DEF n
  <2>3. Covers(Singles(group, first, n), t, old, g + first, g + first + n - 1)
    BY <2>2, CoversSingles
  <2> QED
    BY <2>2, <2>3 DEF n
<1>7. Covers(tail, t, old, g + done, g + to)
  <2> DEFINE n == to - done + 1
  <2>1. done \in Nat /\ done >= 1 /\ n \in Nat /\ done + n - 1 = to /\ g + done + n - 1 = g + to
    BY <1>2, <1>3
  <2> HIDE DEF n
  <2>2. done \in Pos /\ done + n - 1 <= Len(group)
    BY <1>2, <2>1 DEF Pos
  <2>3. Covers(Singles(group, done, n), t, old, g + done, g + done + n - 1)
    BY <2>1, <2>2, CoversSingles
  <2> QED
    BY <2>1, <2>3 DEF n
<1> HIDE DEF before, head, tail
<1> DEFINE b == g + first - 1
           c == g + begin - 1
           e == g + done - 1
           f == g + to
<1>8. /\ b \in Int /\ c \in Int /\ e \in Int /\ f \in Int /\ 1 \in Int
      /\ 1 - 1 <= b /\ b <= c /\ c <= e /\ e <= f /\ 1 - 1 <= c /\ 1 - 1 <= e
      /\ g + first = b + 1 /\ g + begin = c + 1 /\ g + done = e + 1
  BY <1>2, <1>3
<1>9. /\ Covers(before, t, old, 1, b) /\ Covers(head, t, old, g + first, c)
      /\ Covers(blocks, t, old, g + begin, e) /\ Covers(tail, t, old, g + done, f)
  BY Zenon, <1>4, <1>5, <1>6, <1>7
<1> HIDE DEF b, c, e, f
<1>10. Covers(before \o head, t, old, 1, c)
  BY <1>8, <1>9, CoversBoth
<1>11. Covers((before \o head) \o blocks, t, old, 1, e)
  BY <1>8, <1>9, <1>10, CoversBoth
<1>12. Covers(((before \o head) \o blocks) \o tail, t, old, 1, f)
  BY <1>8, <1>9, <1>11, CoversBoth
<1> QED
  BY <1>1, <1>12 DEF f, to

\* The sizes of EncodeBlockRun: as many blocks of one size as the part holds.
BlockSizing(align, n, limit, size, count, dim) ==
  /\ align \in 1..8 /\ align <= MaxLimit
  /\ n \in Nat /\ n \div align \in Nat /\ n = align * (n \div align) /\ n >= 2 * align
  /\ limit = (MaxLimit \div align) * align
  /\ size = (IF n < limit THEN n ELSE limit)
  /\ count = (IF n < limit THEN 1 ELSE n \div limit)
  /\ dim = size \div align
BlocksFit(align, n, size, count, dim) ==
  /\ dim \in Pos /\ size = dim * align /\ count \in Nat /\ count * size \in 0..n

\* The blocks of EncodeBlockRun are within the part they are taken from.
LEMMA BlocksOfOneSize ==
  ASSUME NEW align, NEW n, NEW limit, NEW size, NEW count, NEW dim,
         BlockSizing(align, n, limit, size, count, dim)
  PROVE  BlocksFit(align, n, size, count, dim)
<1> DEFINE q == n \div align
           m == MaxLimit \div align
<1>1. /\ align \in 1..8 /\ align \in Pos /\ align <= MaxLimit /\ MaxLimit \in Nat
      /\ n \in Nat /\ q \in Nat /\ n = align * q /\ n >= 2 * align
      /\ limit = m * align
      /\ size = (IF n < limit THEN n ELSE limit)
      /\ count = (IF n < limit THEN 1 ELSE n \div limit)
      /\ dim = size \div align
  BY LimitsAssumption DEF BlockSizing, Pos
<1>2. align \in {1, 2, 3, 4, 5, 6, 7, 8}
  BY <1>1
<1>3. m \in Nat /\ m >= 1
  <2>1. m \in Nat /\ MaxLimit % align \in 0..(align - 1)
        /\ MaxLimit = m * align + (MaxLimit % align)
    BY <1>1, DivisionIs
  <2> DEFINE r == MaxLimit % align
  <2>2. m \in Nat /\ r \in 0..(align - 1) /\ MaxLimit = m * align + r
    BY <2>1
  <2> HIDE DEF m, r
  <2>3. m # 0
    BY <1>1, <1>2, <2>2
  <2> QED
    BY <2>2, <2>3
<1> HIDE DEF q, m
<1>4. CASE n < limit
  <2>1. size = n /\ count = 1 /\ n = align * q /\ dim = (align * q) \div align
    BY <1>1, <1>4
  <2>2. dim = q /\ align * q = q * align
    BY ONLY <1>1, <1>2, <2>1
  <2>3. q # 0
    BY <1>1, <1>2
  <2>4. dim \in Pos /\ size = dim * align
    BY <1>1, <2>1, <2>2, <2>3 DEF Pos
  <2>5. count \in Nat /\ count * size = n /\ n \in 0..n
    BY ONLY <1>1, <2>1
  <2> QED
    BY <2>4, <2>5 DEF BlocksFit
<1>5. CASE ~(n < limit)
  <2>1. size = limit /\ count = n \div limit /\ limit = m * align /\ dim = (align * m) \div align
    <3>1. m * align = align * m
      BY <1>1, <1>3
    <3> QED
      BY <1>1, <1>5, <3>1
  <2>2. dim = m
    BY ONLY <1>1, <1>2, <1>3, <2>1
  <2>3. limit \in Nat /\ limit >= 1
    BY ONLY <1>1, <1>2, <1>3, <2>1
  <2>4. dim \in Pos /\ size = dim * align
    BY <1>3, <2>1, <2>2 DEF Pos
  <2> DEFINE r == n % limit
  <2>5. count \in Nat /\ r \in 0..(limit - 1) /\ n = count * limit + r
    <3>1. limit \in Pos
      BY <2>3 DEF Pos
    <3> QED
      BY <1>1, <2>1, <3>1, DivisionIs
  <2> HIDE DEF r
  <2> DEFINE w == count * limit
  <2>6. w \in Int /\ w >= 0
    BY ONLY <2>3, <2>5
  <2>7. w = count * size /\ n = w + r
    BY <2>1, <2>5
  <2> HIDE DEF w
  <2>8. w \in 0..n
    BY <1>1, <2>3, <2>5, <2>6, <2>7
  <2> QED
    BY Zenon, <2>4, <2>5, <2>7, <2>8 DEF BlocksFit
<1> QED
  BY <1>4, <1>5

\* The block orders are those with a block's height or width.
LEMMA BlockOrders ==
  ASSUME NEW t \in IterOrders
  PROVE  IsBlockType(t) \in 0..8
  BY OrderKinds DEF IsBlockType, BlockSizes

\* A run that is left as it is.
LEMMA LeftCovers ==
  ASSUME NEW t, NEW old, NEW group, NEW g, IsGroup(group, old, g), NEW rle, IsRun(rle, group),
         NEW encoded, Covers(encoded, t, old, 1, g + rle.from - 1),
         NEW n, n = rle.to - rle.from + 1
  PROVE  /\ Covers(encoded \o Singles(group, rle.from, n), t, old, 1, g + rle.to)
         /\ ~HasPattern(Last(encoded \o Singles(group, rle.from, n)))
<1> DEFINE from == rle.from
           to == rle.to
           s == Singles(group, from, n)
           b == g + from - 1
<1>1. /\ from \in Nat /\ to \in Nat /\ from >= 1 /\ from <= to /\ to <= Len(group)
      /\ Len(group) \in Nat /\ g \in Nat /\ n = to - from + 1
  BY DEF IsRun, IsGroup, IsSeq, Pos
<1>2. Covers(encoded, t, old, 1, b)
  OBVIOUS
<1> HIDE DEF from, to
<1>3. from \in Pos /\ n \in Nat /\ n \in Pos /\ from + n - 1 <= Len(group) /\ g + from + n - 1 = g + to
  BY <1>1 DEF Pos
<1>4. /\ Covers(s, t, old, g + from, g + from + n - 1) /\ Len(s) = n
      /\ \A k \in 1..n : ~HasPattern(s[k])
  BY <1>3, CoversSingles
<1>5. b \in Int /\ g + to \in Int /\ 1 - 1 <= b /\ b <= g + to /\ g + from = b + 1
  BY <1>1
<1> HIDE DEF b, s
<1>6. Covers(encoded \o s, t, old, 1, g + to)
  BY <1>2, <1>3, <1>4, <1>5, CoversBoth
<1>7. IsSeq(encoded) /\ IsSeq(s)
  BY <1>2, <1>4 DEF Covers
<1>8. Last(encoded \o s) = s[n]
  BY <1>3, <1>4, <1>7, LastOfBoth
<1>9. ~HasPattern(Last(encoded \o s))
  BY <1>3, <1>4, <1>8 DEF Pos
<1> QED
  BY <1>6, <1>9 DEF s, from, to

\* What a block order knows of the elements so far when a run begins: the element
\* before a run of distance 1 is a single one.
SingleBefore(rle, encoded) == rle.from > 1 /\ rle.val = 1 => ~HasPattern(Last(encoded))

\* The element that the aligned part may take in before the run is a single one.
LEMMA TakesSingle ==
  ASSUME NEW old, NEW group, NEW g, IsGroup(group, old, g), NEW align \in 1..8,
         NEW rle, IsRun(rle, group), rle.val = 1,
         NEW part, IsAligned(part, group, rle, align),
         NEW encoded, SingleBefore(rle, encoded)
  PROVE  part.first < rle.from => ~HasPattern(Last(encoded))
<1> DEFINE first == part.first
           from == rle.from
<1>1. first \in Nat /\ first >= 1 /\ from \in Nat
  BY DEF IsAligned, IsRun, IsGroup, IsSeq, Pos
<1>2. from > 1 => ~HasPattern(Last(encoded))
  BY DEF SingleBefore
<1> HIDE DEF first, from
<1>3. first < from => ~HasPattern(Last(encoded))
  BY <1>1, <1>2
<1> QED
  BY <1>3 DEF first, from

\* One run in a block order, whatever the dimensions asked for.
LEMMA EncodeBlockRunCovers ==
  ASSUME NEW t \in IterOrders, IsBlockType(t) # 0, IsBlockType(t) <= MaxLimit,
         NEW old, NEW group, NEW g, IsGroup(group, old, g), NEW dims, NEW rle, IsRun(rle, group),
         NEW encoded, Covers(encoded, t, old, 1, g + rle.from - 1), SingleBefore(rle, encoded)
  PROVE  /\ Covers(EncodeBlockRun(group, dims, t, encoded, rle), t, old, 1, g + rle.to)
         /\ rle.val # 1 => ~HasPattern(Last(EncodeBlockRun(group, dims, t, encoded, rle)))
<1> DEFINE align == IsBlockType(t)
           part == Aligned(group, rle, align)
           limit == (MaxLimit \div align) * align
           size == IF part.n < limit THEN part.n ELSE limit
           count == IF part.n < limit THEN 1 ELSE part.n \div limit
           dim == size \div align
           blocks == [k \in 1..count |->
                        Unit(group, part.from + (k - 1) * size, BlockRLE(size, size \div align, t))]
           done == part.from + count * size
           new == EncodeBlockRun(group, dims, t, encoded, rle)
           cond == rle.val = 1 /\ (part.n \div align) \in dims /\ part.n >= 2 * align
<1>1. new = IF cond THEN WithBlocks(group, rle, encoded, part, blocks, done)
            ELSE encoded \o Singles(group, rle.from, rle.to - rle.from + 1)
  BY DEF EncodeBlockRun
<1>2. CASE ~cond
  <2>1. new = encoded \o Singles(group, rle.from, rle.to - rle.from + 1)
    BY <1>1, <1>2
  <2> HIDE DEF new, cond
  <2> DEFINE n == rle.to - rle.from + 1
  <2>2. new = encoded \o Singles(group, rle.from, n) /\ n = rle.to - rle.from + 1
    BY <2>1
  <2> HIDE DEF n
  <2>3. Covers(new, t, old, 1, g + rle.to) /\ ~HasPattern(Last(new))
    BY <2>2, LeftCovers
  <2> QED
    BY <2>3 DEF new
<1>3. CASE cond
  <2>1. new = WithBlocks(group, rle, encoded, part, blocks, done)
    BY <1>1, <1>3
  <2>2. rle.val = 1 /\ part.n >= 2 * align
    BY <1>3
  <2> HIDE DEF new, cond
  <2>3. align \in 1..8
    BY BlockOrders
  <2>4. IsAligned(part, group, rle, align)
    BY <2>2, <2>3, AlignedIs
  <2> HIDE DEF part
  <2>5. part.first < rle.from => ~HasPattern(Last(encoded))
    <3> HIDE DEF align
    <3> QED
      BY <2>2, <2>3, <2>4, TakesSingle
  <2> DEFINE n == part.n
  <2>6. BlockSizing(align, n, limit, size, count, dim)
    BY <2>2, <2>3, <2>4 DEF BlockSizing, IsAligned
  <2> HIDE DEF limit, size, count
  <2>7. BlocksFit(align, n, size, count, dim)
    BY <2>6, BlocksOfOneSize
  <2> DEFINE m == count * size
             i == part.from
             first == part.first
             from == rle.from
             to == rle.to
             end == i + m - 1
  <2>8. /\ first \in Nat /\ first >= 1 /\ first <= from /\ from - 1 <= first
        /\ i \in Nat /\ first <= i /\ n \in Nat
        /\ n > 0 => i + n - 1 <= to /\ (group[i].x - 1) % align = 0
        /\ \A k \in first..to : group[k].x = group[first].x + (k - first)
    BY <2>4 DEF IsAligned, Pos
  <2>9. n > 0
    <3>1. align \in Nat /\ align >= 1 /\ n >= 2 * align
      BY <2>2, <2>3
    <3> HIDE DEF n, align
    <3> QED
      BY <2>8, <3>1
  <2>10. /\ dim \in Pos /\ size = dim * align /\ count \in Nat /\ m \in 0..n
    BY Zenon, <2>7 DEF BlocksFit
  <2>11. /\ from \in Nat /\ to \in Nat /\ from <= to /\ to <= Len(group) /\ Len(group) \in Nat
         /\ g \in Nat /\ \A k \in 1..Len(group) : group[k].x \in Int
    BY DEF IsRun, IsGroup, IsSeq, Pos
  <2>12. blocks = [k \in 1..count |-> Unit(group, i + (k - 1) * size, BlockRLE(size, dim, t))]
         /\ done = i + m
    OBVIOUS
  <2> HIDE DEF m, i, n, first, from, to, dim, blocks, done
  <2>13. /\ i \in Pos /\ end <= Len(group) /\ i + n - 1 <= to /\ (group[i].x - 1) % align = 0
         /\ i \in first..to /\ end <= to /\ done \in i..(to + 1)
    BY ONLY <2>8, <2>9, <2>10, <2>11, <2>12 DEF Pos
  <2>14. \A k \in i..end : group[k].x = group[i].x + (k - i)
    <3> TAKE k \in i..end
    <3>1. k \in first..to /\ k \in 1..Len(group) /\ i \in 1..Len(group) /\ first \in 1..Len(group)
      BY ONLY <2>8, <2>10, <2>11, <2>13
    <3>2. group[k].x = group[first].x + (k - first) /\ group[i].x = group[first].x + (i - first)
      BY <2>8, <2>13, <3>1
    <3>3. group[first].x \in Int
      BY <2>11, <3>1
    <3> QED
      <4>1. k \in Int /\ i \in Int /\ first \in Int
        BY ONLY <2>8, <2>13, <3>1 DEF Pos
      <4> QED
        BY ONLY <3>2, <3>3, <4>1
  <2>15. end = i + count * size - 1
    BY DEF m
  <2>16. Covers(blocks, t, old, g + i, g + i + count * size - 1)
    <3>1. IsGroup(group, old, g) /\ IsBlockType(t) = align /\ end <= Len(group) /\ size = dim * align
      BY <2>10, <2>13
    <3>2. count > 0 => (group[i].x - 1) % align = 0
      BY <2>13
    <3>3. blocks = [k \in 1..count |-> Unit(group, i + (k - 1) * size, BlockRLE(size, dim, t))]
      BY <2>12
    <3>4. align \in 1..8 /\ i \in Pos /\ count \in Nat /\ dim \in Pos
      BY <2>3, <2>10, <2>13
    <3> HIDE DEF align, end
    <3> QED
      BY ONLY <3>1, <3>2, <3>3, <3>4, <2>14, <2>15, CoversBlocks
  <2>17. g + i + count * size - 1 = g + done - 1
    <3>1. count * size = m
      BY DEF m
    <3>2. g + i + m - 1 = g + done - 1
      BY ONLY <2>8, <2>10, <2>11, <2>12
    <3> QED
      BY <3>1, <3>2
  <2>18. Covers(blocks, t, old, g + i, g + done - 1)
    BY Zenon, <2>16, <2>17
  <2>19. Covers(WithBlocks(group, rle, encoded, part, blocks, done), t, old, 1, g + rle.to)
    <3>1. /\ part.first \in Pos /\ part.first <= rle.from /\ rle.from - 1 <= part.first
          /\ part.from \in Nat /\ part.first <= part.from /\ done \in part.from..(rle.to + 1)
          /\ Covers(blocks, t, old, g + part.from, g + done - 1)
      BY <2>8, <2>13, <2>18 DEF first, i, from, to, Pos
    <3> QED
      BY <2>5, <3>1, WithBlocksCovers
  <2> QED
    BY <2>1, <2>2, <2>19 DEF new
<1> QED
  BY <1>2, <1>3

-----------------------------------------------------------------------------
(***************************************************************************)
(* Blocks of several sizes.                                                *)
(***************************************************************************)
\* The part of a run that is split, and what is split off with each size.
Splittable(rle, group, t, align, part, all) ==
  /\ rle.val = 1 /\ align = IsBlockType(t) /\ part = Aligned(group, rle, align)
  /\ all = part.n \div align /\ all \in Nat /\ part.n >= 2 * align
SplitsOff(f, group, dims, t, part, all) ==
  /\ f[0] = [from |-> part.from, left |-> all, blocks |-> <<>>]
  /\ \A k \in 1..all : f[k] = (IF all - k + 1 \in dims
                                  THEN WithBlocksOf(group, t, f[k - 1], all - k + 1)
                                  ELSE f[k - 1])

\* The blocks are split off one size after the other.
LEMMA AltSplits ==
  ASSUME NEW group, NEW dims, NEW t, NEW encoded, NEW rle, NEW align, NEW part, NEW all,
         Splittable(rle, group, t, align, part, all)
  PROVE  \E f : /\ SplitsOff(f, group, dims, t, part, all)
               /\ EncodeBlockAltRun(group, dims, t, encoded, rle)
                    = WithBlocks(group, rle, encoded, part, f[all].blocks, f[all].from)
<1> DEFINE n == all
           base == [from |-> part.from, left |-> all, blocks |-> <<>>]
           step(s, k) == (IF all - k + 1 \in dims THEN WithBlocksOf(group, t, s, all - k + 1)
                                        ELSE s)
           Obeys(f, m) == f = [k \in 0..m |-> IF k = 0 THEN base ELSE step(f[k - 1], k)]
           Exist == {m \in 0..n : \E f : Obeys(f, m)}
           f == CHOOSE f : Obeys(f, n)
<1>1. n \in Nat
  BY DEF Splittable
<1>2. EncodeBlockAltRun(group, dims, t, encoded, rle) = WithBlocks(group, rle, encoded, part, f[all].blocks, f[all].from)
  BY DEF EncodeBlockAltRun, Splittable
<1> HIDE DEF n, base, step
<1>3. 0 \in Exist
  <2> DEFINE h == [k \in 0..0 |-> base]
  <2>1. h = [k \in 0..0 |-> IF k = 0 THEN base ELSE step(h[k - 1], k)]
    <3>1. \A k \in 0..0 : k = 0
      OBVIOUS
    <3> QED
      BY <3>1
  <2>2. Obeys(h, 0)
    BY <2>1
  <2> HIDE DEF Obeys
  <2> QED
    BY <1>1, <2>2
<1>4. ASSUME NEW m \in 0..(n - 1), m \in Exist PROVE m + 1 \in Exist
  <2>1. PICK h : Obeys(h, m)
    BY <1>4
  <2> DEFINE u == [k \in 0..(m + 1) |-> IF k = m + 1 THEN step(h[m], m + 1) ELSE h[k]]
  <2>2. /\ h[0] = base /\ \A k \in 1..m : h[k] = step(h[k - 1], k)
    <3>1. h = [k \in 0..m |-> IF k = 0 THEN base ELSE step(h[k - 1], k)]
      BY <2>1
    <3>2. 0 \in 0..m /\ \A k \in 1..m : k \in 0..m /\ k # 0
      OBVIOUS
    <3> QED
      BY <3>1, <3>2
  <2>3. u[m + 1] = step(h[m], m + 1) /\ \A k \in 0..m : u[k] = h[k]
    OBVIOUS
  <2>4. ASSUME NEW k \in 0..(m + 1)
        PROVE  u[k] = IF k = 0 THEN base ELSE step(u[k - 1], k)
    <3> HIDE DEF u
    <3>1. CASE k = 0
      BY <2>2, <2>3, <3>1
    <3>2. CASE k \in 1..m
      BY <2>2, <2>3, <3>2
    <3>3. CASE k = m + 1
      <4>1. k - 1 = m /\ k # 0
        BY <3>3
      <4> QED
        BY <2>3, <3>3, <4>1
    <3> QED
      BY <3>1, <3>2, <3>3
  <2>5. u = [k \in 0..(m + 1) |-> u[k]]
    OBVIOUS
  <2> HIDE DEF u
  <2>6. u = [k \in 0..(m + 1) |-> IF k = 0 THEN base ELSE step(u[k - 1], k)]
    BY <2>4, <2>5
  <2>7. Obeys(u, m + 1)
    BY <2>6
  <2>8. m + 1 \in 0..n
    BY <1>1
  <2> HIDE DEF Obeys
  <2> QED
    BY <2>7, <2>8
<1>5. n \in Exist
  <2> HIDE DEF Exist
  <2>1. 0..n \subseteq Exist
    <3>1. 0 \in Int /\ n \in Int
      BY <1>1
    <3> QED
      BY Zenon, <1>3, <1>4, <3>1, IntervalInduction
  <2> QED
    BY <1>1, <2>1
<1>6. Obeys(f, n)
  <2>1. \E h : Obeys(h, n)
    BY <1>5
  <2> HIDE DEF Obeys
  <2> QED
    BY <2>1
<1> HIDE DEF f
<1>7. f[0] = base /\ \A k \in 1..n : f[k] = step(f[k - 1], k)
  <2>1. f = [k \in 0..n |-> IF k = 0 THEN base ELSE step(f[k - 1], k)]
    BY <1>6
  <2>2. 0 \in 0..n /\ \A k \in 1..n : k \in 0..n /\ k # 0
    BY <1>1
  <2> QED
    BY <2>1, <2>2
<1> QED
  BY <1>2, <1>7 DEF n, base, step, SplitsOff

\* The sizes of WithBlocksOf: as many rows (columns) as there are left to take.
SplitSizing(align, all, left, dim, count, size) ==
  /\ align \in 1..8 /\ all \in Nat /\ left \in 0..all /\ dim \in Pos
  /\ count = left \div dim /\ size = dim * align
SplitFits(align, all, left, dim, count, size) ==
  /\ count \in Nat /\ count * dim \in 0..left /\ count * size \in Nat
  /\ align * (all - left) \in Nat
  /\ align * (all - (left - count * dim)) = align * (all - left) + count * size
  /\ align * (all - left) + count * size <= align * all

\* The blocks of one dimension are within what larger ones have left.
LEMMA SplitSizes ==
  ASSUME NEW align, NEW all, NEW left, NEW dim, NEW count, NEW size,
         SplitSizing(align, all, left, dim, count, size)
  PROVE  SplitFits(align, all, left, dim, count, size)
<1> DEFINE w == count * dim
           v == count * size
           r == left % dim
<1>1. /\ align \in {1, 2, 3, 4, 5, 6, 7, 8} /\ all \in Nat /\ left \in 0..all /\ left \in Nat
      /\ dim \in Pos /\ dim \in Nat /\ count = left \div dim /\ size = dim * align
  BY DEF SplitSizing, Pos
<1>2. count \in Nat /\ r \in 0..(dim - 1) /\ left = w + r
  BY <1>1, DivisionIs
<1>3. w \in Int /\ w >= 0
  BY <1>1, <1>2
<1>4. v = align * w
  <2>1. count * (dim * align) = align * (count * dim)
    BY <1>1, <1>2
  <2> QED
    BY <1>1, <2>1
<1> HIDE DEF w, v, r
<1>5. w \in 0..left
  BY ONLY <1>1, <1>2, <1>3
<1>6. v \in Nat /\ align * (all - left) \in Nat
      /\ align * (all - (left - w)) = align * (all - left) + v
      /\ align * (all - left) + v <= align * all
  BY ONLY <1>1, <1>4, <1>5
<1> QED
  BY <1>2, <1>5, <1>6 DEF SplitFits, w, v

\* What has been split off so far.
SplitIs(s, part, align, all, t, old, g) ==
  /\ s.left \in 0..all /\ s.from = part.from + align * (all - s.left)
  /\ Covers(s.blocks, t, old, g + part.from, g + s.from - 1)

\* Blocks of one more size keep to the part.
LEMMA SplitsOne ==
  ASSUME NEW t \in IterOrders, NEW align \in 1..8, IsBlockType(t) = align,
         NEW old, NEW group, NEW g, IsGroup(group, old, g), NEW rle, IsRun(rle, group),
         NEW part, IsAligned(part, group, rle, align), part.n > 0,
         NEW all, all = part.n \div align,
         NEW s, SplitIs(s, part, align, all, t, old, g), NEW dim \in Pos
  PROVE  SplitIs(WithBlocksOf(group, t, s, dim), part, align, all, t, old, g)
<1> DEFINE left == s.left
           i == s.from
           pf == part.from
           pn == part.n
           first == part.first
           to == rle.to
           count == left \div dim
           size == dim * align
           w == count * dim
           m == count * size
           end == i + m - 1
           chunk == [k \in 1..count |-> Unit(group, i + (k - 1) * size, BlockRLE(size, dim, t))]
           new == WithBlocksOf(group, t, s, dim)
<1>1. new = [from |-> i + count * (dim * align), left |-> left - count * dim,
             blocks |-> s.blocks \o chunk]
  BY DEF WithBlocksOf
<1>2. new.from = i + m /\ new.left = left - w /\ new.blocks = s.blocks \o chunk
  <2> DEFINE u1 == i + m
             u2 == left - w
             u3 == s.blocks \o chunk
  <2>1. new = [from |-> u1, left |-> u2, blocks |-> u3]
    BY <1>1
  <2> HIDE DEF new, u1, u2, u3
  <2>2. new.from = u1 /\ new.left = u2 /\ new.blocks = u3
    BY <2>1
  <2> QED
    BY <2>2 DEF u1, u2, u3
<1>3. /\ left \in 0..all /\ i = pf + align * (all - left)
      /\ Covers(s.blocks, t, old, g + pf, g + i - 1)
  BY DEF SplitIs
<1>4. /\ first \in Nat /\ first >= 1 /\ pf \in Nat /\ first <= pf
      /\ pn \in Nat /\ pn = align * all /\ all \in Nat
      /\ pf + pn - 1 <= to /\ (group[pf].x - 1) % align = 0
      /\ \A k \in first..to : group[k].x = group[first].x + (k - first)
  BY DEF IsAligned, Pos
<1>5. /\ to \in Nat /\ to <= Len(group) /\ Len(group) \in Nat /\ g \in Nat
      /\ \A k \in 1..Len(group) : group[k].x \in Int
  BY DEF IsRun, IsGroup, IsSeq, Pos
<1> HIDE DEF new, left, i, pf, pn, first, to
<1>6. SplitSizing(align, all, left, dim, count, size)
  BY <1>3, <1>4 DEF SplitSizing
<1> HIDE DEF count, size
<1>7. SplitFits(align, all, left, dim, count, size)
  BY <1>6, SplitSizes
<1> DEFINE a == align * (all - left)
<1>8. /\ count \in Nat /\ w \in 0..left /\ m \in Nat /\ a \in Nat
      /\ align * (all - (left - w)) = a + m /\ a + m <= pn /\ i = pf + a
  BY Zenon, <1>3, <1>4, <1>7 DEF SplitFits
<1>9. all - left \in Nat
  BY <1>3, <1>4
<1> HIDE DEF w, m, chunk
<1>10. /\ i \in Pos /\ end <= to /\ end <= Len(group) /\ i \in Nat /\ pf >= 1
       /\ \A k \in i..end : k \in first..to /\ k \in 1..Len(group)
       /\ m > 0 => i \in first..to /\ pf \in first..to /\ i \in 1..Len(group) /\ pf \in 1..Len(group)
       /\ \A k \in i..end : m > 0
  <2> HIDE DEF a
  <2>1. /\ first \in Nat /\ first >= 1 /\ pf \in Nat /\ first <= pf /\ pn \in Nat
        /\ pf + pn - 1 <= to /\ to \in Nat /\ to <= Len(group) /\ Len(group) \in Nat
        /\ m \in Nat /\ a \in Nat /\ a + m <= pn /\ i = pf + a
    BY ONLY Zenon, <1>4, <1>5, <1>8
  <2> QED
    BY ONLY <2>1 DEF Pos
<1>11. \A k \in i..end : group[k].x = group[i].x + (k - i)
  <2> TAKE k \in i..end
  <2>1. k \in first..to /\ i \in first..to /\ first \in 1..Len(group)
    BY ONLY <1>4, <1>5, <1>10
  <2>2. group[k].x = group[first].x + (k - first) /\ group[i].x = group[first].x + (i - first)
    BY <1>4, <2>1
  <2>3. group[first].x \in Int
    BY <1>5, <2>1
  <2> QED
    BY ONLY <1>4, <1>10, <2>1, <2>2, <2>3
<1>12. count > 0 => (group[i].x - 1) % align = 0
  <2> HAVE count > 0
  <2>0. dim \in Nat /\ dim >= 1
    BY DEF Pos
  <2>1. m > 0
    <3>1. size \in Nat /\ size >= 1
      <4>1. align \in {1, 2, 3, 4, 5, 6, 7, 8}
        OBVIOUS
      <4> QED
        BY <2>0, <4>1 DEF size
    <3>2. count >= 1 /\ count \in Nat
      BY <1>8
    <3> QED
      BY ONLY <3>1, <3>2 DEF m
  <2>2. /\ i \in first..to /\ pf \in first..to /\ i \in 1..Len(group) /\ pf \in 1..Len(group)
        /\ first \in 1..Len(group)
    BY ONLY <1>4, <1>5, <1>10, <2>1
  <2> DEFINE x == group[pf].x - 1
  <2>3. group[i].x = group[first].x + (i - first) /\ group[pf].x = group[first].x + (pf - first)
    BY <1>4, <2>2
  <2>4. group[first].x \in Int /\ group[pf].x \in Int
    BY <1>5, <2>2
  <2>5. group[i].x - 1 = x + a
    <3> DEFINE xi == group[i].x
               xf == group[first].x
               xp == group[pf].x
    <3>1. xi = xf + (i - first) /\ xp = xf + (pf - first) /\ xf \in Int /\ i = pf + a
      BY <1>8, <2>3, <2>4
    <3>2. first \in Int /\ pf \in Int /\ a \in Int
      BY <1>4, <1>8
    <3> HIDE DEF a, xi, xf, xp
    <3>3. xi - 1 = (xp - 1) + a
      BY ONLY <3>1, <3>2
    <3> QED
      BY <3>3 DEF x, xi, xp
  <2>6. x \in Int /\ x % align = 0
    BY ONLY <1>4, <2>4 DEF x
  <2> HIDE DEF x
  <2>7. (x + align * (all - left)) % align = 0
    BY <1>9, <2>6, StaysAligned
  <2> QED
    BY <2>5, <2>7
<1>13. Covers(chunk, t, old, g + i, g + i + count * size - 1)
  <2>1. IsGroup(group, old, g) /\ IsBlockType(t) = align /\ end <= Len(group) /\ size = dim * align
    BY <1>10 DEF size
  <2>2. end = i + count * size - 1
    BY DEF m
  <2>3. chunk = [k \in 1..count |-> Unit(group, i + (k - 1) * size, BlockRLE(size, dim, t))]
    BY DEF chunk
  <2>4. align \in 1..8 /\ i \in Pos /\ count \in Nat /\ dim \in Pos
    BY <1>8, <1>10
  <2> HIDE DEF end
  <2> QED
    BY ONLY <1>11, <1>12, <2>1, <2>2, <2>3, <2>4, CoversBlocks
<1>14. Covers(chunk, t, old, g + i, g + (i + m) - 1)
  <2>1. g + i + count * size - 1 = g + (i + m) - 1
    <3>1. count * size = m
      BY DEF m
    <3>2. g + i + m - 1 = g + (i + m) - 1
      <4>1. g \in Int /\ i \in Int /\ m \in Int
        BY <1>5, <1>8, <1>10
      <4> QED
        BY ONLY <4>1
    <3> QED
      BY <3>1, <3>2
  <2> QED
    BY Zenon, <1>13, <2>1
<1> DEFINE b == g + i - 1
           c == g + (i + m) - 1
           e == g + pf
<1>15. b \in Int /\ c \in Int /\ e \in Int /\ e - 1 <= b /\ b <= c /\ g + i = b + 1
  <2> HIDE DEF a
  <2> QED
    BY ONLY <1>4, <1>5, <1>8, <1>10
<1>16. Covers(s.blocks, t, old, e, b) /\ Covers(chunk, t, old, g + i, c)
  BY Zenon, <1>3, <1>14
<1> HIDE DEF b, c, e
<1>17. Covers(s.blocks \o chunk, t, old, e, c)
  BY <1>15, <1>16, CoversBoth
<1>18. new.left \in 0..all /\ new.from = pf + align * (all - new.left)
  <2>1. align * (all - new.left) = a + m
    BY Zenon, <1>2, <1>8
  <2>2. new.left \in 0..all
    BY ONLY <1>2, <1>3, <1>4, <1>8
  <2> HIDE DEF a
  <2>3. i + m = pf + (a + m)
    BY ONLY <1>4, <1>8
  <2> QED
    BY Zenon, <1>2, <2>1, <2>2, <2>3
<1>19. Covers(new.blocks, t, old, g + pf, g + new.from - 1)
  BY Zenon, <1>2, <1>17 DEF c, e
<1> QED
  BY Zenon, <1>18, <1>19 DEF SplitIs, new, pf

\* One run in a block order, in blocks of the dimensions asked for.
LEMMA EncodeBlockAltRunCovers ==
  ASSUME NEW t \in IterOrders, IsBlockType(t) # 0,
         NEW old, NEW group, NEW g, IsGroup(group, old, g), NEW dims, NEW rle, IsRun(rle, group),
         NEW encoded, Covers(encoded, t, old, 1, g + rle.from - 1), SingleBefore(rle, encoded)
  PROVE  /\ Covers(EncodeBlockAltRun(group, dims, t, encoded, rle), t, old, 1, g + rle.to)
         /\ rle.val # 1 => ~HasPattern(Last(EncodeBlockAltRun(group, dims, t, encoded, rle)))
<1> DEFINE align == IsBlockType(t)
           part == Aligned(group, rle, align)
           all == part.n \div align
           new == EncodeBlockAltRun(group, dims, t, encoded, rle)
           cond == rle.val = 1 /\ part.n >= 2 * align
<1>1. CASE ~cond
  <2>1. new = encoded \o Singles(group, rle.from, rle.to - rle.from + 1)
    BY <1>1 DEF EncodeBlockAltRun
  <2> HIDE DEF new, cond
  <2> DEFINE n == rle.to - rle.from + 1
  <2>2. new = encoded \o Singles(group, rle.from, n) /\ n = rle.to - rle.from + 1
    BY <2>1
  <2> HIDE DEF n
  <2>3. Covers(new, t, old, 1, g + rle.to) /\ ~HasPattern(Last(new))
    BY <2>2, LeftCovers
  <2> QED
    BY <2>3 DEF new
<1>2. CASE cond
  <2>1. rle.val = 1 /\ part.n >= 2 * align
    BY <1>2
  <2> HIDE DEF new, cond
  <2>2. align \in 1..8
    BY BlockOrders
  <2>3. IsAligned(part, group, rle, align)
    BY <2>1, <2>2, AlignedIs
  <2>4. align = IsBlockType(t) /\ part = Aligned(group, rle, align) /\ all = part.n \div align
    OBVIOUS
  <2> HIDE DEF align, part, all
  <2>5. part.first < rle.from => ~HasPattern(Last(encoded))
    BY <2>1, <2>2, <2>3, TakesSingle
  <2>6. part.n \in Nat /\ part.n = align * all /\ all \in Nat /\ part.n > 0
        /\ part.first \in Pos /\ part.first <= rle.from /\ rle.from - 1 <= part.first
        /\ part.from \in Nat /\ part.first <= part.from /\ part.from + part.n - 1 <= rle.to
    <3>1. part.n \in Nat /\ align \in Nat /\ align >= 1
      BY <2>2, <2>3 DEF IsAligned
    <3>2. part.n > 0
      BY ONLY <2>1, <3>1
    <3> QED
      BY <2>3, <2>4, <3>1, <3>2 DEF IsAligned
  <2>7a. PICK f : /\ SplitsOff(f, group, dims, t, part, all)
                  /\ EncodeBlockAltRun(group, dims, t, encoded, rle)
                       = WithBlocks(group, rle, encoded, part, f[all].blocks, f[all].from)
    <3>1. Splittable(rle, group, t, align, part, all)
      BY <2>1, <2>4, <2>6 DEF Splittable
    <3> QED
      BY <3>1, AltSplits
  <2>7. /\ f[0] = [from |-> part.from, left |-> all, blocks |-> <<>>]
        /\ \A k \in 1..all : f[k] = (IF all - k + 1 \in dims
                                       THEN WithBlocksOf(group, t, f[k - 1], all - k + 1)
                                       ELSE f[k - 1])
    BY Zenon, <2>7a DEF SplitsOff
  <2>8. /\ rle.to \in Nat /\ rle.from \in Nat /\ g \in Nat
    BY DEF IsRun, IsGroup, IsSeq, Pos
  <2> DEFINE S == {k \in 0..all : SplitIs(f[k], part, align, all, t, old, g)}
  <2>9. 0 \in S
    <3> DEFINE s == [from |-> part.from, left |-> all, blocks |-> <<>>]
    <3>1. s.from = part.from /\ s.left = all /\ s.blocks = <<>>
      OBVIOUS
    <3> HIDE DEF s
    <3>2. all \in 0..all /\ align * (all - all) = 0 /\ part.from + 0 = part.from /\ 0 \in 0..all
      <4>1. all - all = 0 /\ align * 0 = 0 /\ part.from + 0 = part.from
        BY ONLY <2>2, <2>6
      <4> QED
        BY ONLY <2>6, <4>1
    <3>3. s.left \in 0..all /\ s.from = part.from + align * (all - s.left)
      BY ONLY <3>1, <3>2
    <3>4. Covers(<<>>, t, old, g + part.from, g + part.from - 1)
      <4> DEFINE a == g + part.from
                 b == g + part.from - 1
      <4>1. a \in Int /\ b = a - 1
        BY <2>6, <2>8
      <4> HIDE DEF a, b
      <4>2. Covers(<<>>, t, old, a, b)
        BY <4>1, CoversNothing
      <4> QED
        BY Zenon, <4>2 DEF a, b
    <3>5. SplitIs(s, part, align, all, t, old, g)
      BY Zenon, <3>1, <3>3, <3>4 DEF SplitIs
    <3>6. f[0] = s
      BY <2>7 DEF s
    <3> QED
      BY ONLY <3>2, <3>5, <3>6
  <2>10. ASSUME NEW k \in 0..(all - 1), k \in S PROVE k + 1 \in S
    <3> DEFINE dim == all - (k + 1) + 1
    <3>1. k + 1 \in 1..all /\ (k + 1) - 1 = k /\ k + 1 \in 0..all /\ dim \in Pos
      BY ONLY <2>6, k \in 0..(all - 1) DEF Pos
    <3>2. SplitIs(f[k], part, align, all, t, old, g)
      BY <2>10
    <3>3. f[k + 1] = IF dim \in dims THEN WithBlocksOf(group, t, f[k], dim) ELSE f[k]
      BY <2>7, <3>1
    <3> HIDE DEF dim
    <3>4. SplitIs(WithBlocksOf(group, t, f[k], dim), part, align, all, t, old, g)
      BY <2>2, <2>3, <2>4, <2>6, <3>1, <3>2, SplitsOne
    <3>5. SplitIs(f[k + 1], part, align, all, t, old, g)
      BY <3>2, <3>3, <3>4
    <3> QED
      BY <3>1, <3>5
  <2>11. all \in S
    <3> HIDE DEF S
    <3>1. 0 \in Int /\ all \in Int
      BY <2>6
    <3>2. 0..all \subseteq S
      BY Zenon, <2>9, <2>10, <3>1, IntervalInduction
    <3> QED
      BY <2>6, <3>2
  <2> DEFINE s == f[all]
             done == s.from
             blocks == s.blocks
             left == s.left
  <2>12. SplitIs(s, part, align, all, t, old, g)
    BY <2>11
  <2> HIDE DEF s
  <2>13. /\ left \in 0..all /\ done = part.from + align * (all - left)
         /\ Covers(blocks, t, old, g + part.from, g + done - 1)
    BY <2>12 DEF SplitIs
  <2> HIDE DEF done, blocks, left
  <2>14. done \in part.from..(rle.to + 1)
    <3>1. align \in {1, 2, 3, 4, 5, 6, 7, 8}
      BY <2>2
    <3>2. align * (all - left) \in 0..(align * all)
      BY ONLY <2>6, <2>13, <3>1
    <3> DEFINE a == align * (all - left)
               b == part.n
    <3>3. a \in 0..b /\ done = part.from + a /\ part.from + b - 1 <= rle.to /\ b \in Nat
      BY <2>6, <2>13, <3>2
    <3>4. part.from \in Nat /\ rle.to \in Nat
      BY <2>6, <2>8
    <3> HIDE DEF a, b
    <3> QED
      BY ONLY <3>3, <3>4
  <2>15. Covers(WithBlocks(group, rle, encoded, part, blocks, done), t, old, 1, g + rle.to)
    BY <2>5, <2>6, <2>13, <2>14, WithBlocksCovers
  <2>16. new = WithBlocks(group, rle, encoded, part, blocks, done)
    BY <2>7a DEF new, blocks, done, s
  <2> QED
    BY <2>1, <2>15, <2>16 DEF new
<1> QED
  BY <1>1, <1>2

-----------------------------------------------------------------------------
(***************************************************************************)
(* A whole row.                                                            *)
(***************************************************************************)
\* One run, in any order.
LEMMA EncodeAnyRunCovers ==
  ASSUME NEW t \in IterOrders, IsBlockType(t) <= MaxLimit,
         NEW old, NEW group, NEW g, IsGroup(group, old, g),
         NEW deltas \in SUBSET Pos, NEW splitBlocks, NEW rle, IsRun(rle, group),
         NEW encoded, Covers(encoded, t, old, 1, g + rle.from - 1),
         IsBlockType(t) # 0 => SingleBefore(rle, encoded),
         NEW new, new = EncodeAnyRun(group, deltas, t, splitBlocks, encoded, rle)
  PROVE  /\ Covers(new, t, old, 1, g + rle.to)
         /\ IsBlockType(t) # 0 /\ rle.val # 1 => ~HasPattern(Last(new))
<1>1. CASE IsBlockType(t) = 0
  <2>1. new = EncodeRun(group, deltas, t, encoded, rle)
    BY <1>1 DEF EncodeAnyRun
  <2> QED
    BY <1>1, <2>1, EncodeRunCovers
<1>2. CASE IsBlockType(t) # 0 /\ splitBlocks
  <2>1. new = EncodeBlockAltRun(group, deltas, t, encoded, rle)
    BY <1>2 DEF EncodeAnyRun
  <2> QED
    BY <1>2, <2>1, EncodeBlockAltRunCovers
<1>3. CASE IsBlockType(t) # 0 /\ ~splitBlocks
  <2>1. new = EncodeBlockRun(group, deltas, t, encoded, rle)
    BY <1>3 DEF EncodeAnyRun
  <2> QED
    BY <1>3, <2>1, EncodeBlockRunCovers
<1> QED
  BY <1>1, <1>2, <1>3

\* What DoEncode has after each run.
AfterRuns(f, group, deltas, t, splitBlocks, encoded) ==
  /\ f[0] = encoded
  /\ \A k \in 1..Len(Runs(group)) :
       f[k] = EncodeAnyRun(group, deltas, t, splitBlocks, f[k - 1], Runs(group)[k])
  /\ DoEncode(group, deltas, t, splitBlocks, encoded) = f[Len(Runs(group))]

\* DoEncode takes the runs one after the other.
LEMMA DoEncodeIs ==
  ASSUME NEW group, IsSeq(group), NEW deltas, NEW t, NEW splitBlocks, NEW encoded
  PROVE  \E f : AfterRuns(f, group, deltas, t, splitBlocks, encoded)
<1> DEFINE n == Len(Runs(group))
           base == encoded
           step(s, k) == EncodeAnyRun(group, deltas, t, splitBlocks, s, Runs(group)[k])
           Obeys(f, m) == f = [k \in 0..m |-> IF k = 0 THEN base ELSE step(f[k - 1], k)]
           Exist == {m \in 0..n : \E f : Obeys(f, m)}
           f == CHOOSE f : Obeys(f, n)
<1>1. n \in Nat
  BY RunsAre DEF RunsOf, IsSeq
<1>2. DoEncode(group, deltas, t, splitBlocks, encoded) = f[Len(Runs(group))]
  BY DEF DoEncode
<1> HIDE DEF n, base, step
<1>3. 0 \in Exist
  <2> DEFINE h == [k \in 0..0 |-> base]
  <2>1. h = [k \in 0..0 |-> IF k = 0 THEN base ELSE step(h[k - 1], k)]
    <3>1. \A k \in 0..0 : k = 0
      OBVIOUS
    <3> QED
      BY <3>1
  <2>2. Obeys(h, 0)
    BY <2>1
  <2> HIDE DEF Obeys
  <2> QED
    BY <1>1, <2>2
<1>4. ASSUME NEW m \in 0..(n - 1), m \in Exist PROVE m + 1 \in Exist
  <2>1. PICK h : Obeys(h, m)
    BY <1>4
  <2> DEFINE u == [k \in 0..(m + 1) |-> IF k = m + 1 THEN step(h[m], m + 1) ELSE h[k]]
  <2>2. /\ h[0] = base /\ \A k \in 1..m : h[k] = step(h[k - 1], k)
    <3>1. h = [k \in 0..m |-> IF k = 0 THEN base ELSE step(h[k - 1], k)]
      BY <2>1
    <3>2. 0 \in 0..m /\ \A k \in 1..m : k \in 0..m /\ k # 0
      OBVIOUS
    <3> QED
      BY <3>1, <3>2
  <2>3. u[m + 1] = step(h[m], m + 1) /\ \A k \in 0..m : u[k] = h[k]
    OBVIOUS
  <2>4. ASSUME NEW k \in 0..(m + 1)
        PROVE  u[k] = IF k = 0 THEN base ELSE step(u[k - 1], k)
    <3> HIDE DEF u
    <3>1. CASE k = 0
      BY <2>2, <2>3, <3>1
    <3>2. CASE k \in 1..m
      BY <2>2, <2>3, <3>2
    <3>3. CASE k = m + 1
      <4>1. k - 1 = m /\ k # 0
        BY <3>3
      <4> QED
        BY <2>3, <3>3, <4>1
    <3> QED
      BY <3>1, <3>2, <3>3
  <2>5. u = [k \in 0..(m + 1) |-> u[k]]
    OBVIOUS
  <2> HIDE DEF u
  <2>6. u = [k \in 0..(m + 1) |-> IF k = 0 THEN base ELSE step(u[k - 1], k)]
    BY <2>4, <2>5
  <2>7. Obeys(u, m + 1)
    BY <2>6
  <2>8. m + 1 \in 0..n
    BY <1>1
  <2> HIDE DEF Obeys
  <2> QED
    BY <2>7, <2>8
<1>5. n \in Exist
  <2> HIDE DEF Exist
  <2>1. 0..n \subseteq Exist
    <3>1. 0 \in Int /\ n \in Int
      BY <1>1
    <3> QED
      BY Zenon, <1>3, <1>4, <3>1, IntervalInduction
  <2> QED
    BY <1>1, <2>1
<1>6. Obeys(f, n)
  <2>1. \E h : Obeys(h, n)
    BY <1>5
  <2> HIDE DEF Obeys
  <2> QED
    BY <2>1
<1> HIDE DEF f
<1>7. f[0] = base /\ \A k \in 1..n : f[k] = step(f[k - 1], k)
  <2>1. f = [k \in 0..n |-> IF k = 0 THEN base ELSE step(f[k - 1], k)]
    BY <1>6
  <2>2. 0 \in 0..n /\ \A k \in 1..n : k \in 0..n /\ k # 0
    BY <1>1
  <2> QED
    BY <2>1, <2>2
<1> QED
  BY <1>2, <1>7 DEF n, base, step, AfterRuns

\* The single elements between two patterns of a row are encoded as they are or in
\* patterns of the order.
LEMMA DoEncodeCovers ==
  ASSUME NEW t \in IterOrders, IsBlockType(t) <= MaxLimit,
         NEW old, NEW group, NEW g, IsGroup(group, old, g),
         NEW deltas \in SUBSET Pos, NEW splitBlocks,
         NEW encoded, Covers(encoded, t, old, 1, g)
  PROVE  Covers(DoEncode(group, deltas, t, splitBlocks, encoded), t, old, 1, g + Len(group))
<1> DEFINE runs == Runs(group)
           n == Len(runs)
<1>1. IsSeq(group) /\ Len(group) \in Nat /\ g \in Nat
  BY DEF IsGroup, IsSeq
<1>2. RunsOf(runs, group, Len(group))
  BY <1>1, RunsAre
<1>3. PICK f : /\ f[0] = encoded
               /\ \A k \in 1..n : f[k] = EncodeAnyRun(group, deltas, t, splitBlocks, f[k - 1], runs[k])
               /\ DoEncode(group, deltas, t, splitBlocks, encoded) = f[n]
  <2>1. PICK f : AfterRuns(f, group, deltas, t, splitBlocks, encoded)
    BY <1>1, DoEncodeIs
  <2> QED
    BY Zenon, <2>1 DEF AfterRuns
<1> HIDE DEF runs
<1>4. /\ n \in Nat /\ (Len(group) = 0 <=> n = 0)
      /\ \A k \in 1..n : /\ runs[k].from \in 1..Len(group) /\ runs[k].to \in runs[k].from..Len(group)
                         /\ \A i \in runs[k].from..runs[k].to : Distance(group, i) = runs[k].val
      /\ n # 0 => runs[1].from = 1 /\ runs[n].to = Len(group)
      /\ \A k \in 1..(n - 1) : runs[k + 1].from = runs[k].to + 1 /\ runs[k + 1].val # runs[k].val
  BY <1>2 DEF RunsOf, IsSeq
<1>5. \A k \in 1..n : IsRun(runs[k], group)
  BY <1>4 DEF IsRun
<1> DEFINE end(k) == IF k = 0 THEN 0 ELSE runs[k].to
           Good(k) == /\ Covers(f[k], t, old, 1, g + end(k))
                      /\ k # 0 /\ IsBlockType(t) # 0 /\ runs[k].val # 1 => ~HasPattern(Last(f[k]))
           S == {k \in 0..n : Good(k)}
<1>6. 0 \in S
  <2>1. end(0) = 0 /\ g + 0 = g
    BY <1>1
  <2>2. Covers(f[0], t, old, 1, g + end(0))
    BY Zenon, <1>3, <2>1
  <2>3. Good(0) /\ 0 \in 0..n
    <3> HIDE DEF end
    <3> QED
      BY <1>4, <2>2
  <2> QED
    BY Zenon, <2>3
<1>7. ASSUME NEW k \in 0..(n - 1), k \in S PROVE k + 1 \in S
  <2> DEFINE rle == runs[k + 1]
  <2>1. k + 1 \in 1..n /\ (k + 1) - 1 = k /\ k + 1 # 0 /\ k + 1 \in 0..n
    BY <1>4
  <2>2. Good(k)
    BY <1>7
  <2>3. f[k + 1] = EncodeAnyRun(group, deltas, t, splitBlocks, f[k], rle) /\ IsRun(rle, group)
    BY <1>3, <1>5, <2>1
  <2>4. g + end(k) = g + rle.from - 1
    <3>1. CASE k = 0
      <4>1. rle.from = 1 /\ end(k) = 0
        BY <1>4, <2>1, <3>1
      <4> HIDE DEF end, rle
      <4> QED
        BY <1>1, <4>1
    <3>2. CASE k # 0
      <4>1. k \in 1..(n - 1) /\ k \in 1..n
        BY <1>4, <3>2
      <4>2. rle.from = runs[k].to + 1 /\ end(k) = runs[k].to /\ runs[k].to \in Int
        BY <1>1, <1>4, <3>2, <4>1
      <4> HIDE DEF end, rle
      <4> QED
        BY <1>1, <4>2
    <3> QED
      BY <3>1, <3>2
  <2>5. Covers(f[k], t, old, 1, g + rle.from - 1)
    BY Zenon, <2>2, <2>4
  <2>6. IsBlockType(t) # 0 => SingleBefore(rle, f[k])
    <3>1. CASE k = 0
      <4>1. rle.from = 1
        BY <1>4, <2>1, <3>1
      <4> HIDE DEF rle
      <4> QED
        BY <4>1 DEF SingleBefore
    <3>2. CASE k # 0
      <4>1. k \in 1..(n - 1)
        BY <1>4, <3>2
      <4>2. rle.val # runs[k].val
        BY <1>4, <4>1
      <4>3. IsBlockType(t) # 0 /\ rle.val = 1 => ~HasPattern(Last(f[k]))
        BY Zenon, <2>2, <3>2, <4>2
      <4> HIDE DEF rle
      <4> QED
        BY <4>3 DEF SingleBefore
    <3> QED
      BY <3>1, <3>2
  <2> DEFINE new == f[k + 1]
  <2>7. new = EncodeAnyRun(group, deltas, t, splitBlocks, f[k], rle)
    BY <2>3
  <2> HIDE DEF rle, new, S, end
  <2>8. /\ Covers(new, t, old, 1, g + rle.to)
        /\ IsBlockType(t) # 0 /\ rle.val # 1 => ~HasPattern(Last(new))
    BY <2>3, <2>5, <2>6, <2>7, EncodeAnyRunCovers
  <2>9. end(k + 1) = rle.to
    BY <2>1 DEF end, rle
  <2>10. Good(k + 1)
    BY Zenon, <2>8, <2>9 DEF new, rle
  <2> QED
    BY Zenon, <2>1, <2>10 DEF S
<1>8. n \in S
  <2> HIDE DEF S
  <2>1. 0 \in Int /\ n \in Int
    BY <1>4
  <2>2. 0..n \subseteq S
    BY Zenon, <1>6, <1>7, <2>1, IntervalInduction
  <2> QED
    BY <1>4, <2>2
<1>9. Covers(f[n], t, old, 1, g + end(n)) /\ end(n) = Len(group)
  <2>1. Covers(f[n], t, old, 1, g + end(n))
    BY Zenon, <1>8
  <2>2. end(n) = Len(group)
    BY <1>4
  <2> QED
    BY <2>1, <2>2
<1> QED
  BY Zenon, <1>3, <1>9

\* What EncodeRow has taken after each element.
AfterElems(f, elems, deltas, t, splitBlocks) ==
  /\ f[0] = [group |-> <<>>, new |-> <<>>]
  /\ \A k \in 1..Len(elems) : f[k] = TakeElem(f[k - 1], elems[k], deltas, t, splitBlocks)
  /\ EncodeRow(elems, deltas, t, splitBlocks) = EncodeGroup(f[Len(elems)], deltas, t, splitBlocks)

\* EncodeRow takes the elements one after the other.
LEMMA EncodeRowIs ==
  ASSUME NEW elems, Len(elems) \in Nat, NEW deltas, NEW t, NEW splitBlocks
  PROVE  \E f : AfterElems(f, elems, deltas, t, splitBlocks)
<1> DEFINE n == Len(elems)
           base == [group |-> <<>>, new |-> <<>>]
           step(s, k) == TakeElem(s, elems[k], deltas, t, splitBlocks)
           Obeys(f, m) == f = [k \in 0..m |-> IF k = 0 THEN base ELSE step(f[k - 1], k)]
           Exist == {m \in 0..n : \E f : Obeys(f, m)}
           f == CHOOSE f : Obeys(f, n)
<1>1. n \in Nat
  OBVIOUS
<1>2. EncodeRow(elems, deltas, t, splitBlocks) = EncodeGroup(f[Len(elems)], deltas, t, splitBlocks)
  BY DEF EncodeRow
<1> HIDE DEF n, base, step
<1>3. 0 \in Exist
  <2> DEFINE h == [k \in 0..0 |-> base]
  <2>1. h = [k \in 0..0 |-> IF k = 0 THEN base ELSE step(h[k - 1], k)]
    <3>1. \A k \in 0..0 : k = 0
      OBVIOUS
    <3> QED
      BY <3>1
  <2>2. Obeys(h, 0)
    BY <2>1
  <2> HIDE DEF Obeys
  <2> QED
    BY <1>1, <2>2
<1>4. ASSUME NEW m \in 0..(n - 1), m \in Exist PROVE m + 1 \in Exist
  <2>1. PICK h : Obeys(h, m)
    BY <1>4
  <2> DEFINE u == [k \in 0..(m + 1) |-> IF k = m + 1 THEN step(h[m], m + 1) ELSE h[k]]
  <2>2. /\ h[0] = base /\ \A k \in 1..m : h[k] = step(h[k - 1], k)
    <3>1. h = [k \in 0..m |-> IF k = 0 THEN base ELSE step(h[k - 1], k)]
      BY <2>1
    <3>2. 0 \in 0..m /\ \A k \in 1..m : k \in 0..m /\ k # 0
      OBVIOUS
    <3> QED
      BY <3>1, <3>2
  <2>3. u[m + 1] = step(h[m], m + 1) /\ \A k \in 0..m : u[k] = h[k]
    OBVIOUS
  <2>4. ASSUME NEW k \in 0..(m + 1)
        PROVE  u[k] = IF k = 0 THEN base ELSE step(u[k - 1], k)
    <3> HIDE DEF u
    <3>1. CASE k = 0
      BY <2>2, <2>3, <3>1
    <3>2. CASE k \in 1..m
      BY <2>2, <2>3, <3>2
    <3>3. CASE k = m + 1
      <4>1. k - 1 = m /\ k # 0
        BY <3>3
      <4> QED
        BY <2>3, <3>3, <4>1
    <3> QED
      BY <3>1, <3>2, <3>3
  <2>5. u = [k \in 0..(m + 1) |-> u[k]]
    OBVIOUS
  <2> HIDE DEF u
  <2>6. u = [k \in 0..(m + 1) |-> IF k = 0 THEN base ELSE step(u[k - 1], k)]
    BY <2>4, <2>5
  <2>7. Obeys(u, m + 1)
    BY <2>6
  <2>8. m + 1 \in 0..n
    BY <1>1
  <2> HIDE DEF Obeys
  <2> QED
    BY <2>7, <2>8
<1>5. n \in Exist
  <2> HIDE DEF Exist
  <2>1. 0..n \subseteq Exist
    <3>1. 0 \in Int /\ n \in Int
      BY <1>1
    <3> QED
      BY Zenon, <1>3, <1>4, <3>1, IntervalInduction
  <2> QED
    BY <1>1, <2>1
<1>6. Obeys(f, n)
  <2>1. \E h : Obeys(h, n)
    BY <1>5
  <2> HIDE DEF Obeys
  <2> QED
    BY <2>1
<1> HIDE DEF f
<1>7. f[0] = base /\ \A k \in 1..n : f[k] = step(f[k - 1], k)
  <2>1. f = [k \in 0..n |-> IF k = 0 THEN base ELSE step(f[k - 1], k)]
    BY <1>6
  <2>2. 0 \in 0..n /\ \A k \in 1..n : k \in 0..n /\ k # 0
    BY <1>1
  <2> QED
    BY <2>1, <2>2
<1> QED
  BY <1>2, <1>7 DEF n, base, step, AfterElems

\* An element that has its pattern already stands for itself.
LEMMA CoversAppend ==
  ASSUME NEW t, NEW old, NEW k \in Nat, NEW s, Covers(s, t, old, 1, k), NEW l, l = k + 1
  PROVE  Covers(Append(s, old[l]), t, old, 1, l)
<1> DEFINE u == <<old[l]>>
           from == [j \in 1..1 |-> l]
<1>1. Len(u) = 1 /\ u[1] = old[l] /\ IsSeq(u)
  BY DEF IsSeq
<1>2. Stretches(from, from, 1, l, l)
  BY DEF Stretches
<1>3. \A j \in 1..1 : StandsFor(u[j], t, old, from[j], from[j])
  BY <1>1 DEF StandsFor
<1> HIDE DEF u, from
<1>4. Covers(u, t, old, l, l)
  BY <1>1, <1>2, <1>3 DEF Covers
<1>5. k \in Int /\ l \in Int /\ 1 \in Int /\ 1 - 1 <= k /\ k <= l
  OBVIOUS
<1>6. Covers(s \o u, t, old, 1, l)
  BY <1>4, <1>5, CoversBoth
<1>7. IsSeq(s) /\ IsSeq(Append(s, old[l])) /\ IsSeq(s \o u)
      /\ Len(s \o u) = Len(s) + 1 /\ Len(Append(s, old[l])) = Len(s) + 1
      /\ \A j \in 1..Len(s) : (s \o u)[j] = s[j] /\ Append(s, old[l])[j] = s[j]
      /\ (s \o u)[Len(s) + 1] = u[1] /\ Append(s, old[l])[Len(s) + 1] = old[l]
  <2>1. IsSeq(s)
    BY DEF Covers
  <2>2. 1 \in 1..Len(u)
    BY <1>1
  <2> DEFINE e == old[l]
  <2>3. /\ IsSeq(s \o u) /\ Len(s \o u) = Len(s) + Len(u)
        /\ \A j \in 1..Len(s) : (s \o u)[j] = s[j]
        /\ \A j \in 1..Len(u) : (s \o u)[Len(s) + j] = u[j]
    <3>1. IsSeq(s) /\ IsSeq(u)
      BY <1>1, <2>1
    <3> QED
      BY ONLY <3>1, ConcatIs
  <2>4. /\ IsSeq(Append(s, e)) /\ Len(Append(s, e)) = Len(s) + 1
        /\ \A j \in 1..Len(s) : Append(s, e)[j] = s[j]
        /\ Append(s, e)[Len(s) + 1] = e
    <3> HIDE DEF e
    <3> QED
      BY <2>1, AppendIs
  <2> QED
    BY <1>1, <2>1, <2>2, <2>3, <2>4
<1>8. s \o u = Append(s, old[l])
  <2> DEFINE p == s \o u
             q == Append(s, old[l])
             n == Len(s) + 1
  <2>1. n \in Nat /\ p = [j \in 1..n |-> p[j]] /\ q = [j \in 1..n |-> q[j]]
    BY <1>7 DEF IsSeq
  <2>2. \A j \in 1..n : p[j] = q[j]
    <3> TAKE j \in 1..n
    <3>1. j \in 1..Len(s) \/ j = Len(s) + 1
      BY <1>7 DEF IsSeq
    <3> QED
      BY <1>1, <1>7, <3>1
  <2> HIDE DEF p, q, n
  <2>3. p = q
    BY ONLY <2>1, <2>2
  <2> QED
    BY <2>3 DEF p, q
<1> QED
  BY <1>6, <1>8

\* A row that can be encoded: its columns are numbers.
HasColumns(elems) == IsSeq(elems) /\ \A k \in 1..Len(elems) : elems[k].x \in Int

\* What EncodeRow has after k elements: single elements still to be encoded, and
\* those before them.
Taken(acc, t, elems, k) ==
  /\ acc = [group |-> acc.group, new |-> acc.new]
  /\ Len(acc.group) \in 0..k /\ IsGroup(acc.group, elems, k - Len(acc.group))
  /\ Covers(acc.new, t, elems, 1, k - Len(acc.group))

\* The elements so far, with the group encoded.
LEMMA EncodeGroupCovers ==
  ASSUME NEW t \in IterOrders, IsBlockType(t) <= MaxLimit,
         NEW deltas \in SUBSET Pos, NEW splitBlocks,
         NEW elems, NEW k \in Nat, NEW acc, Taken(acc, t, elems, k)
  PROVE  Covers(EncodeGroup(acc, deltas, t, splitBlocks), t, elems, 1, k)
<1> DEFINE group == acc.group
           g == k - Len(group)
<1>1. Len(group) \in 0..k /\ IsGroup(group, elems, g) /\ Covers(acc.new, t, elems, 1, g)
  BY DEF Taken
<1>2. CASE group = <<>>
  <2>1. EncodeGroup(acc, deltas, t, splitBlocks) = acc.new
    BY <1>2 DEF EncodeGroup
  <2>2. Len(group) = 0
    BY <1>2
  <2>3. g = k
    BY <2>2
  <2> QED
    BY <1>1, <2>1, <2>3
<1>3. CASE group # <<>>
  <2>1. EncodeGroup(acc, deltas, t, splitBlocks) = DoEncode(group, deltas, t, splitBlocks, acc.new)
    BY <1>3 DEF EncodeGroup
  <2>2. g + Len(group) = k
    BY <1>1
  <2> HIDE DEF group, g
  <2>3. Covers(DoEncode(group, deltas, t, splitBlocks, acc.new), t, elems, 1, g + Len(group))
    BY <1>1, DoEncodeCovers
  <2> QED
    BY <2>1, <2>2, <2>3
<1> QED
  BY <1>2, <1>3

\* One element more.
LEMMA TakeElemTakes ==
  ASSUME NEW t \in IterOrders, IsBlockType(t) <= MaxLimit,
         NEW deltas \in SUBSET Pos, NEW splitBlocks,
         NEW elems, HasColumns(elems), NEW k \in Nat, k + 1 <= Len(elems),
         NEW acc, Taken(acc, t, elems, k), NEW l, l = k + 1
  PROVE  Taken(TakeElem(acc, elems[l], deltas, t, splitBlocks), t, elems, l)
<1> DEFINE group == acc.group
           g == k - Len(group)
           e == elems[l]
           new == TakeElem(acc, e, deltas, t, splitBlocks)
<1>1. /\ acc = [group |-> group, new |-> acc.new] /\ Len(group) \in 0..k
      /\ IsGroup(group, elems, g) /\ Covers(acc.new, t, elems, 1, g)
  BY DEF Taken
<1>2. CASE HasPattern(e)
  <2> DEFINE s == EncodeGroup(acc, deltas, t, splitBlocks)
             u == Append(s, e)
  <2>1. new = [group |-> <<>>, new |-> u]
    BY <1>2 DEF TakeElem
  <2>2. new.group = <<>> /\ new.new = u /\ new = [group |-> new.group, new |-> new.new]
    BY <2>1
  <2> HIDE DEF new, s
  <2>3. Covers(s, t, elems, 1, k)
    BY EncodeGroupCovers DEF s
  <2>4. Covers(u, t, elems, 1, l)
    BY <2>3, CoversAppend
  <2>5. Len(new.group) = 0 /\ 0 \in 0..l /\ l - 0 = l /\ l \in Nat
    BY <2>2
  <2>6. IsGroup(<<>>, elems, l)
    BY <2>5 DEF IsGroup, IsSeq
  <2>7. l - Len(new.group) = l
    BY <2>5
  <2> QED
    BY Zenon, <2>2, <2>4, <2>5, <2>6, <2>7 DEF Taken, new
<1>3. CASE ~HasPattern(e)
  <2> DEFINE u == Append(group, e)
  <2>1. new = [acc EXCEPT !.group = Append(@, e)]
    BY <1>3 DEF TakeElem
  <2> HIDE DEF new
  <2> DEFINE v == acc.new
             w == acc.group
  <2>2. acc = [group |-> w, new |-> v] /\ new = [acc EXCEPT !.group = u]
    BY <1>1, <2>1
  <2> HIDE DEF u, v, w
  <2>3. new = [group |-> u, new |-> v]
    BY <2>2
  <2>4. new.group = u /\ new.new = v /\ new = [group |-> new.group, new |-> new.new]
    BY <2>3
  <2>5. IsSeq(group)
    BY <1>1 DEF IsGroup
  <2>6. /\ IsSeq(u) /\ Len(u) = Len(group) + 1 /\ u[Len(group) + 1] = e
        /\ \A i \in 1..Len(group) : u[i] = group[i]
    BY <2>5, AppendIs DEF u
  <2> DEFINE n == Len(group)
  <2>7. n \in 0..k /\ Len(u) = n + 1 /\ n + 1 \in 0..l /\ l - (n + 1) = k - n /\ k - n \in Nat
        /\ g = k - n /\ (k - n) + (n + 1) = l
    BY <1>1, <2>6
  <2>8. \A i \in 1..n : group[i] = elems[g + i] /\ ~HasPattern(group[i]) /\ group[i].x \in Int
    BY <1>1 DEF IsGroup
  <2>9. e.x \in Int
    <3>1. l \in 1..Len(elems)
      BY DEF HasColumns, IsSeq
    <3> QED
      BY <3>1 DEF HasColumns
  <2> HIDE DEF n, g, group
  <2>10. ASSUME NEW i \in 1..Len(u)
         PROVE  u[i] = elems[g + i] /\ ~HasPattern(u[i]) /\ u[i].x \in Int
    <3>1. CASE i \in 1..n
      <4>1. u[i] = group[i]
        BY <2>6, <3>1 DEF n
      <4> QED
        BY <2>8, <3>1, <4>1
    <3>2. CASE i \notin 1..n
      <4>1. i = n + 1
        BY <2>7, <3>2
      <4>2. g + i = l
        BY ONLY <2>7, <4>1
      <4> QED
        BY <1>3, <2>6, <2>9, <4>1, <4>2 DEF n
    <3> QED
      BY <3>1, <3>2
  <2>11. IsGroup(u, elems, g)
    BY <2>6, <2>7, <2>10 DEF IsGroup
  <2>12. l - Len(new.group) = g /\ Len(new.group) \in 0..l
    BY <2>4, <2>7
  <2>13. Covers(v, t, elems, 1, g)
    BY <1>1 DEF v
  <2> QED
    BY Zenon, <2>4, <2>11, <2>12, <2>13 DEF Taken, new
<1> QED
  BY <1>2, <1>3

\* The elements of an encoded row stand for those of the row, each once and in order.
THEOREM EncodeRowCovers ==
  ASSUME NEW t \in IterOrders, IsBlockType(t) <= MaxLimit,
         NEW deltas \in SUBSET Pos, NEW splitBlocks, NEW elems, HasColumns(elems)
  PROVE  Covers(EncodeRow(elems, deltas, t, splitBlocks), t, elems, 1, Len(elems))
<1> DEFINE n == Len(elems)
<1>1. n \in Nat
  BY DEF HasColumns, IsSeq
<1>2. PICK f : /\ f[0] = [group |-> <<>>, new |-> <<>>]
               /\ \A k \in 1..n : f[k] = TakeElem(f[k - 1], elems[k], deltas, t, splitBlocks)
               /\ EncodeRow(elems, deltas, t, splitBlocks)
                    = EncodeGroup(f[n], deltas, t, splitBlocks)
  <2>1. PICK f : AfterElems(f, elems, deltas, t, splitBlocks)
    BY <1>1, EncodeRowIs
  <2> QED
    BY Zenon, <2>1 DEF AfterElems
<1> HIDE DEF n
<1> DEFINE S == {k \in 0..n : Taken(f[k], t, elems, k)}
<1>3. 0 \in S
  <2> DEFINE acc == [group |-> <<>>, new |-> <<>>]
  <2>1. acc.group = <<>> /\ acc.new = <<>> /\ acc = [group |-> acc.group, new |-> acc.new]
    OBVIOUS
  <2> HIDE DEF acc
  <2>2. Len(acc.group) = 0 /\ 0 \in 0..0 /\ 0 - 0 = 0 /\ 0 - Len(acc.group) = 0
    <3>1. Len(acc.group) = 0
      BY <2>1
    <3> QED
      BY ONLY <3>1
  <2>3. IsGroup(<<>>, elems, 0)
    BY DEF IsGroup, IsSeq
  <2>4. Covers(<<>>, t, elems, 1, 0)
    <3> DEFINE a == 1
               b == 0
    <3>1. a \in Int /\ b = a - 1
      OBVIOUS
    <3> HIDE DEF a, b
    <3>2. Covers(<<>>, t, elems, a, b)
      BY <3>1, CoversNothing
    <3> QED
      BY <3>2 DEF a, b
  <2>5. Taken(acc, t, elems, 0)
    BY Zenon, <2>1, <2>2, <2>3, <2>4 DEF Taken
  <2>6. f[0] = acc /\ 0 \in 0..n
    BY <1>1, <1>2 DEF acc
  <2> QED
    BY <2>5, <2>6
<1>4. ASSUME NEW k \in 0..(n - 1), k \in S PROVE k + 1 \in S
  <2> DEFINE l == k + 1
  <2>1. l \in 1..n /\ l - 1 = k /\ l \in 0..n /\ k \in Nat /\ k + 1 <= n
    BY <1>1
  <2>2. Taken(f[k], t, elems, k)
    BY <1>4
  <2>3. f[l] = TakeElem(f[k], elems[l], deltas, t, splitBlocks)
    BY <1>2, <2>1
  <2>4. l = k + 1
    OBVIOUS
  <2> HIDE DEF l
  <2>5. Taken(f[l], t, elems, l)
    BY <2>1, <2>2, <2>3, <2>4, TakeElemTakes DEF n
  <2> QED
    BY <2>1, <2>4, <2>5
<1>5. n \in S
  <2> HIDE DEF S
  <2>1. 0 \in Int /\ n \in Int
    BY <1>1
  <2>2. 0..n \subseteq S
    BY Zenon, <1>3, <1>4, <2>1, IntervalInduction
  <2> QED
    BY <1>1, <2>2
<1>6. Taken(f[n], t, elems, n)
  BY <1>5
<1>7. Covers(EncodeGroup(f[n], deltas, t, splitBlocks), t, elems, 1, n)
  BY <1>1, <1>6, EncodeGroupCovers
<1> QED
  BY Zenon, <1>2, <1>7 DEF n

-----------------------------------------------------------------------------
(***************************************************************************)
(* A pattern's elements, and the rows of a matrix.                         *)
(***************************************************************************)
\* A step of k columns from an aligned element of a block order's row.
LEMMA StepBlock ==
  ASSUME NEW r \in BlockSizes, NEW y \in Pos, NEW x \in Pos, NEW y2 \in Pos, NEW x2 \in Pos,
         NEW k \in Nat, (MapBR(Point(y, x), r).x - 1) % r = 0,
         MapBR(Point(y2, x2), r).y = MapBR(Point(y, x), r).y,
         MapBR(Point(y2, x2), r).x = MapBR(Point(y, x), r).x + k
  PROVE  y2 = y + (k % r) /\ x2 = x + (k \div r)
<1>1. r \in {1, 2, 3, 4, 5, 6, 7, 8}
  BY DEF BlockSizes
<1>2. CASE r = 1  BY <1>2 DEF MapBR, Point, Pos
<1>3. CASE r = 2  BY <1>3 DEF MapBR, Point, Pos
<1>4. CASE r = 3  BY <1>4 DEF MapBR, Point, Pos
<1>5. CASE r = 4  BY <1>5 DEF MapBR, Point, Pos
<1>6. CASE r = 5  BY <1>6 DEF MapBR, Point, Pos
<1>7. CASE r = 6  BY <1>7 DEF MapBR, Point, Pos
<1>8. CASE r = 7  BY <1>8 DEF MapBR, Point, Pos
<1>9. CASE r = 8  BY <1>9 DEF MapBR, Point, Pos
<1> QED
  BY <1>1, <1>2, <1>3, <1>4, <1>5, <1>6, <1>7, <1>8, <1>9

\* Two entries in the same row of an order are apart by steps along its direction,
\* as many as the difference of their columns; in a block order, from an entry at
\* the block's alignment.
THEOREM StepsAlong ==
  ASSUME NEW nrows, NEW ncols, Matrix(nrows, ncols), NEW t \in IterOrders,
         NEW p, Inside(p, nrows, ncols), NEW q, Inside(q, nrows, ncols), NEW k \in Nat,
         IsBlockType(t) # 0 => (Xform(t, p, nrows, ncols).x - 1) % IsBlockType(t) = 0,
         Xform(t, q, nrows, ncols).y = Xform(t, p, nrows, ncols).y,
         Xform(t, q, nrows, ncols).x = Xform(t, p, nrows, ncols).x + k
  PROVE  q = Along(t, p, k)
<1>0. /\ p = Point(p.y, p.x) /\ p.y \in Pos /\ p.x \in Pos /\ p.y \in 1..nrows /\ p.x \in 1..ncols
      /\ q = Point(q.y, q.x) /\ q.y \in Pos /\ q.x \in Pos /\ q.y \in 1..nrows /\ q.x \in 1..ncols
  BY InsideIsPoint
<1>1. nrows \in Pos /\ ncols \in Pos
  BY DEF Matrix
<1>2. CASE t = <<"HORIZONTAL", 0>>
  BY <1>0, <1>2 DEF Xform, Along, Point
<1>3. CASE t = <<"VERTICAL", 0>>
  BY <1>0, <1>3 DEF Xform, Along, MapV, Point
<1>4. CASE t = <<"DIAGONAL", 0>>
  BY <1>0, <1>1, <1>4 DEF Xform, Along, MapD, Point, Pos
<1>5. CASE t = <<"REV_DIAGONAL", 0>>
  BY <1>0, <1>1, <1>5 DEF Xform, Along, MapRD, Point, Pos
<1>6. ASSUME NEW r \in BlockSizes, t = <<"BLOCK_R", r>>
      PROVE  q = Along(t, p, k)
  <2>1. IsBlockType(t) = r /\ r # 0
    BY <1>6 DEF IsBlockType, BlockSizes
  <2>2. \A e : Xform(t, e, nrows, ncols) = MapBR(e, r)
    BY <1>6 DEF Xform
  <2>3. q.y = p.y + (k % r) /\ q.x = p.x + (k \div r)
    BY <1>0, <2>1, <2>2, StepBlock
  <2>4. Along(t, p, k) = Point(p.y + (k % r), p.x + (k \div r))
    BY <1>6 DEF Along
  <2> QED
    BY <1>0, <2>3, <2>4
<1>7. ASSUME NEW c \in BlockSizes, t = <<"BLOCK_C", c>>
      PROVE  q = Along(t, p, k)
  <2>1. IsBlockType(t) = c /\ c # 0
    BY <1>7 DEF IsBlockType, BlockSizes
  <2>2. /\ Xform(t, p, nrows, ncols) = MapBR(Point(p.x, p.y), c)
        /\ Xform(t, q, nrows, ncols) = MapBR(Point(q.x, q.y), c)
    BY <1>7 DEF Xform, MapBC, MapV
  <2>3. q.x = p.x + (k % c) /\ q.y = p.y + (k \div c)
    BY <1>0, <2>1, <2>2, StepBlock
  <2>4. Along(t, p, k) = Point(p.y + (k \div c), p.x + (k % c))
    BY <1>7 DEF Along
  <2> QED
    BY <1>0, <2>3, <2>4
<1> QED
  BY <1>2, <1>3, <1>4, <1>5, <1>6, <1>7, OrderKinds

\* The elements are counted row by row.
CountsRows(f, rows) ==
  /\ f[0] = 0
  /\ \A k \in 1..Len(rows) : f[k] = f[k - 1] + Len(rows[k])

\* RowEnds does so.
LEMMA RowEndsIs ==
  ASSUME NEW rows, Len(rows) \in Nat
  PROVE  CountsRows(RowEnds(rows), rows)
<1> DEFINE n == Len(rows)
           base == 0
           step(s, k) == s + Len(rows[k])
           Obeys(f, m) == f = [k \in 0..m |-> IF k = 0 THEN base ELSE step(f[k - 1], k)]
           Exist == {m \in 0..n : \E f : Obeys(f, m)}
           f == CHOOSE f : Obeys(f, n)
<1>1. n \in Nat
  OBVIOUS
<1>2. RowEnds(rows) = f
  BY DEF RowEnds
<1> HIDE DEF n, base, step
<1>3. 0 \in Exist
  <2> DEFINE h == [k \in 0..0 |-> base]
  <2>1. h = [k \in 0..0 |-> IF k = 0 THEN base ELSE step(h[k - 1], k)]
    <3>1. \A k \in 0..0 : k = 0
      OBVIOUS
    <3> QED
      BY <3>1
  <2>2. Obeys(h, 0)
    BY <2>1
  <2> HIDE DEF Obeys
  <2> QED
    BY <1>1, <2>2
<1>4. ASSUME NEW m \in 0..(n - 1), m \in Exist PROVE m + 1 \in Exist
  <2>1. PICK h : Obeys(h, m)
    BY <1>4
  <2> DEFINE u == [k \in 0..(m + 1) |-> IF k = m + 1 THEN step(h[m], m + 1) ELSE h[k]]
  <2>2. /\ h[0] = base /\ \A k \in 1..m : h[k] = step(h[k - 1], k)
    <3>1. h = [k \in 0..m |-> IF k = 0 THEN base ELSE step(h[k - 1], k)]
      BY <2>1
    <3>2. 0 \in 0..m /\ \A k \in 1..m : k \in 0..m /\ k # 0
      OBVIOUS
    <3> QED
      BY <3>1, <3>2
  <2>3. u[m + 1] = step(h[m], m + 1) /\ \A k \in 0..m : u[k] = h[k]
    OBVIOUS
  <2>4. ASSUME NEW k \in 0..(m + 1)
        PROVE  u[k] = IF k = 0 THEN base ELSE step(u[k - 1], k)
    <3> HIDE DEF u
    <3>1. CASE k = 0
      BY <2>2, <2>3, <3>1
    <3>2. CASE k \in 1..m
      BY <2>2, <2>3, <3>2
    <3>3. CASE k = m + 1
      <4>1. k - 1 = m /\ k # 0
        BY <3>3
      <4> QED
        BY <2>3, <3>3, <4>1
    <3> QED
      BY <3>1, <3>2, <3>3
  <2>5. u = [k \in 0..(m + 1) |-> u[k]]
    OBVIOUS
  <2> HIDE DEF u
  <2>6. u = [k \in 0..(m + 1) |-> IF k = 0 THEN base ELSE step(u[k - 1], k)]
    BY <2>4, <2>5
  <2>7. Obeys(u, m + 1)
    BY <2>6
  <2>8. m + 1 \in 0..n
    BY <1>1
  <2> HIDE DEF Obeys
  <2> QED
    BY <2>7, <2>8
<1>5. n \in Exist
  <2> HIDE DEF Exist
  <2>1. 0..n \subseteq Exist
    <3>1. 0 \in Int /\ n \in Int
      BY <1>1
    <3> QED
      BY Zenon, <1>3, <1>4, <3>1, IntervalInduction
  <2> QED
    BY <1>1, <2>1
<1>6. Obeys(f, n)
  <2>1. \E h : Obeys(h, n)
    BY <1>5
  <2> HIDE DEF Obeys
  <2> QED
    BY <2>1
<1> HIDE DEF f
<1>7. f[0] = base /\ \A k \in 1..n : f[k] = step(f[k - 1], k)
  <2>1. f = [k \in 0..n |-> IF k = 0 THEN base ELSE step(f[k - 1], k)]
    BY <1>6
  <2>2. 0 \in 0..n /\ \A k \in 1..n : k \in 0..n /\ k # 0
    BY <1>1
  <2> QED
    BY <2>1, <2>2
<1> QED
  BY <1>2, <1>7 DEF n, base, step, CountsRows

\* Where rows end: the counts rise from zero, and each element up to the last one
\* is in one row.
EndsOfRows(end, rows) ==
  /\ end[0] = 0
  /\ \A i \in 0..Len(rows) : end[i] \in Nat
  /\ \A i \in 1..Len(rows) : end[i] = end[i - 1] + Len(rows[i])
  /\ \A i, j \in 0..Len(rows) : i <= j => end[i] <= end[j]
  /\ \A k \in 1..end[Len(rows)] : \E i \in 1..Len(rows) : end[i - 1] < k /\ k <= end[i]
  /\ \A k \in 1..end[Len(rows)] : \A i, j \in 1..Len(rows) :
       end[i - 1] < k /\ k <= end[i] /\ end[j - 1] < k /\ k <= end[j] => i = j

\* RowEnds says where rows end.
LEMMA RowEndsAre ==
  ASSUME NEW rows, Len(rows) \in Nat, \A i \in 1..Len(rows) : Len(rows[i]) \in Nat
  PROVE  EndsOfRows(RowEnds(rows), rows)
<1> DEFINE end == RowEnds(rows)
           n == Len(rows)
<1>1. /\ end[0] = 0 /\ \A i \in 1..n : end[i] = end[i - 1] + Len(rows[i]) /\ Len(rows[i]) \in Nat
      /\ n \in Nat
  BY RowEndsIs DEF CountsRows
<1> HIDE DEF end, n
<1> DEFINE S == {i \in 0..n : /\ end[i] \in Nat
                              /\ \A j \in 0..i : end[j] \in Int /\ end[j] <= end[i]
                              /\ \A k \in 1..end[i] : \E j \in 1..i : end[j - 1] < k /\ k <= end[j]}
<1>2. 0 \in S
  <2>1. 0 \in 0..n /\ \A j \in 0..0 : j = 0
    BY <1>1
  <2> QED
    BY <1>1, <2>1
<1>3. ASSUME NEW i \in 0..(n - 1), i \in S PROVE i + 1 \in S
  <2>1. i + 1 \in 1..n /\ (i + 1) - 1 = i /\ i + 1 \in 0..n
    BY <1>1
  <2>2. end[i + 1] = end[i] + Len(rows[i + 1]) /\ Len(rows[i + 1]) \in Nat /\ end[i] \in Nat
    BY <1>1, <1>3, <2>1
  <2>3. end[i + 1] \in Nat /\ end[i] <= end[i + 1]
    BY <2>2
  <2>4. \A j \in 0..(i + 1) : end[j] \in Int /\ end[j] <= end[i + 1]
    <3> TAKE j \in 0..(i + 1)
    <3>1. CASE j = i + 1
      BY <2>3, <3>1
    <3>2. CASE j \in 0..i
      <4>1. end[j] <= end[i]
        BY <1>3, <3>2
      <4>2. end[j] \in Int
        BY <1>3, <3>2
      <4> QED
        BY <2>2, <2>3, <4>1, <4>2
    <3> QED
      BY <3>1, <3>2
  <2>5. \A k \in 1..end[i + 1] : \E j \in 1..(i + 1) : end[j - 1] < k /\ k <= end[j]
    <3> TAKE k \in 1..end[i + 1]
    <3>1. CASE k <= end[i]
      <4>1. PICK j \in 1..i : end[j - 1] < k /\ k <= end[j]
        BY <1>3, <2>2, <3>1
      <4> QED
        BY <4>1
    <3>2. CASE ~(k <= end[i])
      <4>1. end[(i + 1) - 1] < k /\ k <= end[i + 1] /\ i + 1 \in 1..(i + 1)
        BY <2>1, <2>2, <3>2
      <4> QED
        BY <4>1
    <3> QED
      BY <3>1, <3>2
  <2> QED
    BY <2>1, <2>3, <2>4, <2>5
<1>4. \A i \in 0..n : i \in S
  <2> HIDE DEF S
  <2>1. 0 \in Int /\ n \in Int
    BY <1>1
  <2>2. 0..n \subseteq S
    BY Zenon, <1>2, <1>3, <2>1, IntervalInduction
  <2> QED
    BY <2>2
<1>5. /\ \A i \in 0..n : end[i] \in Nat
      /\ \A i, j \in 0..n : i <= j => end[i] <= end[j]
      /\ \A k \in 1..end[n] : \E i \in 1..n : end[i - 1] < k /\ k <= end[i]
  <2>1. \A i \in 0..n : end[i] \in Nat /\ \A j \in 0..i : end[j] <= end[i]
    BY <1>4
  <2>2. n \in S
    BY <1>1, <1>4
  <2>3. \A i, j \in 0..n : i <= j => i \in 0..j
    BY <1>1
  <2> QED
    BY <2>1, <2>2, <2>3
<1>6. ASSUME NEW k \in 1..end[n], NEW i \in 1..n, NEW j \in 1..n,
             end[i - 1] < k, k <= end[i], end[j - 1] < k, k <= end[j]
      PROVE  i = j
  <2>1. /\ i \in 0..n /\ i - 1 \in 0..n /\ j \in 0..n /\ j - 1 \in 0..n
        /\ i \in Int /\ j \in Int
    BY <1>1
  <2>2. /\ end[i] \in Nat /\ end[i - 1] \in Nat /\ end[j] \in Nat /\ end[j - 1] \in Nat
    BY <1>5, <2>1
  <2>3. ASSUME i < j PROVE FALSE
    <3>1. i <= j - 1
      BY <2>1, <2>3
    <3>2. end[i] <= end[j - 1]
      BY <1>5, <2>1, <3>1
    <3> QED
      BY <1>6, <2>2, <3>2
  <2>4. ASSUME j < i PROVE FALSE
    <3>1. j <= i - 1
      BY <2>1, <2>4
    <3>2. end[j] <= end[i - 1]
      BY <1>5, <2>1, <3>1
    <3> QED
      BY <1>6, <2>2, <3>2
  <2> QED
    BY <2>1, <2>3, <2>4
<1>7. \A k \in 1..end[n] : \A i, j \in 1..n :
        end[i - 1] < k /\ k <= end[i] /\ end[j - 1] < k /\ k <= end[j] => i = j
  BY Zenon, <1>6
<1>8. \A i \in 1..n : end[i] = end[i - 1] + Len(rows[i])
  BY <1>1
<1> QED
  BY Zenon, <1>1, <1>5, <1>7, <1>8 DEF EndsOfRows, end, n

\* r is the row i of the points s.
RowIs(r, s, i) ==
  /\ IsSeq(r) /\ Count(s, i) \in 0..Len(s)
  /\ \A j \in 1..Len(r) :
       /\ Count(s, i) + j \in 1..Len(s) /\ s[Count(s, i) + j].y = i
       /\ r[j] = [x |-> s[Count(s, i) + j].x, item |-> s[Count(s, i) + j].item]
  /\ \A k \in 1..Len(s) : s[k].y = i => k - Count(s, i) \in 1..Len(r)

\* The rows of a matrix are those of its points.
LEMMA RowOfHeld ==
  ASSUME NEW m, NEW s, NEW n, Stream(s), Holds(m, s, n)
  PROVE  /\ GetNrRows(m) = n - 1 /\ n \in Pos
         /\ \A i \in 1..(n - 1) : RowIs(Row(m, i), s, i)
<1>1. /\ n \in Nat /\ n >= 1 /\ m.rowptr = [i \in 1..n |-> Count(s, i)]
      /\ m.elems = [k \in 1..Len(s) |-> [x |-> s[k].x, item |-> s[k].item]]
      /\ Rising(s) /\ Len(s) \in Nat
      /\ \A k \in 1..Len(s) : s[k].y \in Int
  BY DEF Holds, Pointers, Stream, Rising, Pos
<1> DEFINE ptr == m.rowptr
           elems == m.elems
<1>2. Len(ptr) = n /\ \A i \in 1..n : ptr[i] = Count(s, i)
  <2> DEFINE c(i) == Count(s, i)
  <2>1. ptr = [i \in 1..n |-> c(i)] /\ n \in Nat
    BY <1>1
  <2> HIDE DEF c, ptr
  <2>2. ptr = [i \in 1..n |-> ptr[i]] /\ \A i \in 1..n : ptr[i] = c(i)
    BY <2>1
  <2>3. Len(ptr) = n
    BY <2>1, <2>2, FunctionIs
  <2> QED
    BY <2>2, <2>3 DEF c
<1>3. /\ IsSeq(elems) /\ Len(elems) = Len(s)
      /\ \A k \in 1..Len(s) : elems[k] = [x |-> s[k].x, item |-> s[k].item]
  <2> DEFINE e(k) == [x |-> s[k].x, item |-> s[k].item]
             l == Len(s)
  <2>1. elems = [k \in 1..l |-> e(k)] /\ l \in Nat
    BY <1>1
  <2> HIDE DEF e, elems, l
  <2>2. elems = [k \in 1..l |-> elems[k]] /\ \A k \in 1..l : elems[k] = e(k)
    BY <2>1
  <2>3. IsSeq(elems) /\ Len(elems) = l
    BY <2>1, <2>2, FunctionIs
  <2> QED
    BY <2>2, <2>3 DEF e, l
<1>4. ASSUME NEW i \in 1..(n - 1)
      PROVE  RowIs(Row(m, i), s, i)
  <2> DEFINE a == Count(s, i)
             b == Count(s, i + 1)
             r == Row(m, i)
  <2>1. i \in 1..n /\ i + 1 \in 1..n /\ i \in Int /\ i + 1 \in Int
    BY <1>1
  <2>2. /\ a \in 0..Len(s) /\ \A k \in 1..Len(s) : k <= a <=> s[k].y < i
        /\ b \in 0..Len(s) /\ \A k \in 1..Len(s) : k <= b <=> s[k].y < i + 1
    BY <1>1, <2>1, CountIs
  <2>3. r = SubSeq(elems, a + 1, b)
    BY <1>2, <2>1 DEF Row
  <2> HIDE DEF a, b, r, elems
  <2>4. a <= b
    <3> SUFFICES ASSUME b < a PROVE FALSE
      BY <1>1, <2>2
    <3>1. a \in 1..Len(s)
      BY <1>1, <2>2
    <3>2. s[a].y < i /\ ~(s[a].y < i + 1) /\ s[a].y \in Int
      BY <1>1, <2>2, <3>1
    <3> QED
      BY <2>1, <3>2
  <2>5. a + 1 \in 1..(Len(elems) + 1) /\ b \in ((a + 1) - 1)..Len(elems)
    BY <1>1, <1>3, <2>2, <2>4
  <2>6. /\ IsSeq(r) /\ Len(r) = b - a /\ b - a \in Nat
        /\ \A j \in 1..(b - a) : r[j] = elems[a + j]
    <3>1. /\ IsSeq(r) /\ Len(r) = b - (a + 1) + 1
          /\ \A j \in 1..(b - (a + 1) + 1) : r[j] = elems[(a + 1) + j - 1]
      BY <1>3, <2>3, <2>5, StretchIs
    <3>2. b - (a + 1) + 1 = b - a /\ b - a \in Nat /\ \A j \in 1..(b - a) : (a + 1) + j - 1 = a + j
      BY <1>1, <2>2, <2>4
    <3> QED
      BY <3>1, <3>2
  <2>7. ASSUME NEW j \in 1..Len(r)
        PROVE  /\ a + j \in 1..Len(s) /\ s[a + j].y = i
               /\ r[j] = [x |-> s[a + j].x, item |-> s[a + j].item]
    <3>1. j \in 1..(b - a) /\ a + j \in 1..Len(s) /\ ~(a + j <= a) /\ a + j <= b
      BY <1>1, <2>2, <2>4, <2>6
    <3>2. ~(s[a + j].y < i) /\ s[a + j].y < i + 1 /\ s[a + j].y \in Int
      BY <1>1, <2>2, <3>1
    <3>3. s[a + j].y = i
      BY <2>1, <3>2
    <3> QED
      BY <1>3, <2>6, <3>1, <3>3
  <2>8. ASSUME NEW k \in 1..Len(s), s[k].y = i PROVE k - a \in 1..Len(r)
    <3>1. ~(s[k].y < i) /\ s[k].y < i + 1
      BY <2>1, <2>8
    <3>2. ~(k <= a) /\ k <= b
      BY <2>2, <3>1
    <3> QED
      BY <1>1, <2>2, <2>6, <3>2
  <2> QED
    BY <2>2, <2>6, <2>7, <2>8 DEF RowIs, a, r
<1>5. GetNrRows(m) = n - 1
  BY <1>2 DEF GetNrRows
<1> QED
  BY <1>1, <1>4, <1>5 DEF Pos

\* So they can be encoded.
LEMMA RowHasColumns ==
  ASSUME NEW s, Stream(s), NEW i, NEW r, RowIs(r, s, i)
  PROVE  HasColumns(r)
<1>1. \A k \in 1..Len(s) : s[k].x \in Int
  BY DEF Stream, Rising
<1>2. \A j \in 1..Len(r) : r[j].x = s[Count(s, i) + j].x /\ Count(s, i) + j \in 1..Len(s)
  <2> TAKE j \in 1..Len(r)
  <2> DEFINE a == s[Count(s, i) + j].x
             b == s[Count(s, i) + j].item
  <2>1. Count(s, i) + j \in 1..Len(s) /\ r[j] = [x |-> a, item |-> b]
    BY Zenon DEF RowIs
  <2> HIDE DEF a, b
  <2>2. r[j].x = a
    BY <2>1
  <2> QED
    BY <2>1, <2>2 DEF a
<1> QED
  BY <1>1, <1>2 DEF HasColumns, RowIs

-----------------------------------------------------------------------------
(***************************************************************************)
(* A matrix encoded row by row.                                            *)
(***************************************************************************)
\* The stretch of old lies in whole from place c + a on.
LiesIn(old, whole, c, a, b) ==
  c \in Int /\ a \in Int /\ b \in Int /\ a <= b /\ \A k \in a..b : old[k] = whole[c + k]

\* What stands for a stretch of a row stands for it where the row lies in the matrix.
LEMMA StandsInWhole ==
  ASSUME NEW t, NEW old, NEW whole, NEW c, NEW a, NEW b, LiesIn(old, whole, c, a, b),
         NEW e, StandsFor(e, t, old, a, b)
  PROVE  StandsFor(e, t, whole, c + a, c + b)
<1>0. c \in Int /\ a \in Int /\ b \in Int /\ a <= b /\ \A k \in a..b : old[k] = whole[c + k]
  BY DEF LiesIn
<1>1. CASE a = b /\ e = old[a]
  BY <1>0, <1>1 DEF StandsFor
<1>2. ASSUME NEW p, RunsAlong(p, t, old, a, b), e = Unit(old, a, p)
      PROVE  StandsFor(e, t, whole, c + a, c + b)
  <2> DEFINE f == c + a
             g == c + b
  <2>1. /\ p = [order |-> t, delta |-> p.delta, size |-> p.size, other |-> p.other]
        /\ p.size = b - a + 1 /\ p.size \in Pos /\ p.delta \in Pos /\ p.other \in Nat
        /\ \A k \in a..b : ~HasPattern(old[k]) /\ old[k].x = old[a].x + (k - a) * p.delta
        /\ IsBlockType(t) # 0 => /\ p.delta = 1 /\ p.size = IsBlockType(t) * p.other
                                 /\ (old[a].x - 1) % IsBlockType(t) = 0
    BY Zenon, <1>2 DEF RunsAlong
  <2>2. f \in Int /\ g \in Int /\ old[a] = whole[f]
    BY <1>0
  <2>3. ASSUME NEW k \in f..g
        PROVE  ~HasPattern(whole[k]) /\ whole[k].x = whole[f].x + (k - f) * p.delta
    <3> DEFINE h == k - c
    <3>1. h \in a..b /\ c + h = k /\ h - a = k - f
      BY <1>0
    <3> HIDE DEF h, f, g
    <3>2. old[h] = whole[k]
      BY <1>0, <3>1
    <3>3. ~HasPattern(old[h]) /\ old[h].x = old[a].x + (h - a) * p.delta
      BY <2>1, <3>1
    <3> QED
      BY <2>2, <3>1, <3>2, <3>3
  <2>4. p.size = g - f + 1
    BY <1>0, <2>1
  <2> HIDE DEF f, g
  <2>5. /\ \A k \in f..g : ~HasPattern(whole[k]) /\ whole[k].x = whole[f].x + (k - f) * p.delta
        /\ IsBlockType(t) # 0 => /\ p.delta = 1 /\ p.size = IsBlockType(t) * p.other
                                 /\ (whole[f].x - 1) % IsBlockType(t) = 0
    BY ONLY <2>1, <2>2, <2>3
  <2>6. RunsAlong(p, t, whole, f, g)
    BY Zenon, <2>1, <2>4, <2>5 DEF RunsAlong
  <2>7. Unit(old, a, p) = Unit(whole, f, p)
    <3>1. ASSUME NEW k \in 1..p.size PROVE old[a + k - 1] = whole[f + k - 1]
      <4>1. a + k - 1 \in a..b /\ c + (a + k - 1) = f + k - 1
        <5> DEFINE n == p.size
        <5>1. n \in Nat /\ n = b - a + 1 /\ k \in 1..n
          BY <2>1 DEF Pos
        <5> HIDE DEF n
        <5> QED
          BY <1>0, <5>1 DEF f
      <4> QED
        BY <1>0, <4>1
    <3> QED
      BY Zenon, <2>2, <3>1 DEF Unit
  <2> QED
    BY Zenon, <1>2, <2>6, <2>7 DEF StandsFor, f, g
<1> QED
  BY Zenon, <1>1, <1>2 DEF StandsFor

\* Nothing before a sequence.
LEMMA NothingBefore ==
  ASSUME NEW s, IsSeq(s)
  PROVE  <<>> \o s = s
<1> DEFINE u == <<>>
           v == u \o s
           n == Len(s)
<1>1. Len(u) = 0 /\ IsSeq(u) /\ n \in Nat
  BY DEF IsSeq
<1> HIDE DEF u
<1>2. IsSeq(v) /\ Len(v) = Len(u) + Len(s) /\ \A k \in 1..Len(s) : v[Len(u) + k] = s[k]
  BY <1>1, ConcatIs
<1> HIDE DEF v, n
<1>3. Len(v) = n /\ \A k \in 1..n : v[k] = s[k]
  <2>1. Len(v) = n
    BY <1>1, <1>2 DEF n
  <2>2. \A k \in 1..n : Len(u) + k = k
    BY <1>1
  <2> QED
    BY <1>2, <2>1, <2>2 DEF n
<1>4. v = [k \in 1..n |-> v[k]] /\ s = [k \in 1..n |-> s[k]]
  BY <1>2, <1>3 DEF IsSeq, n
<1>5. v = s
  BY ONLY <1>3, <1>4
<1> QED
  BY <1>5 DEF u, v

\* A matrix built anew: element k is in the row y[k], and the pointers count the
\* elements row by row.
BuiltFrom(new, rows, end, y) ==
  /\ IsSeq(new.elems) /\ Len(new.elems) = end[Len(rows)]
  /\ new.rowptr = [i \in 1..(Len(rows) + 1) |-> end[i - 1]]
  /\ \A k \in 1..end[Len(rows)] :
       /\ y[k] \in 1..Len(rows) /\ end[y[k] - 1] < k /\ k <= end[y[k]]
       /\ k - end[y[k] - 1] \in 1..Len(rows[y[k]])
       /\ new.elems[k] = rows[y[k]][k - end[y[k] - 1]]

\* Rebuilding a matrix from its rows keeps their elements and its other fields.
LEMMA RebuiltIs ==
  ASSUME NEW rows, Len(rows) \in Nat, \A i \in 1..Len(rows) : Len(rows[i]) \in Nat,
         NEW m, NEW fields, Has(m, fields), MatrixFields \subseteq fields
  PROVE  /\ EndsOfRows(RowEnds(rows), rows)
         /\ \E y : BuiltFrom(Rebuilt(m, rows), rows, RowEnds(rows), y)
         /\ Has(Rebuilt(m, rows), fields)
         /\ \A f \in fields \ {"elems", "rowptr"} : Rebuilt(m, rows)[f] = m[f]
<1> DEFINE end == RowEnds(rows)
           N == Len(rows)
           RowOf(k) == CHOOSE i \in 1..N : end[i - 1] < k /\ k <= end[i]
           Elem(k) == rows[RowOf(k)][k - end[RowOf(k) - 1]]
           elems == [k \in 1..end[N] |-> Elem(k)]
           rowptr == [i \in 1..(N + 1) |-> end[i - 1]]
           y == [k \in 1..end[N] |-> RowOf(k)]
           new == Rebuilt(m, rows)
<1>0. EndsOfRows(end, rows)
  BY RowEndsAre
<1>1. /\ N \in Nat /\ \A i \in 0..N : end[i] \in Nat
      /\ \A i \in 1..N : end[i] = end[i - 1] + Len(rows[i]) /\ Len(rows[i]) \in Nat
      /\ \A k \in 1..end[N] : \E i \in 1..N : end[i - 1] < k /\ k <= end[i]
  BY <1>0 DEF EndsOfRows
<1>2. new = [m EXCEPT !.elems = <<>> \o elems, !.rowptr = <<>> \o rowptr]
  BY DEF Rebuilt
<1> HIDE DEF end, N
<1>3. \A k \in 1..end[N] : RowOf(k) \in 1..N /\ end[RowOf(k) - 1] < k /\ k <= end[RowOf(k)]
  BY <1>1
<1> HIDE DEF RowOf
<1>4. N \in 0..N /\ end[N] \in Nat /\ N + 1 \in Nat
  BY <1>1
<1>5. IsSeq(elems) /\ Len(elems) = end[N]
  <2> HIDE DEF Elem
  <2>1. elems = [k \in 1..end[N] |-> elems[k]]
    OBVIOUS
  <2> HIDE DEF elems
  <2> QED
    BY <1>4, <2>1, FunctionIs
<1>6. IsSeq(rowptr)
  <2>1. rowptr = [i \in 1..(N + 1) |-> rowptr[i]]
    OBVIOUS
  <2> HIDE DEF rowptr
  <2> QED
    BY <1>4, <2>1, FunctionIs
<1>7. <<>> \o elems = elems /\ <<>> \o rowptr = rowptr
  <2> HIDE DEF elems, rowptr
  <2> QED
    BY <1>5, <1>6, NothingBefore
<1>8. new = [m EXCEPT !.elems = elems, !.rowptr = rowptr]
  BY <1>2, <1>7
<1> HIDE DEF new
<1>9. /\ Has(new, fields) /\ new.elems = elems /\ new.rowptr = rowptr
      /\ \A f \in fields \ {"elems", "rowptr"} : new[f] = m[f]
  <2> HIDE DEF elems, rowptr
  <2>1. m = [f \in fields |-> m[f]] /\ "elems" \in fields /\ "rowptr" \in fields
    BY DEF Has, MatrixFields
  <2>2. DOMAIN m = fields
    BY <2>1
  <2>3. new = [f \in fields |-> IF f = "rowptr" THEN rowptr ELSE IF f = "elems" THEN elems ELSE m[f]]
    BY <1>8, <2>1, <2>2
  <2>4. /\ new = [f \in fields |-> new[f]] /\ new["elems"] = elems /\ new["rowptr"] = rowptr
        /\ \A f \in fields \ {"elems", "rowptr"} : new[f] = m[f]
    BY <2>1, <2>3
  <2> QED
    BY <2>4 DEF Has
<1>10. ASSUME NEW k \in 1..end[N]
       PROVE  /\ y[k] \in 1..N /\ end[y[k] - 1] < k /\ k <= end[y[k]]
              /\ k - end[y[k] - 1] \in 1..Len(rows[y[k]])
              /\ new.elems[k] = rows[y[k]][k - end[y[k] - 1]]
  <2> DEFINE i == RowOf(k)
  <2>1. y[k] = i
    OBVIOUS
  <2>2. i \in 1..N /\ end[i - 1] < k /\ k <= end[i]
    BY <1>3
  <2>3. elems[k] = rows[i][k - end[i - 1]]
    OBVIOUS
  <2> HIDE DEF i, elems, y
  <2>4. i - 1 \in 0..N /\ i \in 0..N
    BY <1>1, <2>2
  <2>5. k - end[i - 1] \in 1..Len(rows[i])
    <3>1. end[i] = end[i - 1] + Len(rows[i]) /\ end[i] \in Nat /\ end[i - 1] \in Nat
          /\ Len(rows[i]) \in Nat
      BY <1>1, <2>2, <2>4
    <3>2. k \in Int
      BY <1>4
    <3> QED
      BY ONLY <2>2, <3>1, <3>2
  <2> QED
    BY <1>9, <2>1, <2>2, <2>3, <2>5
<1>11. BuiltFrom(new, rows, end, y)
  <2> HIDE DEF y, elems
  <2>1. \A k \in 1..end[N] :
          /\ y[k] \in 1..N /\ end[y[k] - 1] < k /\ k <= end[y[k]]
          /\ k - end[y[k] - 1] \in 1..Len(rows[y[k]])
          /\ new.elems[k] = rows[y[k]][k - end[y[k] - 1]]
    BY Zenon, <1>10
  <2> QED
    BY Zenon, <1>5, <1>9, <2>1 DEF BuiltFrom, N
<1> QED
  BY Zenon, <1>0, <1>9, <1>11 DEF end, new

\* The elements that a matrix with these points holds.
ElemsIn(s) == [k \in 1..Len(s) |-> [x |-> s[k].x, item |-> s[k].item]]

\* Each row of new stands for the row of the points s.
RowsStand(rows, t, s) ==
  /\ IsSeq(rows)
  /\ \A i \in 1..Len(rows) :
       \E old : RowIs(old, s, i) /\ Covers(rows[i], t, old, 1, Len(old))

\* Each element of new stands for a stretch of one row of the points s, all of them
\* for all of the points.
StandsForPoints(new, y, from, to, t, s) ==
  /\ Stretches(from, to, Len(new), 1, Len(s))
  /\ \A k \in 1..Len(new) : /\ StandsFor(new[k], t, ElemsIn(s), from[k], to[k])
                            /\ \A h \in from[k]..to[k] : s[h].y = y[k]

\* So does each element of one row, for the points of row i.
StandsForRow(new, from, to, t, s, i) ==
  /\ \A k \in 1..Len(new) :
       /\ from[k] \in 1..Len(s) /\ to[k] \in from[k]..Len(s)
       /\ StandsFor(new[k], t, ElemsIn(s), from[k], to[k])
       /\ \A h \in from[k]..to[k] : s[h].y = i
  /\ \A j, k \in 1..Len(new) : j < k => to[j] < from[k]
  /\ \A h \in 1..Len(s) : s[h].y = i => \E k \in 1..Len(new) : from[k] <= h /\ h <= to[k]

\* A stretch of a row is one of the points.
LEMMA RowStretches ==
  ASSUME NEW s, Stream(s), NEW i \in Int, NEW t, NEW old, RowIs(old, s, i),
         NEW new, Covers(new, t, old, 1, Len(old)), NEW c, c = Count(s, i)
  PROVE  \E from, to : StandsForRow(new, from, to, t, s, i)
<1> DEFINE n == Len(new)
           m == Len(old)
           l == Len(s)
<1>1. PICK f, g : /\ Stretches(f, g, n, 1, m)
                  /\ \A k \in 1..n : StandsFor(new[k], t, old, f[k], g[k])
  BY DEF Covers
<1>2. /\ c \in 0..l /\ l \in Nat /\ m \in Nat
      /\ \A j \in 1..m : /\ c + j \in 1..l /\ s[c + j].y = i
                         /\ old[j] = [x |-> s[c + j].x, item |-> s[c + j].item]
      /\ \A k \in 1..l : s[k].y = i => k - c \in 1..m
  BY DEF RowIs, IsSeq, Stream, Rising
<1>3. /\ \A k \in 1..n : f[k] \in 1..m /\ g[k] \in f[k]..m
      /\ \A j, k \in 1..n : j < k => g[j] < f[k]
      /\ \A h \in 1..m : \E k \in 1..n : f[k] <= h /\ h <= g[k]
  BY Zenon, <1>1 DEF Stretches
<1> DEFINE from == [k \in 1..n |-> c + f[k]]
           to == [k \in 1..n |-> c + g[k]]
<1>4. \A k \in 1..n : from[k] = c + f[k] /\ to[k] = c + g[k]
  OBVIOUS
<1> HIDE DEF from, to, n, m, l
<1>5. ASSUME NEW k \in 1..n
      PROVE  /\ from[k] \in 1..l /\ to[k] \in from[k]..l
             /\ StandsFor(new[k], t, ElemsIn(s), from[k], to[k])
             /\ \A h \in from[k]..to[k] : s[h].y = i
  <2> DEFINE a == f[k]
             b == g[k]
             e == new[k]
             whole == ElemsIn(s)
  <2>1. a \in 1..m /\ b \in a..m /\ StandsFor(e, t, old, a, b) /\ from[k] = c + a /\ to[k] = c + b
    BY <1>1, <1>3, <1>4
  <2>2. \A j \in 1..m : old[j] = whole[c + j]
    <3> TAKE j \in 1..m
    <3>1. c + j \in 1..l
      BY <1>2
    <3>2. whole[c + j] = [x |-> s[c + j].x, item |-> s[c + j].item]
      BY Zenon, <3>1 DEF ElemsIn, l
    <3> QED
      BY Zenon, <1>2, <3>2
  <2> HIDE DEF a, b, e, whole
  <2>3. a \in Int /\ b \in Int /\ a <= b /\ c \in Int /\ \A j \in a..b : j \in 1..m
    BY <1>2, <2>1
  <2>4. \A j \in a..b : old[j] = whole[c + j]
    BY <2>2, <2>3
  <2>5. StandsFor(e, t, whole, c + a, c + b)
    <3>1. LiesIn(old, whole, c, a, b)
      BY Zenon, <2>3, <2>4 DEF LiesIn
    <3> QED
      BY Zenon, <2>1, <3>1, StandsInWhole
  <2>6. c + a \in 1..l /\ c + b \in 1..l /\ c + b \in (c + a)..l
    <3>1. a \in 1..m /\ b \in 1..m
      <4>1. m \in Nat /\ a \in 1..m /\ b \in a..m
        BY Zenon, <1>2, <2>1
      <4> QED
        BY ONLY <4>1
    <3>2. c + a \in 1..l /\ c + b \in 1..l
      BY Zenon, <1>2, <3>1
    <3> QED
      BY <2>3, <3>2
  <2>7. ASSUME NEW h \in (c + a)..(c + b) PROVE s[h].y = i
    <3>1. h - c \in 1..m /\ c + (h - c) = h
      BY <2>1, <2>3
    <3> QED
      BY <1>2, <3>1
  <2> QED
    BY <2>1, <2>5, <2>6, <2>7 DEF e, whole
<1>6. \A j, k \in 1..n : j < k => to[j] < from[k]
  <2> TAKE j, k \in 1..n
  <2> HAVE j < k
  <2>1. g[j] < f[k] /\ g[j] \in Int /\ f[k] \in Int
    BY <1>2, <1>3
  <2> QED
    BY <1>2, <1>4, <2>1
<1>7. ASSUME NEW h \in 1..l, s[h].y = i
      PROVE  \E k \in 1..n : from[k] <= h /\ h <= to[k]
  <2>1. h - c \in 1..m
    BY <1>2, <1>7
  <2>2. PICK k \in 1..n : f[k] <= h - c /\ h - c <= g[k]
    BY <1>3, <2>1
  <2>3. g[k] \in Int /\ f[k] \in Int
    BY <1>2, <1>3
  <2> QED
    BY <1>2, <1>4, <2>2, <2>3
<1>8. StandsForRow(new, from, to, t, s, i)
  BY Zenon, <1>5, <1>6, <1>7 DEF n, l, StandsForRow
<1> QED
  BY Zenon, <1>8

\* So the elements of a matrix built from such rows stand for the points.
LEMMA BuiltStands ==
  ASSUME NEW s, Stream(s), NEW t, NEW rows, RowsStand(rows, t, s),
         \A k \in 1..Len(s) : s[k].y \in 1..Len(rows),
         NEW end, EndsOfRows(end, rows), NEW m, NEW y, BuiltFrom(m, rows, end, y)
  PROVE  \E from, to : StandsForPoints(m.elems, y, from, to, t, s)
<1> DEFINE new == m.elems
           N == Len(rows)
           n == end[N]
           l == Len(s)
           IsFt(i, ft) == StandsForRow(rows[i], ft[1], ft[2], t, s, i)
           FT == [i \in 1..N |-> CHOOSE ft : IsFt(i, ft)]
           f(i, k) == FT[i][1][k]
           g(i, k) == FT[i][2][k]
<1>1. /\ N \in Nat /\ n \in Nat /\ l \in Nat /\ Len(new) = n
      /\ \A k \in 1..l : s[k].y \in Int
      /\ \A j, k \in 1..l : j < k => s[j].y <= s[k].y
  <2>1. N \in Nat
    BY DEF RowsStand, IsSeq
  <2>2. N \in 0..N
    BY <2>1
  <2>3. n \in Nat
    BY <2>2 DEF EndsOfRows
  <2>4. Len(new) = n
    BY DEF BuiltFrom
  <2>5. /\ l \in Nat /\ \A k \in 1..l : s[k].y \in Int
        /\ \A j, k \in 1..l : j < k => CooLess(s[j], s[k])
    BY DEF Stream, Rising
  <2>6. \A j, k \in 1..l : j < k => s[j].y <= s[k].y
    <3> HIDE DEF l
    <3> QED
      BY <2>5 DEF CooLess
  <2> QED
    BY Zenon, <2>1, <2>3, <2>4, <2>5, <2>6
<1>2. ASSUME NEW i \in 1..N PROVE \E ft : IsFt(i, ft)
  <2>1. PICK old : RowIs(old, s, i) /\ Covers(rows[i], t, old, 1, Len(old))
    BY DEF RowsStand
  <2> DEFINE c == Count(s, i)
             r == rows[i]
  <2>2. i \in Int /\ c = Count(s, i) /\ Covers(r, t, old, 1, Len(old))
    BY <1>1, <2>1
  <2> HIDE DEF c, r
  <2>3. PICK from, to : StandsForRow(r, from, to, t, s, i)
    BY ONLY Stream(s), <2>1, <2>2, RowStretches
  <2> DEFINE ft == <<from, to>>
  <2>4. ft[1] = from /\ ft[2] = to
    OBVIOUS
  <2> HIDE DEF ft
  <2>5. IsFt(i, ft)
    BY Zenon, <2>3, <2>4 DEF r
  <2> QED
    BY Zenon, <2>5
<1>3. \A i \in 1..N : IsFt(i, FT[i])
  <2> TAKE i \in 1..N
  <2>1. FT[i] = CHOOSE ft : IsFt(i, ft)
    OBVIOUS
  <2>2. \E ft : IsFt(i, ft)
    BY <1>2
  <2> HIDE DEF IsFt, FT
  <2> QED
    BY <2>1, <2>2
<1> HIDE DEF FT
<1>4. ASSUME NEW i \in 1..N
      PROVE  /\ \A k \in 1..Len(rows[i]) :
                  /\ f(i, k) \in 1..l /\ g(i, k) \in f(i, k)..l
                  /\ StandsFor(rows[i][k], t, ElemsIn(s), f(i, k), g(i, k))
                  /\ \A h \in f(i, k)..g(i, k) : s[h].y = i
             /\ \A j, k \in 1..Len(rows[i]) : j < k => g(i, j) < f(i, k)
             /\ \A h \in 1..l : s[h].y = i =>
                  \E k \in 1..Len(rows[i]) : f(i, k) <= h /\ h <= g(i, k)
  BY Zenon, <1>3 DEF StandsForRow
<1> HIDE DEF f, g, IsFt
<1> DEFINE at(k) == k - end[y[k] - 1]
           from == [k \in 1..n |-> f(y[k], at(k))]
           to == [k \in 1..n |-> g(y[k], at(k))]
<1>5. \A k \in 1..n : from[k] = f(y[k], at(k)) /\ to[k] = g(y[k], at(k))
  OBVIOUS
<1> HIDE DEF from, to
<1>6. ASSUME NEW k \in 1..n
      PROVE  /\ y[k] \in 1..N /\ at(k) \in 1..Len(rows[y[k]]) /\ new[k] = rows[y[k]][at(k)]
             /\ end[y[k] - 1] < k /\ k <= end[y[k]]
  BY Zenon DEF BuiltFrom
<1>7. ASSUME NEW k \in 1..n
      PROVE  /\ from[k] \in 1..l /\ to[k] \in from[k]..l
             /\ StandsFor(new[k], t, ElemsIn(s), from[k], to[k])
             /\ \A h \in from[k]..to[k] : s[h].y = y[k]
  <2> DEFINE i == y[k]
             a == at(k)
  <2>1. i \in 1..N /\ a \in 1..Len(rows[i]) /\ new[k] = rows[i][a]
        /\ from[k] = f(i, a) /\ to[k] = g(i, a)
    BY <1>5, <1>6
  <2> HIDE DEF i, a
  <2>2. /\ f(i, a) \in 1..l /\ g(i, a) \in f(i, a)..l
        /\ StandsFor(rows[i][a], t, ElemsIn(s), f(i, a), g(i, a))
        /\ \A h \in f(i, a)..g(i, a) : s[h].y = i
    BY <1>4, <2>1
  <2>3. i = y[k]
    BY DEF i
  <2> HIDE DEF n, new, l
  <2> QED
    BY Zenon, <2>1, <2>2, <2>3
<1>8. ASSUME NEW j \in 1..n, NEW k \in 1..n, j < k PROVE to[j] < from[k]
  <2> DEFINE p == y[j]
             q == y[k]
             a == at(j)
             b == at(k)
  <2>1. /\ p \in 1..N /\ q \in 1..N /\ end[p - 1] < j /\ j <= end[p]
        /\ end[q - 1] < k /\ k <= end[q] /\ a \in 1..Len(rows[p]) /\ b \in 1..Len(rows[q])
        /\ a = j - end[p - 1] /\ b = k - end[q - 1]
        /\ to[j] = g(p, a) /\ from[k] = f(q, b)
    BY <1>5, <1>6
  <2>2. /\ to[j] \in 1..l /\ from[k] \in 1..l /\ from[j] \in 1..l /\ to[j] \in from[j]..l
        /\ to[k] \in from[k]..l
    BY <1>1, <1>7
  <2>3. s[to[j]].y = p /\ s[from[k]].y = q
    <3>1. to[j] \in from[j]..to[j] /\ from[k] \in from[k]..to[k]
      BY <1>1, <2>2
    <3> QED
      BY <1>7, <3>1
  <2> HIDE DEF p, q, a, b, at
  <2>4. /\ p - 1 \in 0..N /\ q - 1 \in 0..N /\ p \in 0..N /\ q \in 0..N
        /\ end[p - 1] \in Nat /\ end[q - 1] \in Nat /\ end[p] \in Nat /\ end[q] \in Nat
        /\ j \in Int /\ k \in Int
    <3>0. N \in Nat /\ p \in 1..N /\ q \in 1..N
      BY <1>1, <2>1
    <3>1. p - 1 \in 0..N /\ q - 1 \in 0..N /\ p \in 0..N /\ q \in 0..N
      BY ONLY <3>0
    <3> QED
      BY <1>1, <3>1 DEF EndsOfRows
  <2>5. CASE p = q
    <3>1. a < b
      BY <1>8, <2>1, <2>4, <2>5
    <3> QED
      BY <1>4, <2>1, <2>5, <3>1
  <2>6. CASE p < q
    <3> DEFINE c == from[k]
               d == to[j]
    <3>1. c \in 1..l /\ d \in 1..l /\ s[d].y = p /\ s[c].y = q /\ p \in Int /\ q \in Int
      BY <1>1, <2>1, <2>2, <2>3
    <3> HIDE DEF c, d
    <3>2. c < d => s[c].y <= s[d].y
      BY Zenon, <1>1, <3>1
    <3>3. d < c
      BY ONLY <1>1, <2>6, <3>1, <3>2
    <3> QED
      BY <3>3 DEF c, d
  <2>7. CASE q < p
    <3>1. q <= p - 1
      BY <1>1, <2>1, <2>7
    <3>2. end[q] <= end[p - 1]
      BY <2>4, <3>1 DEF EndsOfRows
    <3> QED
      BY <1>8, <2>1, <2>4, <3>2
  <2> QED
    BY <1>1, <2>1, <2>5, <2>6, <2>7
<1>9. ASSUME NEW h \in 1..l PROVE \E k \in 1..n : from[k] <= h /\ h <= to[k]
  <2> DEFINE i == s[h].y
  <2>1. i \in 1..N
    OBVIOUS
  <2> HIDE DEF i
  <2>2. PICK a \in 1..Len(rows[i]) : f(i, a) <= h /\ h <= g(i, a)
    BY <1>4, <2>1 DEF i
  <2> DEFINE k == end[i - 1] + a
  <2>3. /\ i - 1 \in 0..N /\ i \in 0..N /\ N \in 0..N /\ i <= N /\ i \in Int
    BY <1>1, <2>1
  <2>4. /\ end[i - 1] \in Nat /\ end[i] \in Nat /\ end[i] = end[i - 1] + Len(rows[i])
        /\ end[i] <= n
    BY <2>1, <2>3 DEF EndsOfRows
  <2>5. k \in 1..n /\ end[i - 1] < k /\ k <= end[i] /\ k - end[i - 1] = a
    <3>1. a \in Int /\ a >= 1 /\ a <= Len(rows[i]) /\ Len(rows[i]) \in Int
      <4>1. Len(rows[i]) = end[i] - end[i - 1]
        BY <1>4, <2>1, <2>4 DEF RowsStand, Covers, IsSeq
      <4> QED
        BY <2>4, <4>1
    <3>2. k = end[i - 1] + a
      OBVIOUS
    <3> HIDE DEF n, k
    <3> DEFINE b == end[i - 1]
               d == end[i]
    <3>3. /\ b \in Nat /\ d \in Nat /\ d = b + Len(rows[i]) /\ d <= n /\ k = b + a
          /\ n \in Nat /\ a \in Int /\ a >= 1 /\ a <= Len(rows[i]) /\ Len(rows[i]) \in Int
      BY <1>1, <2>4, <3>1, <3>2
    <3> HIDE DEF b, d
    <3>4. k \in 1..n /\ b < k /\ k <= d /\ k - b = a
      BY ONLY <3>3
    <3> QED
      BY <3>4 DEF b, d
  <2> HIDE DEF k
  <2>6. y[k] = i
    <3>1. y[k] \in 1..N /\ end[y[k] - 1] < k /\ k <= end[y[k]]
      BY <1>6, <2>5
    <3> HIDE DEF n
    <3> QED
      BY Zenon, <2>1, <2>5, <3>1 DEF EndsOfRows, n
  <2>7. from[k] = f(i, a) /\ to[k] = g(i, a)
    BY Zenon, <1>5, <2>5, <2>6
  <2> QED
    BY Zenon, <2>2, <2>5, <2>7
<1>10. Stretches(from, to, n, 1, l)
  BY Zenon, <1>7, <1>8, <1>9 DEF Stretches
<1> HIDE DEF n, new, l
<1>11. StandsForPoints(new, y, from, to, t, s)
  <2>1. \A k \in 1..n : /\ StandsFor(new[k], t, ElemsIn(s), from[k], to[k])
                        /\ \A h \in from[k]..to[k] : s[h].y = y[k]
    BY <1>7
  <2>2. Len(new) = n
    BY <1>1
  <2> QED
    BY Zenon, <1>10, <2>1, <2>2 DEF StandsForPoints, l
<1> QED
  BY Zenon, <1>11 DEF new

-----------------------------------------------------------------------------
(***************************************************************************)
(* Numbers as bytes.                                                       *)
(***************************************************************************)
\* f is the powers of b.
IsPowers(f, b, num) ==
  f[0] = 1 /\ (\A k \in 1..num : f[k] = b * f[k - 1]) /\ Power(b, num) = f[num]

\* Powers are repeated products.
LEMMA PowerIs ==
  ASSUME NEW b \in Nat, NEW num \in Nat
  PROVE  \E f : IsPowers(f, b, num)
<1> DEFINE n == num
           base == 1
           step(s, k) == b * s
           Obeys(f, m) == f = [k \in 0..m |-> IF k = 0 THEN base ELSE step(f[k - 1], k)]
           Exist == {m \in 0..n : \E f : Obeys(f, m)}
           f == CHOOSE f : Obeys(f, n)
<1>1. n \in Nat
  OBVIOUS
<1>2. Power(b, num) = f[num]
  BY DEF Power
<1> HIDE DEF n, base, step
<1>3. 0 \in Exist
  <2> DEFINE h == [k \in 0..0 |-> base]
  <2>1. h = [k \in 0..0 |-> IF k = 0 THEN base ELSE step(h[k - 1], k)]
    <3>1. \A k \in 0..0 : k = 0
      OBVIOUS
    <3> QED
      BY <3>1
  <2>2. Obeys(h, 0)
    BY <2>1
  <2> HIDE DEF Obeys
  <2> QED
    BY <1>1, <2>2
<1>4. ASSUME NEW m \in 0..(n - 1), m \in Exist PROVE m + 1 \in Exist
  <2>1. PICK h : Obeys(h, m)
    BY <1>4
  <2> DEFINE u == [k \in 0..(m + 1) |-> IF k = m + 1 THEN step(h[m], m + 1) ELSE h[k]]
  <2>2. /\ h[0] = base /\ \A k \in 1..m : h[k] = step(h[k - 1], k)
    <3>1. h = [k \in 0..m |-> IF k = 0 THEN base ELSE step(h[k - 1], k)]
      BY <2>1
    <3>2. 0 \in 0..m /\ \A k \in 1..m : k \in 0..m /\ k # 0
      OBVIOUS
    <3> QED
      BY <3>1, <3>2
  <2>3. u[m + 1] = step(h[m], m + 1) /\ \A k \in 0..m : u[k] = h[k]
    OBVIOUS
  <2>4. ASSUME NEW k \in 0..(m + 1)
        PROVE  u[k] = IF k = 0 THEN base ELSE step(u[k - 1], k)
    <3> HIDE DEF u
    <3>1. CASE k = 0
      BY <2>2, <2>3, <3>1
    <3>2. CASE k \in 1..m
      BY <2>2, <2>3, <3>2
    <3>3. CASE k = m + 1
      <4>1. k - 1 = m /\ k # 0
        BY <3>3
      <4> QED
        BY <2>3, <3>3, <4>1
    <3> QED
      BY <3>1, <3>2, <3>3
  <2>5. u = [k \in 0..(m + 1) |-> u[k]]
    OBVIOUS
  <2> HIDE DEF u
  <2>6. u = [k \in 0..(m + 1) |-> IF k = 0 THEN base ELSE step(u[k - 1], k)]
    BY <2>4, <2>5
  <2>7. Obeys(u, m + 1)
    BY <2>6
  <2>8. m + 1 \in 0..n
    BY <1>1
  <2> HIDE DEF Obeys
  <2> QED
    BY <2>7, <2>8
<1>5. n \in Exist
  <2> HIDE DEF Exist
  <2>1. 0..n \subseteq Exist
    <3>1. 0 \in Int /\ n \in Int
      BY <1>1
    <3> QED
      BY Zenon, <1>3, <1>4, <3>1, IntervalInduction
  <2> QED
    BY <1>1, <2>1
<1>6. Obeys(f, n)
  <2>1. \E h : Obeys(h, n)
    BY <1>5
  <2> HIDE DEF Obeys
  <2> QED
    BY <2>1
<1> HIDE DEF f
<1>7. f[0] = base /\ \A k \in 1..n : f[k] = step(f[k - 1], k)
  <2>1. f = [k \in 0..n |-> IF k = 0 THEN base ELSE step(f[k - 1], k)]
    BY <1>6
  <2>2. 0 \in 0..n /\ \A k \in 1..n : k \in 0..n /\ k # 0
    BY <1>1
  <2> QED
    BY <2>1, <2>2
<1> QED
  BY <1>2, <1>7 DEF n, base, step, IsPowers

\* f is the number shifted again and again.
IsShifted(f, val, b, digits) ==
  f[0] = val /\ \A k \in 1..digits : f[k] = f[k - 1] \div b

\* Shifting divides again and again.
LEMMA ShiftedIs ==
  ASSUME NEW val, NEW b, NEW digits \in Nat
  PROVE  IsShifted(Shifted(val, b, digits), val, b, digits)
<1> DEFINE n == digits
           base == val
           step(s, k) == s \div b
           Obeys(f, m) == f = [k \in 0..m |-> IF k = 0 THEN base ELSE step(f[k - 1], k)]
           Exist == {m \in 0..n : \E f : Obeys(f, m)}
           f == CHOOSE f : Obeys(f, n)
<1>1. n \in Nat
  OBVIOUS
<1>2. Shifted(val, b, digits) = f
  BY DEF Shifted
<1> HIDE DEF n, base, step
<1>3. 0 \in Exist
  <2> DEFINE h == [k \in 0..0 |-> base]
  <2>1. h = [k \in 0..0 |-> IF k = 0 THEN base ELSE step(h[k - 1], k)]
    <3>1. \A k \in 0..0 : k = 0
      OBVIOUS
    <3> QED
      BY <3>1
  <2>2. Obeys(h, 0)
    BY <2>1
  <2> HIDE DEF Obeys
  <2> QED
    BY <1>1, <2>2
<1>4. ASSUME NEW m \in 0..(n - 1), m \in Exist PROVE m + 1 \in Exist
  <2>1. PICK h : Obeys(h, m)
    BY <1>4
  <2> DEFINE u == [k \in 0..(m + 1) |-> IF k = m + 1 THEN step(h[m], m + 1) ELSE h[k]]
  <2>2. /\ h[0] = base /\ \A k \in 1..m : h[k] = step(h[k - 1], k)
    <3>1. h = [k \in 0..m |-> IF k = 0 THEN base ELSE step(h[k - 1], k)]
      BY <2>1
    <3>2. 0 \in 0..m /\ \A k \in 1..m : k \in 0..m /\ k # 0
      OBVIOUS
    <3> QED
      BY <3>1, <3>2
  <2>3. u[m + 1] = step(h[m], m + 1) /\ \A k \in 0..m : u[k] = h[k]
    OBVIOUS
  <2>4. ASSUME NEW k \in 0..(m + 1)
        PROVE  u[k] = IF k = 0 THEN base ELSE step(u[k - 1], k)
    <3> HIDE DEF u
    <3>1. CASE k = 0
      BY <2>2, <2>3, <3>1
    <3>2. CASE k \in 1..m
      BY <2>2, <2>3, <3>2
    <3>3. CASE k = m + 1
      <4>1. k - 1 = m /\ k # 0
        BY <3>3
      <4> QED
        BY <2>3, <3>3, <4>1
    <3> QED
      BY <3>1, <3>2, <3>3
  <2>5. u = [k \in 0..(m + 1) |-> u[k]]
    OBVIOUS
  <2> HIDE DEF u
  <2>6. u = [k \in 0..(m + 1) |-> IF k = 0 THEN base ELSE step(u[k - 1], k)]
    BY <2>4, <2>5
  <2>7. Obeys(u, m + 1)
    BY <2>6
  <2>8. m + 1 \in 0..n
    BY <1>1
  <2> HIDE DEF Obeys
  <2> QED
    BY <2>7, <2>8
<1>5. n \in Exist
  <2> HIDE DEF Exist
  <2>1. 0..n \subseteq Exist
    <3>1. 0 \in Int /\ n \in Int
      BY <1>1
    <3> QED
      BY Zenon, <1>3, <1>4, <3>1, IntervalInduction
  <2> QED
    BY <1>1, <2>1
<1>6. Obeys(f, n)
  <2>1. \E h : Obeys(h, n)
    BY <1>5
  <2> HIDE DEF Obeys
  <2> QED
    BY <2>1
<1> HIDE DEF f
<1>7. f[0] = base /\ \A k \in 1..n : f[k] = step(f[k - 1], k)
  <2>1. f = [k \in 0..n |-> IF k = 0 THEN base ELSE step(f[k - 1], k)]
    BY <1>6
  <2>2. 0 \in 0..n /\ \A k \in 1..n : k \in 0..n /\ k # 0
    BY <1>1
  <2> QED
    BY <2>1, <2>2
<1> QED
  BY <1>2, <1>7 DEF n, base, step, IsShifted

\* f is the number's value from byte to byte.
GetsFixed(f, ctl, at, bytes) ==
  /\ f[0] = 0
  /\ \A k \in 1..bytes : f[k] = ctl[at + bytes - k] + ByteSize * f[k - 1]
  /\ fixed_get(ctl, at, bytes) = f[bytes]

\* A number of fixed length is read from its highest byte on.
LEMMA FixedGetIs ==
  ASSUME NEW ctl, NEW at, NEW bytes \in Nat
  PROVE  \E f : GetsFixed(f, ctl, at, bytes)
<1> DEFINE n == bytes
           base == 0
           step(s, k) == ctl[at + bytes - k] + ByteSize * s
           Obeys(f, m) == f = [k \in 0..m |-> IF k = 0 THEN base ELSE step(f[k - 1], k)]
           Exist == {m \in 0..n : \E f : Obeys(f, m)}
           f == CHOOSE f : Obeys(f, n)
<1>1. n \in Nat
  OBVIOUS
<1>2. fixed_get(ctl, at, bytes) = f[bytes]
  BY DEF fixed_get
<1> HIDE DEF n, base, step
<1>3. 0 \in Exist
  <2> DEFINE h == [k \in 0..0 |-> base]
  <2>1. h = [k \in 0..0 |-> IF k = 0 THEN base ELSE step(h[k - 1], k)]
    <3>1. \A k \in 0..0 : k = 0
      OBVIOUS
    <3> QED
      BY <3>1
  <2>2. Obeys(h, 0)
    BY <2>1
  <2> HIDE DEF Obeys
  <2> QED
    BY <1>1, <2>2
<1>4. ASSUME NEW m \in 0..(n - 1), m \in Exist PROVE m + 1 \in Exist
  <2>1. PICK h : Obeys(h, m)
    BY <1>4
  <2> DEFINE u == [k \in 0..(m + 1) |-> IF k = m + 1 THEN step(h[m], m + 1) ELSE h[k]]
  <2>2. /\ h[0] = base /\ \A k \in 1..m : h[k] = step(h[k - 1], k)
    <3>1. h = [k \in 0..m |-> IF k = 0 THEN base ELSE step(h[k - 1], k)]
      BY <2>1
    <3>2. 0 \in 0..m /\ \A k \in 1..m : k \in 0..m /\ k # 0
      OBVIOUS
    <3> QED
      BY <3>1, <3>2
  <2>3. u[m + 1] = step(h[m], m + 1) /\ \A k \in 0..m : u[k] = h[k]
    OBVIOUS
  <2>4. ASSUME NEW k \in 0..(m + 1)
        PROVE  u[k] = IF k = 0 THEN base ELSE step(u[k - 1], k)
    <3> HIDE DEF u
    <3>1. CASE k = 0
      BY <2>2, <2>3, <3>1
    <3>2. CASE k \in 1..m
      BY <2>2, <2>3, <3>2
    <3>3. CASE k = m + 1
      <4>1. k - 1 = m /\ k # 0
        BY <3>3
      <4> QED
        BY <2>3, <3>3, <4>1
    <3> QED
      BY <3>1, <3>2, <3>3
  <2>5. u = [k \in 0..(m + 1) |-> u[k]]
    OBVIOUS
  <2> HIDE DEF u
  <2>6. u = [k \in 0..(m + 1) |-> IF k = 0 THEN base ELSE step(u[k - 1], k)]
    BY <2>4, <2>5
  <2>7. Obeys(u, m + 1)
    BY <2>6
  <2>8. m + 1 \in 0..n
    BY <1>1
  <2> HIDE DEF Obeys
  <2> QED
    BY <2>7, <2>8
<1>5. n \in Exist
  <2> HIDE DEF Exist
  <2>1. 0..n \subseteq Exist
    <3>1. 0 \in Int /\ n \in Int
      BY <1>1
    <3> QED
      BY Zenon, <1>3, <1>4, <3>1, IntervalInduction
  <2> QED
    BY <1>1, <2>1
<1>6. Obeys(f, n)
  <2>1. \E h : Obeys(h, n)
    BY <1>5
  <2> HIDE DEF Obeys
  <2> QED
    BY <2>1
<1> HIDE DEF f
<1>7. f[0] = base /\ \A k \in 1..n : f[k] = step(f[k - 1], k)
  <2>1. f = [k \in 0..n |-> IF k = 0 THEN base ELSE step(f[k - 1], k)]
    BY <1>6
  <2>2. 0 \in 0..n /\ \A k \in 1..n : k \in 0..n /\ k # 0
    BY <1>1
  <2> QED
    BY <2>1, <2>2
<1> QED
  BY <1>2, <1>7 DEF n, base, step, GetsFixed

\* The last byte of a number of variable length.
LastByte(ctl, at) == Min({k \in at..Len(ctl) : ctl[k] < More})

\* f is the number's value from byte to byte.
GetsUL(f, ctl, at, last) ==
  /\ f[0] = ctl[last]
  /\ \A k \in 1..(last - at) : f[k] = (ctl[last - k] - More) + More * f[k - 1]
  /\ ul_get(ctl, at) = [val |-> f[last - at], next |-> last + 1]

\* So is a number of variable length read.
LEMMA ULGetIs ==
  ASSUME NEW ctl, NEW at, NEW last, last = LastByte(ctl, at), last - at \in Nat
  PROVE  \E f : GetsUL(f, ctl, at, last)
<1> DEFINE n == (last - at)
           base == ctl[last]
           step(s, k) == (ctl[last - k] - More) + More * s
           Obeys(f, m) == f = [k \in 0..m |-> IF k = 0 THEN base ELSE step(f[k - 1], k)]
           Exist == {m \in 0..n : \E f : Obeys(f, m)}
           f == CHOOSE f : Obeys(f, n)
<1>1. n \in Nat
  OBVIOUS
<1>2. ul_get(ctl, at) = [val |-> f[last - at], next |-> last + 1]
  BY DEF ul_get, LastByte
<1> HIDE DEF n, base, step
<1>3. 0 \in Exist
  <2> DEFINE h == [k \in 0..0 |-> base]
  <2>1. h = [k \in 0..0 |-> IF k = 0 THEN base ELSE step(h[k - 1], k)]
    <3>1. \A k \in 0..0 : k = 0
      OBVIOUS
    <3> QED
      BY <3>1
  <2>2. Obeys(h, 0)
    BY <2>1
  <2> HIDE DEF Obeys
  <2> QED
    BY <1>1, <2>2
<1>4. ASSUME NEW m \in 0..(n - 1), m \in Exist PROVE m + 1 \in Exist
  <2>1. PICK h : Obeys(h, m)
    BY <1>4
  <2> DEFINE u == [k \in 0..(m + 1) |-> IF k = m + 1 THEN step(h[m], m + 1) ELSE h[k]]
  <2>2. /\ h[0] = base /\ \A k \in 1..m : h[k] = step(h[k - 1], k)
    <3>1. h = [k \in 0..m |-> IF k = 0 THEN base ELSE step(h[k - 1], k)]
      BY <2>1
    <3>2. 0 \in 0..m /\ \A k \in 1..m : k \in 0..m /\ k # 0
      OBVIOUS
    <3> QED
      BY <3>1, <3>2
  <2>3. u[m + 1] = step(h[m], m + 1) /\ \A k \in 0..m : u[k] = h[k]
    OBVIOUS
  <2>4. ASSUME NEW k \in 0..(m + 1)
        PROVE  u[k] = IF k = 0 THEN base ELSE step(u[k - 1], k)
    <3> HIDE DEF u
    <3>1. CASE k = 0
      BY <2>2, <2>3, <3>1
    <3>2. CASE k \in 1..m
      BY <2>2, <2>3, <3>2
    <3>3. CASE k = m + 1
      <4>1. k - 1 = m /\ k # 0
        BY <3>3
      <4> QED
        BY <2>3, <3>3, <4>1
    <3> QED
      BY <3>1, <3>2, <3>3
  <2>5. u = [k \in 0..(m + 1) |-> u[k]]
    OBVIOUS
  <2> HIDE DEF u
  <2>6. u = [k \in 0..(m + 1) |-> IF k = 0 THEN base ELSE step(u[k - 1], k)]
    BY <2>4, <2>5
  <2>7. Obeys(u, m + 1)
    BY <2>6
  <2>8. m + 1 \in 0..n
    BY <1>1
  <2> HIDE DEF Obeys
  <2> QED
    BY <2>7, <2>8
<1>5. n \in Exist
  <2> HIDE DEF Exist
  <2>1. 0..n \subseteq Exist
    <3>1. 0 \in Int /\ n \in Int
      BY <1>1
    <3> QED
      BY Zenon, <1>3, <1>4, <3>1, IntervalInduction
  <2> QED
    BY <1>1, <2>1
<1>6. Obeys(f, n)
  <2>1. \E h : Obeys(h, n)
    BY <1>5
  <2> HIDE DEF Obeys
  <2> QED
    BY <2>1
<1> HIDE DEF f
<1>7. f[0] = base /\ \A k \in 1..n : f[k] = step(f[k - 1], k)
  <2>1. f = [k \in 0..n |-> IF k = 0 THEN base ELSE step(f[k - 1], k)]
    BY <1>6
  <2>2. 0 \in 0..n /\ \A k \in 1..n : k \in 0..n /\ k # 0
    BY <1>1
  <2> QED
    BY <2>1, <2>2
<1> QED
  BY <1>2, <1>7 DEF n, base, step, GetsUL

\* A nonempty set of natural numbers has its least one.
LEMMA MinIs ==
  ASSUME NEW S \in SUBSET Nat, S # {}
  PROVE  Min(S) \in S /\ \A k \in S : Min(S) <= k
<1>1. PICK n \in S : \A m \in S : n <= m
  BY LeastNat
<1> QED
  BY <1>1 DEF Min

\* A quotient is less than what the dividend is less than times the divisor.
LEMMA DivLess ==
  ASSUME NEW a \in Nat, NEW m \in Pos, NEW q \in Nat, a < m * q
  PROVE  a \div m \in 0..(q - 1)
<1> DEFINE d == a \div m
           r == a % m
<1>1. d \in Nat /\ r \in 0..(m - 1) /\ a = d * m + r
  BY DivisionIs
<1> HIDE DEF d, r
<1>2. ASSUME d >= q PROVE FALSE
  <2>1. PICK c \in Nat : d = q + c
    <3>1. d - q \in Nat /\ d = q + (d - q)
      BY <1>1, <1>2
    <3> QED
      BY <3>1
  <2>2. (q + c) * m = m * q + c * m /\ c * m \in Nat /\ m * q \in Nat
    BY DEF Pos
  <2>3. a >= m * q
    BY <1>1, <2>1, <2>2
  <2> QED
    BY <2>2, <2>3
<1>3. d < q
  BY <1>1, <1>2
<1>4. d \in 0..(q - 1)
  BY <1>1, <1>3
<1> QED
  BY <1>4 DEF d

\* Half the values of a byte are at least the root of all.
LEMMA MoreIs == /\ More \in Pos /\ More >= 2 /\ ByteSize = 2 * More /\ ByteSize \in Pos
                /\ ByteSize <= More * More
<1>1. More \in Nat /\ ByteSize = 2 * More /\ More >= 2 /\ ByteSize \in Pos
  BY ByteAssumption DEF More, Pos
<1>2. PICK c \in Nat : More = 2 + c
  <2>1. More - 2 \in Nat /\ More = 2 + (More - 2)
    BY <1>1
  <2> QED
    BY <2>1
<1>3. More * More = 2 * More + c * More /\ c * More \in Nat
  BY <1>1, <1>2
<1> QED
  BY <1>1, <1>3 DEF Pos

\* The powers of a byte's values.
BytePowers(p) ==
  /\ p[0] = 1 /\ \A k \in 1..8 : p[k] = ByteSize * p[k - 1]
  /\ \A k \in 0..8 : p[k] \in Pos
  /\ Power(ByteSize, 1) = p[1] /\ Power(ByteSize, 2) = p[2]
  /\ Power(ByteSize, 4) = p[4] /\ Power(ByteSize, 8) = p[8]

\* Power gives the powers of a byte's values.
LEMMA PowersAre == \E p : BytePowers(p)
<1> DEFINE h(x) == ByteSize * x
<1>0. /\ \E p : IsPowers(p, ByteSize, 8)
      /\ \E p : IsPowers(p, ByteSize, 4)
      /\ \E p : IsPowers(p, ByteSize, 2)
      /\ \E p : IsPowers(p, ByteSize, 1)
  BY PowerIs, MoreIs DEF Pos
<1>1. PICK p : p[0] = 1 /\ (\A k \in 1..8 : p[k] = h(p[k - 1])) /\ Power(ByteSize, 8) = p[8]
  BY Zenon, <1>0 DEF IsPowers, h
<1>2. PICK p4 : p4[0] = 1 /\ (\A k \in 1..4 : p4[k] = h(p4[k - 1])) /\ Power(ByteSize, 4) = p4[4]
  BY Zenon, <1>0 DEF IsPowers, h
<1>3. PICK p2 : p2[0] = 1 /\ (\A k \in 1..2 : p2[k] = h(p2[k - 1])) /\ Power(ByteSize, 2) = p2[2]
  BY Zenon, <1>0 DEF IsPowers, h
<1>4. PICK p1 : p1[0] = 1 /\ (\A k \in 1..1 : p1[k] = h(p1[k - 1])) /\ Power(ByteSize, 1) = p1[1]
  BY Zenon, <1>0 DEF IsPowers, h
<1>5. \A x \in Pos : h(x) \in Pos
  <2>1. \A x \in Nat \ {0} : \A b \in Nat \ {0} : b * x \in Nat \ {0}
    OBVIOUS
  <2> QED
    BY <2>1, MoreIs DEF Pos
<1> HIDE DEF h
<1>6. p[1] = h(p[0]) /\ p[2] = h(p[1]) /\ p[3] = h(p[2]) /\ p[4] = h(p[3])
      /\ p[5] = h(p[4]) /\ p[6] = h(p[5]) /\ p[7] = h(p[6]) /\ p[8] = h(p[7])
  BY <1>1
<1>7. p4[1] = h(p4[0]) /\ p4[2] = h(p4[1]) /\ p4[3] = h(p4[2]) /\ p4[4] = h(p4[3])
  BY <1>2
<1>8. p2[1] = h(p2[0]) /\ p2[2] = h(p2[1]) /\ p1[1] = h(p1[0])
  BY <1>3, <1>4
<1>9. p4[4] = p[4] /\ p2[2] = p[2] /\ p1[1] = p[1]
  BY <1>1, <1>2, <1>3, <1>4, <1>6, <1>7, <1>8
<1>10. 1 \in Pos
  BY DEF Pos
<1>11. /\ p[0] \in Pos /\ p[1] \in Pos /\ p[2] \in Pos /\ p[3] \in Pos /\ p[4] \in Pos
       /\ p[5] \in Pos /\ p[6] \in Pos /\ p[7] \in Pos /\ p[8] \in Pos
  BY <1>1, <1>5, <1>6, <1>10
<1>12. \A k \in 0..8 : p[k] \in Pos
  <2>1. \A k \in 0..8 : k = 0 \/ k = 1 \/ k = 2 \/ k = 3 \/ k = 4 \/ k = 5 \/ k = 6 \/ k = 7 \/ k = 8
    OBVIOUS
  <2> QED
    BY <1>11, <2>1
<1>13. \A k \in 1..8 : p[k] = ByteSize * p[k - 1]
  BY <1>1 DEF h
<1> QED
  BY <1>1, <1>2, <1>3, <1>4, <1>9, <1>12, <1>13 DEF BytePowers

\* The bytes u stand for a number wherever they are.
ReadAs(u, val) ==
  /\ IsSeq(u) /\ Len(u) \in Pos
  /\ \A ctl : \A at \in Pos :
       Len(ctl) \in Nat /\ at + Len(u) - 1 <= Len(ctl) /\ (\A k \in 1..Len(u) : ctl[at + k - 1] = u[k])
         => ul_get(ctl, at) = [val |-> val, next |-> at + Len(u)]

\* A number shifted by as many digits as it may need is nothing.
LEMMA ShiftedAway ==
  ASSUME NEW val, NEW p, BytePowers(p), val \in 0..(p[8] - 1),
         NEW f, f[0] = val, \A k \in 1..ULBytes : f[k] = f[k - 1] \div More
  PROVE  f[ULBytes] = 0 /\ \A k \in 0..ULBytes : f[k] \in Nat
<1> DEFINE S == {k \in 0..8 : f[2 * k] \in 0..(p[8 - k] - 1) /\ \A j \in 0..(2 * k) : f[j] \in Nat}
<1>1. \A k \in 0..8 : p[k] \in Pos
  BY DEF BytePowers
<1>2. 0 \in S
  BY <1>1 DEF Pos
<1>3. ASSUME NEW k \in 0..(8 - 1), k \in S PROVE k + 1 \in S
  <2> DEFINE a == f[2 * k]
             b == f[2 * k + 1]
             c == f[2 * k + 2]
             q == p[8 - (k + 1)]
             big == p[8 - k]
  <2>1. a \in 0..(big - 1) /\ \A j \in 0..(2 * k) : f[j] \in Nat
    BY <1>3
  <2>2. b = a \div More /\ c = b \div More
    <3>1. 2 * k + 1 \in 1..ULBytes /\ 2 * k + 2 \in 1..ULBytes
          /\ (2 * k + 1) - 1 = 2 * k /\ (2 * k + 2) - 1 = 2 * k + 1
      BY DEF ULBytes
    <3>2. f[2 * k + 1] = f[(2 * k + 1) - 1] \div More /\ f[2 * k + 2] = f[(2 * k + 2) - 1] \div More
      BY <3>1
    <3> QED
      BY <3>1, <3>2
  <2>3. big = ByteSize * q /\ q \in Pos /\ big \in Pos
    <3>1. 8 - k \in 1..8 /\ (8 - k) - 1 = 8 - (k + 1) /\ 8 - (k + 1) \in 0..8 /\ 8 - k \in 0..8
      OBVIOUS
    <3>2. p[8 - k] = ByteSize * p[(8 - k) - 1]
      BY Zenon, <3>1 DEF BytePowers
    <3> QED
      BY <1>1, <3>1, <3>2
  <2> HIDE DEF a, b, c, q, big
  <2>4. a < More * (More * q) /\ More * q \in Nat
    <3> DEFINE e == More * More - ByteSize
    <3>1. e \in Nat /\ More * More = ByteSize + e /\ q \in Nat
      BY MoreIs, <2>3 DEF Pos
    <3>2. More * (More * q) = (More * More) * q /\ More * q \in Nat
      BY MoreIs, <3>1 DEF Pos
    <3> HIDE DEF e
    <3>3. (ByteSize + e) * q = ByteSize * q + e * q /\ e * q \in Nat /\ ByteSize * q \in Nat
      BY MoreIs, <3>1 DEF Pos
    <3> QED
      BY <2>1, <2>3, <3>1, <3>2, <3>3
  <2>5. a \in Nat /\ q \in Nat
    BY <2>1, <2>3 DEF Pos
  <2>6. b \in 0..((More * q) - 1)
    BY <2>2, <2>4, <2>5, MoreIs, DivLess
  <2>7. b \in Nat /\ b < More * q
    BY <2>4, <2>6
  <2>8. c \in 0..(q - 1)
    BY <2>2, <2>5, <2>7, MoreIs, DivLess
  <2>9. 2 * (k + 1) = 2 * k + 2 /\ \A j \in 0..(2 * (k + 1)) : j \in 0..(2 * k) \/ j = 2 * k + 1 \/ j = 2 * k + 2
    OBVIOUS
  <2>10. \A j \in 0..(2 * (k + 1)) : f[j] \in Nat
    BY <2>1, <2>7, <2>8, <2>9 DEF b, c
  <2>11. f[2 * (k + 1)] \in 0..(p[8 - (k + 1)] - 1)
    BY <2>8, <2>9 DEF c, q
  <2> QED
    BY <2>10, <2>11
<1>4. 8 \in S
  <2> HIDE DEF S
  <2> DEFINE top == 8
  <2>1. 0 \in Int /\ top \in Int /\ top \in 0..top
    OBVIOUS
  <2>2. \A k \in 0..(top - 1) : k \in S => k + 1 \in S
    BY <1>3
  <2> HIDE DEF top
  <2>3. 0..top \subseteq S
    BY Zenon, <1>2, <2>1, <2>2, IntervalInduction
  <2>4. top \in S
    BY <2>1, <2>3
  <2> QED
    BY <2>4 DEF top
<1>5. 2 * 8 = 16 /\ 8 - 8 = 0 /\ p[0] = 1
  BY DEF BytePowers
<1>6. f[16] \in 0..(p[0] - 1) /\ \A j \in 0..16 : f[j] \in Nat
  BY <1>4, <1>5
<1> QED
  BY <1>5, <1>6 DEF ULBytes

\* What da_put_ul writes is what ul_get reads, wherever it stands: the number, as an
\* unsigned one, and the position behind its last byte.
THEOREM NumbersReadBack ==
  ASSUME NEW val \in Int
  PROVE  ReadAs(UL(val), Unsigned(val))
<1> DEFINE v == Unsigned(val)
           f == Shifted(v, More, ULBytes)
           S == {k \in 0..ULBytes : f[k] < More}
           last == Min(S)
           u == UL(val)
<1>1. PICK p : BytePowers(p)
  BY PowersAre
<1>2. v \in 0..(p[8] - 1)
  <2>1. p[8] \in Pos /\ Power(ByteSize, 8) = p[8]
    BY <1>1 DEF BytePowers
  <2> DEFINE q == p[8]
  <2> HIDE DEF q
  <2>2. \A a \in Int : a % q \in 0..(q - 1)
    BY <2>1 DEF q, Pos
  <2> QED
    BY <2>1, <2>2 DEF Unsigned, q
<1>3. u = [k \in 1..(last + 1) |-> (f[k - 1] % More) + (IF k <= last THEN More ELSE 0)]
  BY Zenon DEF UL
<1>4. f[0] = v /\ \A k \in 1..ULBytes : f[k] = f[k - 1] \div More
  <2>1. ULBytes \in Nat
    BY DEF ULBytes
  <2>2. IsShifted(f, v, More, ULBytes)
    BY <2>1, ShiftedIs
  <2> QED
    BY Zenon, <2>2 DEF IsShifted
<1> HIDE DEF v, f, u
<1>5. f[ULBytes] = 0 /\ \A k \in 0..ULBytes : f[k] \in Nat
  BY <1>1, <1>2, <1>4, ShiftedAway
<1>6. last \in 0..ULBytes /\ f[last] < More /\ \A k \in 0..(last - 1) : f[k] >= More
  <2>1. ULBytes \in S /\ S \in SUBSET Nat
    BY <1>5, MoreIs DEF ULBytes, Pos
  <2> HIDE DEF S
  <2>2. last \in S /\ \A k \in S : last <= k
    BY <2>1, MinIs
  <2> HIDE DEF last
  <2>3. last \in 0..ULBytes /\ f[last] < More
    BY <2>2 DEF S
  <2>4. ASSUME NEW k \in 0..(last - 1) PROVE f[k] >= More
    <3>1. k \in 0..ULBytes /\ ~(last <= k)
      BY <2>3 DEF ULBytes
    <3>2. ~(f[k] < More)
      BY <2>2, <3>1 DEF S
    <3> QED
      BY <1>5, <3>1, <3>2, MoreIs DEF Pos
  <2> QED
    BY <2>3, <2>4
<1> HIDE DEF last, S
<1>7. last \in Nat /\ ULBytes \in Nat
  BY <1>6 DEF ULBytes
<1>8. IsSeq(u) /\ Len(u) = last + 1 /\ Len(u) \in Pos
  <2>1. u = [k \in 1..(last + 1) |-> u[k]] /\ last + 1 \in Nat
    BY <1>3, <1>7
  <2> QED
    BY <1>7, <2>1, FunctionIs DEF Pos
<1>9. \A k \in 1..last : u[k] = (f[k - 1] % More) + More
  BY <1>3, <1>7
<1>10. u[last + 1] = f[last]
  <2>1. u[last + 1] = f[last] % More
    <3>1. (last + 1) - 1 = last /\ ~(last + 1 <= last) /\ last + 1 \in 1..(last + 1)
      BY <1>7
    <3>2. u[last + 1] = (f[(last + 1) - 1] % More) + 0
      BY <1>3, <3>1
    <3>3. f[last] % More \in Int
      BY <1>5, <1>6, MoreIs DEF Pos
    <3> QED
      BY <3>1, <3>2, <3>3
  <2>2. \A a \in Nat : a < More => a % More = a
    BY MoreIs DEF Pos
  <2> QED
    BY <1>5, <1>6, <2>1, <2>2
<1>11. ASSUME NEW ctl, NEW at \in Pos, Len(ctl) \in Nat, at + Len(u) - 1 <= Len(ctl),
              \A k \in 1..Len(u) : ctl[at + k - 1] = u[k]
       PROVE  ul_get(ctl, at) = [val |-> v, next |-> at + Len(u)]
  <2> DEFINE e == at + last
             T == {k \in at..Len(ctl) : ctl[k] < More}
  <2>1. e \in at..Len(ctl) /\ e \in Nat /\ e - at = last /\ at \in Nat
    BY <1>7, <1>8, <1>11 DEF Pos
  <2>2. \A k \in 0..last : ctl[at + k] = u[k + 1]
    <3> SUFFICES ASSUME NEW k \in 0..last PROVE ctl[at + k] = u[k + 1]
      OBVIOUS
    <3>1. k + 1 \in 1..Len(u) /\ at + (k + 1) - 1 = at + k
      BY <1>7, <1>8, <2>1
    <3>2. ctl[at + (k + 1) - 1] = u[k + 1]
      BY <1>11, <3>1
    <3> QED
      BY <3>1, <3>2
  <2>3. \A k \in 0..(last - 1) : ctl[at + k] = (f[k] % More) + More
    <3> SUFFICES ASSUME NEW k \in 0..(last - 1) PROVE ctl[at + k] = (f[k] % More) + More
      OBVIOUS
    <3>1. k \in 0..last /\ k + 1 \in 1..last /\ (k + 1) - 1 = k
      BY <1>7
    <3>2. u[k + 1] = (f[(k + 1) - 1] % More) + More
      BY <1>9, <3>1
    <3> QED
      BY <2>2, <3>1, <3>2
  <2>4. ctl[e] = f[last]
    <3>1. last \in 0..last
      BY <1>7
    <3> QED
      BY <1>10, <2>2, <3>1
  <2>5. LastByte(ctl, at) = e
    <3>1. e \in T /\ T \in SUBSET Nat
      BY <1>6, <2>1, <2>4
    <3>2. ASSUME NEW k \in T, k < e PROVE FALSE
      <4>1. k \in Nat /\ k - at \in 0..(last - 1) /\ at + (k - at) = k /\ ctl[k] < More
        BY <2>1, <3>2
      <4> DEFINE j == k - at
      <4>2. ctl[at + j] = (f[j] % More) + More /\ f[j] \in Nat
        <5>1. j \in 0..ULBytes
          BY <1>6, <1>7, <4>1
        <5> QED
          BY <1>5, <2>3, <4>1, <5>1
      <4> HIDE DEF j
      <4>3. f[j] % More \in 0..(More - 1) /\ More \in Int
        BY <4>2, MoreIs DEF Pos
      <4>4. ctl[k] = (f[j] % More) + More
        BY <4>1, <4>2 DEF j
      <4> DEFINE m == f[j] % More
      <4> HIDE DEF m
      <4>5. m \in 0..(More - 1) /\ ctl[k] = m + More
        BY <4>3, <4>4 DEF m
      <4> QED
        BY ONLY <4>1, <4>3, <4>5
    <3> HIDE DEF T, e
    <3>3. Min(T) \in T /\ Min(T) <= e
      BY <3>1, MinIs
    <3>4. ~(Min(T) < e)
      BY <3>2, <3>3
    <3>5. Min(T) = e
      <4>1. Min(T) \in Nat
        BY <3>1, <3>3
      <4> QED
        BY ONLY <2>1, <3>3, <3>4, <4>1
    <3> QED
      BY <3>5 DEF LastByte, T
  <2> HIDE DEF e, T
  <2>6. PICK g : /\ g[0] = ctl[e]
                 /\ \A k \in 1..(e - at) : g[k] = (ctl[e - k] - More) + More * g[k - 1]
                 /\ ul_get(ctl, at) = [val |-> g[e - at], next |-> e + 1]
    <3>1. e - at \in Nat /\ e = LastByte(ctl, at)
      BY <1>7, <2>1, <2>5
    <3>2. PICK g : GetsUL(g, ctl, at, e)
      BY ONLY <3>1, ULGetIs
    <3> QED
      BY Zenon, <3>2 DEF GetsUL
  <2> DEFINE R == {k \in 0..last : g[k] = f[last - k]}
  <2>7. 0 \in R
    BY <1>7, <2>4, <2>6
  <2>8. ASSUME NEW k \in 0..(last - 1), k \in R PROVE k + 1 \in R
    <3> DEFINE j == last - (k + 1)
    <3>1. /\ j \in 0..(last - 1) /\ j + 1 = last - k /\ e - (k + 1) = at + j /\ (k + 1) - 1 = k
          /\ k + 1 \in 1..(e - at) /\ j \in 0..ULBytes /\ j + 1 \in 1..ULBytes /\ (j + 1) - 1 = j
          /\ k + 1 \in 0..last
      BY <1>6, <1>7, <2>1 DEF e
    <3> HIDE DEF j
    <3>2. g[k + 1] = (ctl[e - (k + 1)] - More) + More * g[(k + 1) - 1]
      BY <2>6, <3>1
    <3>3. ctl[at + j] = (f[j] % More) + More
      BY <2>3, <3>1
    <3>4. g[k] = f[j + 1] /\ f[j + 1] = f[j] \div More /\ f[j] \in Nat
      <4>1. g[k] = f[last - k]
        BY <2>8
      <4>2. f[j + 1] = f[(j + 1) - 1] \div More
        BY <1>4, <3>1
      <4> QED
        BY <1>5, <3>1, <4>1, <4>2
    <3>5. f[j] \div More \in Nat /\ f[j] % More \in Nat /\ f[j] = (f[j] \div More) * More + (f[j] % More)
      <4> DEFINE w == f[j]
      <4>1. w \in Nat /\ More \in Pos
        BY <3>4, MoreIs
      <4> HIDE DEF w
      <4>2. w \div More \in Nat /\ w % More \in 0..(More - 1) /\ w = (w \div More) * More + (w % More)
        BY ONLY <4>1, DivisionIs
      <4>3. \A c \in 0..(More - 1) : c \in Nat
        BY <4>1 DEF Pos
      <4> QED
        BY <4>2, <4>3 DEF w
    <3> DEFINE a == f[j] \div More
               b == f[j] % More
    <3> HIDE DEF a, b
    <3>6. g[k + 1] = ((b + More) - More) + More * a
      BY <3>1, <3>2, <3>3, <3>4 DEF a, b
    <3>7. a \in Nat /\ b \in Nat /\ f[j] = a * More + b /\ More \in Nat
      BY <3>5, MoreIs DEF a, b, Pos
    <3>8. More * a = a * More
      BY <3>7
    <3>9. g[k + 1] = f[j]
      BY <3>6, <3>7, <3>8
    <3> QED
      BY <3>1, <3>9 DEF j
  <2>9. last \in R
    <3> HIDE DEF R
    <3>1. 0 \in Int /\ last \in Int /\ last \in 0..last
      BY <1>7
    <3>2. 0..last \subseteq R
      BY Zenon, <2>7, <2>8, <3>1, IntervalInduction
    <3> QED
      BY <3>1, <3>2
  <2>10. g[last] = v
    <3>1. last - last = 0
      BY <1>7
    <3> QED
      BY <1>4, <2>9, <3>1
  <2>11. e + 1 = at + Len(u) /\ e - at = last
    BY <1>7, <1>8, <2>1 DEF e
  <2> QED
    BY <2>6, <2>10, <2>11
<1> QED
  BY <1>8, <1>11 DEF ReadAs, u, v

\* The numbers of bytes that a number of fixed length may have.
FixedLengths == {1, 2, 4, 8}

\* A number shifted by as many bytes as hold it is nothing.
LEMMA FixedAway ==
  ASSUME NEW p, BytePowers(p), NEW n \in 1..8, NEW val \in 0..(p[n] - 1),
         NEW f, IsShifted(f, val, ByteSize, n)
  PROVE  f[n] = 0 /\ \A k \in 0..n : f[k] \in Nat
<1> DEFINE S == {k \in 0..n : f[k] \in 0..(p[n - k] - 1)}
<1>1. 0 \in S
  BY DEF IsShifted
<1>2. ASSUME NEW k \in 0..(n - 1), k \in S PROVE k + 1 \in S
  <2> DEFINE a == f[k]
             q == p[n - (k + 1)]
  <2>1. k + 1 \in 1..n /\ (k + 1) - 1 = k /\ n - k \in 1..8 /\ (n - k) - 1 = n - (k + 1) /\ k + 1 \in 0..n
        /\ n - (k + 1) \in 0..8
    OBVIOUS
  <2>2. a \in 0..(p[n - k] - 1) /\ f[k + 1] = a \div ByteSize
    BY <1>2, <2>1 DEF IsShifted
  <2>3. p[n - k] = ByteSize * q /\ q \in Pos
    <3>1. p[n - k] = ByteSize * p[(n - k) - 1] /\ p[n - (k + 1)] \in Pos
      BY Zenon, <2>1 DEF BytePowers
    <3> QED
      BY <2>1, <3>1
  <2> HIDE DEF a, q
  <2>4. ByteSize \in Pos /\ q \in Nat /\ ByteSize * q \in Nat /\ a \in Nat /\ a < ByteSize * q
    <3>1. ByteSize \in Pos /\ q \in Nat
      BY <2>3, MoreIs DEF Pos
    <3>2. ByteSize * q \in Nat
      BY <3>1 DEF Pos
    <3> QED
      BY <2>2, <2>3, <3>1, <3>2
  <2>5. a \div ByteSize \in 0..(q - 1)
    BY <2>4, DivLess
  <2> QED
    BY <2>1, <2>2, <2>5 DEF q
<1>3. \A k \in 0..n : k \in S
  <2> HIDE DEF S
  <2>1. 0 \in Int /\ n \in Int
    OBVIOUS
  <2>2. 0..n \subseteq S
    BY Zenon, <1>1, <1>2, <2>1, IntervalInduction
  <2> QED
    BY <2>2
<1>4. \A k \in 0..n : f[k] \in 0..(p[n - k] - 1)
  BY <1>3
<1>5. \A k \in 0..n : f[k] \in Nat
  BY <1>4
<1>6. n - n = 0 /\ p[0] = 1 /\ n \in 0..n
  BY DEF BytePowers
<1> QED
  BY <1>4, <1>5, <1>6

\* The bytes of a number of fixed length.
LEMMA FixedIs ==
  ASSUME NEW n \in FixedLengths, NEW val
  PROVE  IsSeq(FixedBytes(val, n)) /\ Len(FixedBytes(val, n)) = n
<1> DEFINE u == FixedBytes(val, n)
           f == Shifted(val, ByteSize, n)
<1>1. u = [k \in 1..n |-> f[k - 1] % ByteSize]
  BY Zenon DEF FixedBytes
<1>2. n \in Nat /\ u = [k \in 1..n |-> u[k]]
  BY <1>1 DEF FixedLengths
<1> HIDE DEF u
<1>3. IsSeq(u) /\ Len(u) = n
  BY <1>2, FunctionIs
<1> QED
  BY <1>3 DEF u

\* A number that fits in its bytes is read back from where they stand.
THEOREM FixedReadsBack ==
  ASSUME NEW n \in FixedLengths, NEW val \in Nat, val < Power(ByteSize, n),
         NEW ctl, NEW at \in Int, \A k \in 1..n : ctl[at + k - 1] = FixedBytes(val, n)[k]
  PROVE  fixed_get(ctl, at, n) = val
<1> DEFINE f == Shifted(val, ByteSize, n)
<1>1. n \in 1..8 /\ n \in Nat
  BY DEF FixedLengths
<1>2. PICK p : BytePowers(p)
  BY PowersAre
<1>3. val \in 0..(p[n] - 1)
  <2>1. Power(ByteSize, n) = p[n] /\ p[n] \in Pos
    BY <1>2 DEF BytePowers, FixedLengths
  <2> QED
    BY <2>1 DEF Pos
<1>4. IsShifted(f, val, ByteSize, n)
  BY <1>1, ShiftedIs
<1>5. FixedBytes(val, n) = [k \in 1..n |-> f[k - 1] % ByteSize]
  BY Zenon DEF FixedBytes
<1> HIDE DEF f
<1>6. f[n] = 0 /\ f[0] = val /\ \A k \in 0..n : f[k] \in Nat
  BY <1>1, <1>2, <1>3, <1>4, FixedAway DEF IsShifted
<1>7. PICK g : /\ g[0] = 0
               /\ \A k \in 1..n : g[k] = ctl[at + n - k] + ByteSize * g[k - 1]
               /\ fixed_get(ctl, at, n) = g[n]
  <2>1. \E g : GetsFixed(g, ctl, at, n)
    BY ONLY <1>1, FixedGetIs
  <2> QED
    BY Zenon, <2>1 DEF GetsFixed
<1> DEFINE R == {k \in 0..n : g[k] = f[n - k]}
<1>8. 0 \in R
  <2>1. n - 0 = n /\ 0 \in 0..n
    BY <1>1
  <2> QED
    BY <1>6, <1>7, <2>1
<1>9. ASSUME NEW k \in 0..(n - 1), k \in R PROVE k + 1 \in R
  <2> DEFINE j == n - (k + 1)
             w == f[j]
  <2>1. /\ k + 1 \in 1..n /\ k + 1 \in 0..n /\ (k + 1) - 1 = k /\ j + 1 \in 1..n /\ (j + 1) - 1 = j
        /\ j + 1 = n - k /\ at + n - (k + 1) = at + (j + 1) - 1 /\ j \in 0..n
    BY <1>1
  <2> HIDE DEF j
  <2>2. g[k + 1] = ctl[at + (j + 1) - 1] + ByteSize * g[k]
    <3>1. g[k + 1] = ctl[at + n - (k + 1)] + ByteSize * g[(k + 1) - 1]
      BY <1>7, <2>1
    <3> QED
      BY <2>1, <3>1
  <2>3. ctl[at + (j + 1) - 1] = w % ByteSize
    <3>1. FixedBytes(val, n)[j + 1] = f[(j + 1) - 1] % ByteSize
      BY <1>5, <2>1
    <3> QED
      BY <2>1, <3>1
  <2>4. g[k] = w \div ByteSize
    <3>1. g[k] = f[n - k]
      BY <1>9
    <3>2. f[j + 1] = f[(j + 1) - 1] \div ByteSize
      BY <1>4, <2>1 DEF IsShifted
    <3> QED
      BY <2>1, <3>1, <3>2
  <2>5. w \in Nat /\ ByteSize \in Pos
    BY <1>6, <2>1, MoreIs
  <2> HIDE DEF w
  <2>6. w \div ByteSize \in Nat /\ w % ByteSize \in 0..(ByteSize - 1)
        /\ w = (w \div ByteSize) * ByteSize + (w % ByteSize)
    BY ONLY <2>5, DivisionIs
  <2> DEFINE a == w \div ByteSize
             b == w % ByteSize
  <2>7. g[k + 1] = b + ByteSize * a
    BY <2>2, <2>3, <2>4
  <2>8. a \in Nat /\ b \in Int /\ w = a * ByteSize + b /\ ByteSize \in Nat
    <3>1. ByteSize \in Nat
      BY <2>5 DEF Pos
    <3> QED
      BY <2>6, <3>1
  <2> HIDE DEF a, b
  <2>9. ByteSize * a = a * ByteSize /\ a * ByteSize \in Nat
    BY <2>8
  <2>10. g[k + 1] = w
    BY ONLY <2>7, <2>8, <2>9
  <2> QED
    BY <2>1, <2>10 DEF w, j
<1>10. n \in R
  <2> HIDE DEF R
  <2>1. 0 \in Int /\ n \in Int /\ n \in 0..n
    BY <1>1
  <2>2. 0..n \subseteq R
    BY Zenon, <1>8, <1>9, <2>1, IntervalInduction
  <2> QED
    BY <2>1, <2>2
<1>11. n - n = 0
  BY <1>1
<1> QED
  BY <1>6, <1>7, <1>10, <1>11

\* The deltas of a unit get bytes enough for the largest of them.
LEMMA DeltaBytesFit ==
  ASSUME NEW most \in Nat, most < Power(ByteSize, 8)
  PROVE  DeltaBytes(most) \in FixedLengths /\ most < Power(ByteSize, DeltaBytes(most))
<1>1. PICK p : BytePowers(p)
  BY PowersAre
<1>2. /\ Power(ByteSize, 1) = p[1] /\ Power(ByteSize, 2) = p[2]
      /\ Power(ByteSize, 4) = p[4] /\ Power(ByteSize, 8) = p[8]
  BY <1>1 DEF BytePowers
<1>3. CASE most < p[1]
  BY <1>2, <1>3 DEF DeltaBytes, FixedLengths
<1>4. CASE ~(most < p[1]) /\ most < p[2]
  BY <1>2, <1>4 DEF DeltaBytes, FixedLengths
<1>5. CASE ~(most < p[1]) /\ ~(most < p[2]) /\ most < p[4]
  BY <1>2, <1>5 DEF DeltaBytes, FixedLengths
<1>6. CASE ~(most < p[1]) /\ ~(most < p[2]) /\ ~(most < p[4])
  BY <1>2, <1>6 DEF DeltaBytes, FixedLengths
<1> QED
  BY <1>3, <1>4, <1>5, <1>6

=============================================================================
