---------------------------- MODULE ReductionMap ----------------------------
(***************************************************************************)
(* The reduction map of a symmetric matrix: which thread adds which        *)
(* element of which private vector to the product.                         *)
(***************************************************************************)
EXTENDS Integers, Sequences, FiniteSets, FiniteSetsExt, SequencesExt

CONSTANT NRows   \* rows of the matrix

ASSUME NRowsAssumption == NRows \in Nat \ {0}

Rows == 0..(NRows - 1)

(***************************************************************************)
(* MakeMap.  Columns are one-based there, so column j stands for row j-1.  *)
(* Each thread but the last takes columns until it has its share of what   *)
(* is left.                                                                *)
(***************************************************************************)
\* What the columns before each one count.
Before(count) ==
  LET sum[j \in 0..NRows] == IF j = 0 THEN 0 ELSE sum[j - 1] + count[j - 1]
  IN  sum

\* Where the columns of each thread end; those of the first start at 0.
Ends(count, n) ==
  LET before == Before(count)
      end[i \in 0..n] ==
        IF i = 0 THEN 0
        ELSE IF i = n THEN NRows
        ELSE LET start == end[i - 1]
                 limit == (before[NRows] - before[start]) \div (n - i + 1)
             IN  Min({e \in start..NRows : before[e] - before[start] >= limit})
  IN  end

\* Faulty variant: the columns of a thread start one before its share.
Shares_Overlap(count, n) ==
  [i \in 1..n |-> LET end == Ends(count, n)
                  IN  (IF end[i - 1] = 0 THEN 0 ELSE end[i - 1] - 1)..(end[i] - 1)]

Shares(count, n) == [i \in 1..n |-> Ends(count, n)[i - 1]..(Ends(count, n)[i] - 1)]

\* The list of the <<cpu, pos>> in E, by column and in each column by cpu.
Listed(E) ==
  LET Precedes(d, e) == d[2] < e[2] \/ (d[2] = e[2] /\ d[1] < e[1])
  IN  [k \in 1..Cardinality(E) |->
         CHOOSE e \in E : Cardinality({d \in E : Precedes(d, e)}) = k - 1]

MakeMap(reach, n) ==
  LET users(j) == {k \in 0..(n - 1) : j - 1 \in reach[k]}
      shares == Shares([j \in Rows |-> Cardinality(users(j))], n)
  IN  [t \in 0..(n - 1) |->
         Listed(UNION {{<<k, j - 1>> : k \in users(j)} : j \in shares[t + 1]})]
=============================================================================
