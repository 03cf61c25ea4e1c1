------------------------------- MODULE MCCsx --------------------------------
(* TLC instance of Csx.                                                    *)
EXTENDS Csx

Grid(rows, cols) == [y : rows, x : cols]

\* Matrices with runs longer than MaxLimit, interrupted runs, blocks that are
\* aligned and that are not, and empty first, middle and last rows; the last two
\* outgrow the byte array's first size.
MCGeneral ==
  {[entries |-> e, cols |-> 6, symmetric |-> FALSE, rowStart |-> 0] : e \in {
     Grid(1..3, 1..6),
     Grid({1, 3}, {1, 3, 5}) \cup Grid({2}, 1..4),
     Grid({2, 5}, 1..6) \cup Grid({3}, {2, 3}),
     {[y |-> i, x |-> i] : i \in 1..6} \cup {[y |-> i, x |-> 7 - i] : i \in 1..6},
     Grid(2..5, 2..4) \cup {[y |-> 1, x |-> 6]},
     Grid(1..6, {2}) \cup Grid({3}, 3..6),
     {[y |-> 3, x |-> 6], [y |-> 5, x |-> 6], [y |-> 8, x |-> 6]},
     {[y |-> i, x |-> 6] : i \in {3, 6, 8, 10}} \cup {[y |-> 3, x |-> 1]}}}
  \cup {[entries |-> e \cup Grid({3}, {1, 2, 4}), cols |-> 4, symmetric |-> FALSE, rowStart |-> 0] :
        e \in SUBSET (Grid({1}, 2..4) \cup Grid({2}, {2, 3}))}

\* Parts of symmetric matrices: rows from the first, from the third and the
\* fourth on, of which the entries below the diagonal are stored.
Below(rows, cols, rowStart) == {e \in Grid(rows, cols) : e.x < rowStart + e.y}
MCSymmetric ==
  {[entries |-> Below(rows, 1..6, s), cols |-> 6, symmetric |-> TRUE, rowStart |-> s] :
     rows \in {1..3, {2, 3}, {1, 4}}, s \in {2, 3}}
  \cup {[entries |-> Below(1..4, 1..6, 0), cols |-> 6, symmetric |-> TRUE, rowStart |-> 0]}
  \cup {[entries |-> e \cup {[y |-> 3, x |-> 4]}, cols |-> 5, symmetric |-> TRUE, rowStart |-> 2] :
          e \in SUBSET Grid(1..2, 1..2)}

MCInputs == MCGeneral \cup MCSymmetric
MCOrders == {HORIZONTAL, VERTICAL, DIAGONAL, REV_DIAGONAL, BLOCK_R(2), BLOCK_C(2)}
MCDeltaChoices == {{1}, {2}, {1, 2}}
=============================================================================
