--------------------------- MODULE MultTemplates ----------------------------
(***************************************************************************)
(* The code of a pattern in the generated kernel (csx/mult_templates): the *)
(* elements a unit multiplies, in the order of its values, from row y and  *)
(* column x on.  The kernel of a general matrix adds value * x[el.x] to    *)
(* y[el.y]; that of a symmetric one does so for the product and for the    *)
(* mirror of each value.                                                   *)
(***************************************************************************)
EXTENDS SpmCoords, SequencesExt

DELTA == <<"NONE", 0>>

\* The columns of a delta unit: each delta moves the position on.
DeltaColumns(size, deltas, x) ==
  LET at[k \in 1..size] == IF k = 1 THEN x ELSE at[k - 1] + deltas[k - 1]
  IN  at

DeltaCase(size, deltas, y, x) ==
  [k \in 1..size |-> Point(y, DeltaColumns(size, deltas, x)[k])]
HorizCase(delta, size, y, x) == [k \in 1..size |-> Point(y, x + (k - 1) * delta)]
VertCase(delta, size, y, x) == [k \in 1..size |-> Point(y + (k - 1) * delta, x)]
DiagCase(delta, size, y, x) ==
  [k \in 1..size |-> Point(y + (k - 1) * delta, x + (k - 1) * delta)]
RDiagCase(delta, size, y, x) ==
  [k \in 1..size |-> Point(y + (k - 1) * delta, x - (k - 1) * delta)]
BlockRowCase(r, c, y, x) ==
  [k \in 1..(r * c) |-> Point(y + ((k - 1) % r), x + ((k - 1) \div r))]
BlockColCase(r, c, y, x) ==
  [k \in 1..(r * c) |-> Point(y + ((k - 1) \div c), x + ((k - 1) % c))]

\* GetMultTemplate: the template of a pattern, with its distance or dimensions.
Mult(id, size, deltas, y, x) ==
  CASE id[1] = DELTA                -> DeltaCase(size, deltas, y, x)
    [] id[1] = HORIZONTAL           -> HorizCase(id[2], size, y, x)
    [] id[1] = VERTICAL             -> VertCase(id[2], size, y, x)
    [] id[1] = DIAGONAL             -> DiagCase(id[2], size, y, x)
    [] id[1] = REV_DIAGONAL         -> RDiagCase(id[2], size, y, x)
    [] id[1] \in {BLOCK_R(r) : r \in BlockSizes} -> BlockRowCase(IsBlockType(id[1]), id[2], y, x)
    [] id[1] \in {BLOCK_C(c) : c \in BlockSizes} -> BlockColCase(id[2], IsBlockType(id[1]), y, x)

-----------------------------------------------------------------------------
(* The templates of symmetric matrices.                                    *)

DeltaSymCase(size, deltas, y, x) ==
  LET at == DeltaColumns(size, deltas, x)
  IN  [k \in 1..size |-> [product |-> Point(y, at[k]), mirror |-> Point(at[k], y)]]

HorizSymCase(delta, size, y, x) ==
  [k \in 1..size |->
     LET i == (k - 1) * delta
     IN  [product |-> Point(y, x + i), mirror |-> Point(x + i, y)]]

\* The mirrored products are added up and go to one element at the end.
VertSymCase(delta, size, y, x) ==
  [k \in 1..size |->
     LET i == (k - 1) * delta
     IN  [product |-> Point(y + i, x), mirror |-> Point(x, y + i)]]

DiagSymCase(delta, size, y, x) ==
  [k \in 1..size |->
     LET i == (k - 1) * delta
     IN  [product |-> Point(y + i, x + i), mirror |-> Point(x + i, y + i)]]

\* j runs down from the end of the pattern, from where the column is counted.
RDiagSymCase(delta, size, y, x) ==
  LET end == delta * size
  IN  [k \in 1..size |->
         LET i == (k - 1) * delta
             j == end - i
         IN  [product |-> Point(y + i, x - end + j), mirror |-> Point(x - end + j, y + i)]]

BlockRowSymCase(r, c, y, x) ==
  [k \in 1..(r * c) |->
     LET i == (k - 1) \div r
         j == (k - 1) % r
     IN  [product |-> Point(y + j, x + i), mirror |-> Point(x + i, y + j)]]

BlockColSymCase(r, c, y, x) ==
  [k \in 1..(r * c) |->
     LET i == (k - 1) \div c
         j == (k - 1) % c
     IN  [product |-> Point(y + i, x + j), mirror |-> Point(x + j, y + i)]]

\* GetSymMultTemplate.
SymMult(id, size, deltas, y, x) ==
  CASE id[1] = DELTA                -> DeltaSymCase(size, deltas, y, x)
    [] id[1] = HORIZONTAL           -> HorizSymCase(id[2], size, y, x)
    [] id[1] = VERTICAL             -> VertSymCase(id[2], size, y, x)
    [] id[1] = DIAGONAL             -> DiagSymCase(id[2], size, y, x)
    [] id[1] = REV_DIAGONAL         -> RDiagSymCase(id[2], size, y, x)
    [] id[1] \in {BLOCK_R(r) : r \in BlockSizes} ->
         BlockRowSymCase(IsBlockType(id[1]), id[2], y, x)
    [] id[1] \in {BLOCK_C(c) : c \in BlockSizes} ->
         BlockColSymCase(id[2], IsBlockType(id[1]), y, x)

\* Delta and horizontal units leave the column at their last element, others
\* where it was.
LeavesX(id, size, deltas, x) ==
  IF id[1] = DELTA THEN DeltaColumns(size, deltas, x)[size]
  ELSE IF id[1] = HORIZONTAL THEN x + (size - 1) * id[2]
  ELSE x
=============================================================================
