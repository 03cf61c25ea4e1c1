------------------------------ MODULE Dynarray ------------------------------
(***************************************************************************)
(* The growing arrays of lib/dynarray/dynarray.c.  Growing reallocates the *)
(* elements: a pointer taken before is dangling, and what is written       *)
(* through it is not in the array.                                         *)
(***************************************************************************)
EXTENDS Integers, SequencesExt

CONSTANT Grain  \* alloc_grain

ASSUME GrainAssumption == Grain \in Nat \ {0}

\* n rounded up to a multiple of m.
RoundUp(n, m) == n + ((m - (n % m)) % m)

\* dynarray_create: moves counts the reallocations.
Create(n) == [elems |-> <<>>, room |-> IF n <= Grain THEN Grain ELSE RoundUp(n, Grain),
              moves |-> 0]

\* dynarray_expand, repeated until the array has room for n elements.
Expand(da, n) ==
  IF n <= da.room THEN da
  ELSE [da EXCEPT !.room = da.room + RoundUp(n - da.room, Grain),
                  !.moves = da.moves + (RoundUp(n - da.room, Grain) \div Grain)]

\* dynarray_alloc_nr and writing the new elements at once.
Alloc(da, vals) ==
  LET grown == Expand(da, Len(da.elems) + Len(vals))
  IN  [grown EXCEPT !.elems = @ \o vals]

\* The pointer to the first of the n elements allocated last.
LastAlloc(da, n) == [at |-> Len(da.elems) - n + 1, moves |-> da.moves]

\* dynarray_align: padding is never written.  It grows an array that is just
\* full as well.
Align(da, align) ==
  LET size == RoundUp(Len(da.elems), align)
      grown == Expand(da, size + 1)
  IN  [grown EXCEPT !.elems = @ \o [k \in 1..(size - Len(da.elems)) |-> 0]]

\* *ptr += val
AddAt(da, ptr, val) ==
  IF ptr.moves = da.moves THEN [da EXCEPT !.elems[ptr.at] = @ + val] ELSE da
=============================================================================
