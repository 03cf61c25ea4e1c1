-------------------------------- MODULE MCCg --------------------------------
(* TLC instance of Cg: four unknowns, two and three threads.               *)
EXTENDS Cg

\* Row by row; the vectors' parts differ from the matrix's.
Matrix(rows) == [i \in 0..3 |-> [j \in 0..3 |-> rows[i + 1][j + 1]]]
Vector(v) == [i \in 0..3 |-> v[i + 1]]
Full == Matrix(<< <<9, 1, 2, 1>>, <<1, 7, 0, 3>>, <<2, 0, 8, 1>>, <<1, 3, 1, 6>> >>)
Sparse == Matrix(<< <<5, 0, 0, 1>>, <<0, 4, 2, 0>>, <<0, 2, 9, 0>>, <<1, 0, 0, 3>> >>)
Diagonal == Matrix(<< <<2, 0, 0, 0>>, <<0, 2, 0, 0>>, <<0, 0, 2, 0>>, <<0, 0, 0, 2>> >>)
Sol == Vector(<<3, 10, 25, 6>>)

System(sym, A, starts) == [sym |-> sym, A |-> A, starts |-> starts, sol |-> Sol, x0 |-> 1]

MCSystems ==
  {System(sym, A, starts) : sym \in BOOLEAN, A \in {Full, Sparse}, starts \in {<<0, 2, 3>>, <<0, 3>>}}
\* Multiples of the unit matrix: the first iteration finds the solution.
MCUnitSystems == {System(sym, Diagonal, <<0, 3>>) : sym \in BOOLEAN}
MCAllSystems == MCSystems \cup MCUnitSystems
=============================================================================
