------------------------------ MODULE MCFormats -----------------------------
(* TLC instance of Formats. *)
EXTENDS Formats

\* The matrix whose row i has elements in the columns cols[i + 1].
Matrix(nrows, ncols, cols, Val(_, _)) ==
  LET RowOf(i) == LET cs == SetToSortSeq(cols[i + 1], <)
                  IN  [k \in DOMAIN cs |-> [row |-> i, col |-> cs[k], val |-> Val(i, cs[k])]]
  IN  [nrows |-> nrows, ncols |-> ncols,
       points |-> FlattenSeq([i \in 1..nrows |-> RowOf(i - 1)])]

General(nrows, ncols, cols) == Matrix(nrows, ncols, cols, LAMBDA i, j : <<i, j>>)
Symmetric(n, lower) ==
  Matrix(n, n,
         [i \in 1..n |-> {j \in 0..(n - 1) : j = i - 1 \/ {i - 1, j} \in lower}],
         LAMBDA i, j : <<Max({i, j}), Min({i, j})>>)

Patterns(nrows, ncols) ==
  {General(nrows, ncols, cols) : cols \in [1..nrows -> SUBSET (0..(ncols - 1))]}
Pairs(n) == {{i, j} : i, j \in 0..(n - 1)} \ {{i} : i \in 0..(n - 1)}
SymmetricPatterns(n) == {Symmetric(n, lower) : lower \in SUBSET Pairs(n)}

Diagonal(n) == General(n, n, [i \in 1..n |-> {i - 1}])
Band(n) == General(n, n, [i \in 1..n |-> {j \in 0..(n - 1) : j - (i - 1) \in -1..1}])
Arrow(n) == General(n, n, [i \in 1..n |-> IF i = n THEN 0..(n - 1) ELSE {i - 1, n - 1}])
Blocks(n) == General(n, n, [i \in 1..n |-> {j \in 0..(n - 1) : j \div 2 = (i - 1) \div 2}])
SymArrow(n) == Symmetric(n, {{i, n - 1} : i \in 0..(n - 2)})
SymBand(n) == Symmetric(n, {{i, i + 1} : i \in 0..(n - 2)})

Case(method, m, n, nodes, r, c) ==
  [method |-> method, mat |-> m, n |-> n, nodes |-> nodes, r |-> r, c |-> c]

Small == {m \in Patterns(3, 3) : m.points # <<>>}
Large == {Diagonal(9), Diagonal(10), Band(6), Band(8), Arrow(6), Blocks(8)}
NodesOf(n) == [1..n -> {0, 1}]

SmallCases ==
  {Case("crs", m, n, <<>>, 1, 1) : m \in Small, n \in 0..3}
    \cup {Case("elmer", m, n, <<>>, 1, 1) : m \in Small, n \in 1..3}
    \cup {Case("vbl", m, n, <<>>, 1, 1) : m \in Small, n \in 0..2}
    \cup {Case("sss", m, n, <<>>, 1, 1) : m \in SymmetricPatterns(4), n \in 0..3}
\* The generic kernel adds to y: it is for the serial method only.
BcsrCases ==
  {Case("bcsr", m, 0, <<>>, rc[1], rc[2]) : m \in Small, rc \in {<<1, 1>>, <<2, 2>>, <<3, 2>>, <<3, 4>>}}
    \cup {Case("bcsr", m, 2, <<>>, rc[1], rc[2]) : m \in Small, rc \in {<<1, 2>>, <<3, 1>>}}
    \cup {Case("bcsr", m, 0, <<>>, 2, 2) : m \in Patterns(2, 4)}
    \cup {Case("bcsr", m, 2, <<>>, 1, 2) : m \in Patterns(2, 4)}
    \cup {Case("bcsr", m, 0, <<>>, 4, 4) : m \in {Diagonal(8), Band(8), Blocks(8)}}
LargeCases ==
  {Case(method, m, n, <<>>, 2, 2) : method \in {"crs", "elmer", "vbl", "bcsr"}, m \in Large, n \in 2..3}
NumaCases ==
  UNION {{Case(method, m, n, nodes, 2, 1) :
            method \in {"crs", "vbl", "bcsr"}, m \in {Band(6), Band(8), Blocks(8)},
            nodes \in NodesOf(n)} : n \in 2..4}
    \cup UNION {{Case("sss", m, n, nodes, 1, 1) : m \in {SymArrow(6), SymBand(7)},
                   nodes \in NodesOf(n)} : n \in 2..4}

MCCases == SmallCases \cup BcsrCases \cup LargeCases \cup NumaCases
=============================================================================
