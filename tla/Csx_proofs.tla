----------------------------- MODULE Csx_proofs ------------------------------
(***************************************************************************)
(* Theorems about Csx: the encoder neither loses nor displaces an entry,   *)
(* what the writer puts into the ctl and the values is what the kernel     *)
(* reads there, and the kernel multiplies the matrix, whatever the matrix, *)
(* the orders and the ids of the patterns. The sections go along that way: *)
(* the parts; the array of bytes, templates and units; the rows as         *)
(* written; the units as read; and the invariant of all stages.            *)
(***************************************************************************)
EXTENDS Csx, Operators_proofs

-----------------------------------------------------------------------------
(***************************************************************************)
(* What the encoder does to a part of the matrix.                          *)
(***************************************************************************)

\* A pattern of one of the orders; a block has the elements of all its rows.
PatternIs(p) ==
  \/ p = NoPattern
  \/ /\ p.order \in IterOrders /\ p.delta \in Pos /\ p.other \in Nat
     /\ IsBlockType(p.order) # 0 => p.delta = 1 /\ p.size = IsBlockType(p.order) * p.other

\* An item holds the entries that its pattern reaches from its first one.
ItemIs(it) ==
  /\ it = [pattern |-> it.pattern, vals |-> it.vals]
  /\ it.pattern.size \in Pos /\ PatternIs(it.pattern)
  /\ it.vals = Reached(it.pattern, it.vals[1])
  /\ it.vals[1] = Point(it.vals[1].y, it.vals[1].x)

\* The items hold the entries, each once.
ItemsHold(items, entries) ==
  /\ \A it \in items : ItemIs(it)
  /\ \A it \in items : \A j \in 1..it.pattern.size : it.vals[j] \in entries
  /\ \A e \in entries : \E it \in items : \E j \in 1..it.pattern.size : it.vals[j] = e
  /\ \A a, b \in items : \A i \in 1..a.pattern.size, j \in 1..b.pattern.size :
       a.vals[i] = b.vals[j] => a = b /\ i = j

\* An item lies where its first entry does.
FirstVals(items) == [it \in items |-> it.vals[1]]

\* A part that holds the entries, encoded or not.
PartIs(m, entries) ==
  /\ Has(m, MatrixFields) /\ m.type = HORIZONTAL
  /\ \E items : ItemsHold(items, entries) /\ Keeps(m, items, FirstVals(items))

\* The points of items, in the order t.
PointsOf(s, t, items, nrows, ncols) ==
  /\ Stream(s)
  /\ \A k \in 1..Len(s) : /\ s[k].item \in items
                          /\ s[k] = Placed(t, s[k].item, FirstVals(items), nrows, ncols)
  /\ \A it \in items : \E k \in 1..Len(s) : s[k].item = it
  /\ \A j, k \in 1..Len(s) : s[j].item = s[k].item => j = k

\* The element e holds the entries of the points from a to b.
HoldsPoints(e, s, a, b) ==
  /\ e = [x |-> s[a].x, item |-> e.item]
  /\ ItemIs(e.item) /\ e.item.vals[1] = s[a].item.vals[1]
  /\ \A j \in 1..e.item.pattern.size : \E h \in a..b : \E i \in 1..s[h].item.pattern.size :
       e.item.vals[j] = s[h].item.vals[i]
  /\ \A h \in a..b : \A i \in 1..s[h].item.pattern.size : \E j \in 1..e.item.pattern.size :
       e.item.vals[j] = s[h].item.vals[i]
  /\ \A i, j \in 1..e.item.pattern.size : e.item.vals[i] = e.item.vals[j] => i = j

\* What a pattern reaches from a place depends on its coordinates only.
LEMMA ReachedFrom ==
  ASSUME NEW p, NEW a, NEW b, a.y = b.y, a.x = b.x
  PROVE  Reached(p, a) = Reached(p, b)
<1> DEFINE u == Point(a.y, a.x)
           v == Point(b.y, b.x)
<1>1. u = v
  BY DEF Point
<1> HIDE DEF u, v
<1>2. Reached(p, a) = [j \in 1..p.size |-> IF p = NoPattern THEN u
                                           ELSE Along(p.order, u, (j - 1) * p.delta)]
  BY Zenon DEF Reached, u
<1>3. Reached(p, b) = [j \in 1..p.size |-> IF p = NoPattern THEN v
                                           ELSE Along(p.order, v, (j - 1) * p.delta)]
  BY Zenon DEF Reached, v
<1> QED
  BY Zenon, <1>1, <1>2, <1>3

\* An element that stands for one point holds what it holds.
LEMMA HoldsOne ==
  ASSUME NEW s, NEW items, NEW entries, ItemsHold(items, entries),
         NEW a \in Int, s[a].item \in items,
         NEW e, e = [x |-> s[a].x, item |-> s[a].item]
  PROVE  HoldsPoints(e, s, a, a)
<1> DEFINE it == s[a].item
           x == s[a].x
<1>1. e = [x |-> x, item |-> it]
  OBVIOUS
<1>2. it \in items /\ ItemIs(it)
  BY DEF ItemsHold
<1> HIDE DEF it, x
<1>3. e.item = it
  BY <1>1
<1>4. a..a = {a}
  OBVIOUS
<1>5. \A i, j \in 1..it.pattern.size : it.vals[i] = it.vals[j] => i = j
  <2>1. \A c, b \in items : \A i \in 1..c.pattern.size, j \in 1..b.pattern.size :
          c.vals[i] = b.vals[j] => c = b /\ i = j
    BY DEF ItemsHold
  <2> QED
    BY <1>2, <2>1
<1>6. e = [x |-> s[a].x, item |-> e.item]
  BY Zenon, <1>1, <1>3 DEF x
<1>7. \A h \in a..a : s[h].item = it
  BY <1>4 DEF it
<1>8. a \in a..a
  BY <1>4
<1> QED
  BY Zenon, <1>2, <1>3, <1>5, <1>6, <1>7, <1>8 DEF HoldsPoints, it

\* An element that stands for several points as a pattern holds their entries.
LEMMA HoldsRun ==
  ASSUME NEW t \in IterOrders, NEW items, NEW entries, ItemsHold(items, entries),
         NEW nrows, NEW ncols, Lie(items, FirstVals(items), nrows, ncols),
         NEW s, PointsOf(s, t, items, nrows, ncols),
         NEW a \in Int, NEW b \in Int, a <= b, \A h \in a..b : h \in 1..Len(s),
         \A h \in a..b : s[h].y = s[a].y,
         NEW p, RunsAlong(p, t, ElemsIn(s), a, b), NEW e, e = Unit(ElemsIn(s), a, p)
  PROVE  HoldsPoints(e, s, a, b)
<1> DEFINE at == FirstVals(items)
           old == ElemsIn(s)
           it(h) == s[h].item
           v(h) == s[h].item.vals[1]
           n == p.size
           d == p.delta
<1>1. /\ p = [order |-> t, delta |-> d, size |-> n, other |-> p.other]
      /\ n = b - a + 1 /\ n \in Pos /\ d \in Pos
      /\ \A k \in a..b : ~HasPattern(old[k]) /\ old[k].x = old[a].x + (k - a) * d
      /\ IsBlockType(t) # 0 => (old[a].x - 1) % IsBlockType(t) = 0
  BY Zenon DEF RunsAlong
<1>2. ASSUME NEW h \in a..b
      PROVE  /\ h \in 1..Len(s) /\ it(h) \in items /\ at[it(h)] = v(h)
             /\ s[h].y = Xform(t, v(h), nrows, ncols).y
             /\ s[h].x = Xform(t, v(h), nrows, ncols).x
             /\ old[h].x = s[h].x /\ old[h].item = it(h)
             /\ Inside(v(h), nrows, ncols)
  <2>1. h \in 1..Len(s) /\ it(h) \in items /\ s[h] = Placed(t, it(h), at, nrows, ncols)
    BY DEF PointsOf
  <2>2. at[it(h)] = v(h)
    BY <2>1 DEF FirstVals
  <2>3. old[h] = [x |-> s[h].x, item |-> s[h].item]
    BY Zenon, <2>1 DEF ElemsIn
  <2>4. old[h].x = s[h].x /\ old[h].item = it(h)
    BY <2>3
  <2>5. Inside(v(h), nrows, ncols)
    BY <2>1, <2>2, AtInside
  <2> HIDE DEF at, it
  <2>6. s[h].y = Xform(t, at[it(h)], nrows, ncols).y /\ s[h].x = Xform(t, at[it(h)], nrows, ncols).x
    BY <2>1 DEF Placed
  <2> QED
    BY Zenon, <2>1, <2>2, <2>4, <2>5, <2>6
<1>3. a \in a..b /\ \A k \in 1..n : a + k - 1 \in a..b
  <2> HIDE DEF n
  <2>1. n \in Nat
    BY <1>1 DEF Pos
  <2> QED
    BY <1>1, <2>1
<1>4. ASSUME NEW h \in a..b
      PROVE  it(h).pattern = NoPattern /\ it(h).pattern.size = 1
  <2>1. ~HasPattern(old[h])
    BY <1>1
  <2>2. it(h).pattern = NoPattern
    BY Zenon, <1>2, <2>1 DEF HasPattern
  <2>3. NoPattern.size = 1
    BY DEF NoPattern
  <2> QED
    BY Zenon, <2>2, <2>3

<1>5. ASSUME NEW k \in 1..n
      PROVE  v(a + k - 1) = Along(t, v(a), (k - 1) * d)
  <2> DEFINE h == a + k - 1
             m == (k - 1) * d
  <2>1. h \in a..b /\ a \in a..b
    BY <1>3
  <2>2. m \in Nat /\ m = (h - a) * d /\ h \in Int
    <3> HIDE DEF n, d
    <3>1. n \in Nat /\ d \in Nat /\ k - 1 \in Nat /\ h - a = k - 1 /\ h \in Int
      BY <1>1 DEF Pos
    <3>2. (k - 1) * d \in Nat
      BY <3>1
    <3> QED
      BY <3>1, <3>2
  <2> HIDE DEF h, m
  <2>3. old[h].x = old[a].x + m
    BY <1>1, <2>1, <2>2
  <2>4. Matrix(nrows, ncols)
    BY <1>2, <2>1, AtInside
  <2>5. /\ Xform(t, v(h), nrows, ncols).y = Xform(t, v(a), nrows, ncols).y
        /\ Xform(t, v(h), nrows, ncols).x = Xform(t, v(a), nrows, ncols).x + m
        /\ IsBlockType(t) # 0 => (Xform(t, v(a), nrows, ncols).x - 1) % IsBlockType(t) = 0
    <3>1. s[h].y = s[a].y
      BY <2>1
    <3>2. old[h].x = Xform(t, v(h), nrows, ncols).x /\ old[a].x = Xform(t, v(a), nrows, ncols).x
          /\ s[h].y = Xform(t, v(h), nrows, ncols).y /\ s[a].y = Xform(t, v(a), nrows, ncols).y
      BY Zenon, <1>2, <2>1
    <3>3. IsBlockType(t) # 0 => (old[a].x - 1) % IsBlockType(t) = 0
      BY <1>1
    <3> HIDE DEF old, v
    <3> QED
      BY Zenon, <2>3, <3>1, <3>2, <3>3
  <2>6. Inside(v(h), nrows, ncols) /\ Inside(v(a), nrows, ncols)
    BY <1>2, <2>1
  <2> HIDE DEF v
  <2>7. v(h) = Along(t, v(a), m)
    BY ONLY <2>2, <2>4, <2>5, <2>6, t \in IterOrders, StepsAlong
  <2> QED
    BY <2>7 DEF h, m
<1>6. t # <<"NONE", 0>>
  BY OrderKinds
<1>7. p # NoPattern
  <2>1. p.order = t
    <3> HIDE DEF n, d
    <3> QED
      BY <1>1
  <2>2. NoPattern.order = <<"NONE", 0>>
    BY DEF NoPattern
  <2> QED
    BY <1>6, <2>1, <2>2
<1> DEFINE vals == [k \in 1..n |-> v(a + k - 1)]
           I == [pattern |-> p, vals |-> vals]
<1>8. e = [x |-> s[a].x, item |-> I]
  <2>1. e = [x |-> old[a].x,
             item |-> [pattern |-> p, vals |-> [k \in 1..n |-> old[a + k - 1].item.vals[1]]]]
    BY Zenon DEF Unit
  <2>2. \A k \in 1..n : old[a + k - 1].item.vals[1] = v(a + k - 1)
    BY Zenon, <1>2, <1>3
  <2>3. [k \in 1..n |-> old[a + k - 1].item.vals[1]] = vals
    BY Zenon, <2>2
  <2>4. old[a].x = s[a].x
    BY Zenon, <1>2, <1>3
  <2> QED
    BY Zenon, <2>1, <2>3, <2>4
<1> HIDE DEF I
<1>9. e.item = I /\ e = [x |-> s[a].x, item |-> e.item]
  <2> DEFINE x == s[a].x
  <2>1. e = [x |-> x, item |-> I]
    BY <1>8
  <2> HIDE DEF x
  <2>2. e.item = I
    BY <2>1
  <2> QED
    BY Zenon, <2>1, <2>2 DEF x
<1>10. I = [pattern |-> I.pattern, vals |-> I.vals] /\ I.pattern = p /\ I.vals = vals
  <2> HIDE DEF vals
  <2> QED
    BY DEF I
<1>11. 1 \in 1..n /\ vals[1] = v(a) /\ \A j \in 1..n : vals[j] = v(a + j - 1)
  <2>1. 1 \in 1..n /\ a + 1 - 1 = a
    <3> HIDE DEF n
    <3> QED
      BY <1>1 DEF Pos
  <2> QED
    BY Zenon, <2>1
<1> HIDE DEF vals
<1>12. v(a) = Point(v(a).y, v(a).x)
  <2>1. Inside(v(a), nrows, ncols) /\ Matrix(nrows, ncols)
    BY <1>2, <1>3, AtInside
  <2> HIDE DEF v
  <2> QED
    BY Zenon, <2>1, InsideIsPoint
<1>13. vals = Reached(p, v(a))
  <2>1. p.order = t
    <3> HIDE DEF n, d
    <3> QED
      BY <1>1
  <2>2. Reached(p, v(a)) = [j \in 1..n |-> Along(t, v(a), (j - 1) * d)]
    <3> DEFINE u == Point(v(a).y, v(a).x)
    <3>1. Reached(p, v(a)) = [j \in 1..p.size |-> IF p = NoPattern THEN u
                                                 ELSE Along(p.order, u, (j - 1) * p.delta)]
      BY Zenon DEF Reached
    <3>2. u = v(a)
      BY <1>12
    <3> HIDE DEF u, v
    <3> QED
      BY Zenon, <1>7, <2>1, <3>1, <3>2
  <2> HIDE DEF v, n, d
  <2> QED
    BY Zenon, <1>5, <2>2 DEF vals
<1>14. ItemIs(I) /\ I.vals[1] = v(a)
  <2> HIDE DEF v
  <2>1. PatternIs(p)
    <3>1. /\ p = [order |-> t, delta |-> p.delta, size |-> p.size, other |-> p.other]
          /\ p.delta \in Pos /\ p.other \in Nat
          /\ IsBlockType(t) # 0 => p.delta = 1 /\ p.size = IsBlockType(t) * p.other
      BY Zenon DEF RunsAlong
    <3>2. p.order = t
      BY ONLY <3>1
    <3> QED
      BY Zenon, <3>1, <3>2 DEF PatternIs
  <2> QED
    BY Zenon, <1>1, <1>10, <1>11, <1>12, <1>13, <2>1 DEF ItemIs
<1>15. ASSUME NEW j \in 1..n
       PROVE  \E h \in a..b : \E i \in 1..it(h).pattern.size : vals[j] = it(h).vals[i]
  <2> DEFINE h == a + j - 1
  <2>1. h \in a..b /\ vals[j] = it(h).vals[1]
    BY <1>3, <1>11
  <2>2. 1 \in 1..it(h).pattern.size
    BY <1>4, <2>1
  <2> HIDE DEF h, it
  <2> QED
    BY Zenon, <2>1, <2>2
<1>16. ASSUME NEW h \in a..b, NEW i \in 1..it(h).pattern.size
       PROVE  \E j \in 1..n : vals[j] = it(h).vals[i]
  <2> DEFINE j == h - a + 1
  <2>1. i = 1
    BY <1>4
  <2>2. j \in 1..n /\ a + j - 1 = h
    <3> HIDE DEF n
    <3> QED
      BY <1>1
  <2> HIDE DEF j
  <2>3. vals[j] = v(h)
    BY Zenon, <1>11, <2>2
  <2> QED
    BY Zenon, <2>1, <2>2, <2>3
<1>17. ASSUME NEW i \in 1..n, NEW j \in 1..n, vals[i] = vals[j] PROVE i = j
  <2> DEFINE g == a + i - 1
             h == a + j - 1
  <2>1. g \in a..b /\ h \in a..b /\ v(g) = v(h)
    BY <1>3, <1>11, <1>17
  <2>2. it(g) \in items /\ it(h) \in items /\ g \in 1..Len(s) /\ h \in 1..Len(s)
    BY <1>2, <2>1
  <2>3. 1 \in 1..it(g).pattern.size /\ 1 \in 1..it(h).pattern.size
    BY <1>4, <2>1
  <2>4. g = a + i - 1 /\ h = a + j - 1
    OBVIOUS
  <2> HIDE DEF g, h
  <2>5. it(g) = it(h)
    <3> DEFINE c == it(g)
               f == it(h)
    <3>1. c \in items /\ f \in items /\ 1 \in 1..c.pattern.size /\ 1 \in 1..f.pattern.size
          /\ c.vals[1] = f.vals[1]
      BY <2>1, <2>2, <2>3
    <3> HIDE DEF c, f
    <3>2. c = f
      BY <3>1 DEF ItemsHold
    <3> QED
      BY <3>2 DEF c, f
  <2>6. g = h
    BY Zenon, <2>2, <2>5 DEF PointsOf
  <2> HIDE DEF n
  <2>7. n \in Nat
    BY <1>1 DEF Pos
  <2> QED
    BY <2>4, <2>6, <2>7
<1> HIDE DEF n
<1>18. I.pattern.size = n
  BY <1>10 DEF n
<1>19. e.item.vals = vals /\ e.item.pattern.size = n /\ e.item.vals[1] = s[a].item.vals[1]
  BY Zenon, <1>9, <1>10, <1>14, <1>18
<1>20. ItemIs(e.item) /\ e = [x |-> s[a].x, item |-> e.item]
  BY Zenon, <1>9, <1>14
<1>21. \A j \in 1..n : \E h \in a..b : \E i \in 1..s[h].item.pattern.size :
         vals[j] = s[h].item.vals[i]
  BY <1>15
<1>22. \A h \in a..b : \A i \in 1..s[h].item.pattern.size : \E j \in 1..n :
         vals[j] = s[h].item.vals[i]
  BY <1>16
<1>23. \A i, j \in 1..n : vals[i] = vals[j] => i = j
  BY <1>17
<1> DEFINE w == e.item.vals
           m == e.item.pattern.size
<1>24. w = vals /\ m = n
  BY Zenon, <1>19
<1>25. \A j \in 1..m : \E h \in a..b : \E i \in 1..s[h].item.pattern.size :
         w[j] = s[h].item.vals[i]
  BY Zenon, <1>21, <1>24
<1>26. \A h \in a..b : \A i \in 1..s[h].item.pattern.size : \E j \in 1..m :
         w[j] = s[h].item.vals[i]
  BY Zenon, <1>22, <1>24
<1>27. \A i, j \in 1..m : w[i] = w[j] => i = j
  BY Zenon, <1>23, <1>24
<1> QED
  BY Zenon, <1>19, <1>20, <1>25, <1>26, <1>27 DEF HoldsPoints

\* Each element of new holds the entries of its stretch of the points.
HoldsAllPoints(new, s, from, to) ==
  /\ Stretches(from, to, Len(new), 1, Len(s))
  /\ \A k \in 1..Len(new) : HoldsPoints(new[k], s, from[k], to[k])

\* The elements that stand for the points of items hold their entries.
LEMMA StandingHolds ==
  ASSUME NEW t \in IterOrders, NEW items, NEW entries, ItemsHold(items, entries),
         NEW nrows, NEW ncols, Lie(items, FirstVals(items), nrows, ncols),
         NEW s, PointsOf(s, t, items, nrows, ncols),
         NEW new, NEW y, NEW from, NEW to, StandsForPoints(new, y, from, to, t, s)
  PROVE  HoldsAllPoints(new, s, from, to)
<1> DEFINE l == Len(s)
           n == Len(new)
<1>1. l \in Nat
  BY DEF PointsOf, Stream, Rising
<1>2. ASSUME NEW k \in 1..n
      PROVE  HoldsPoints(new[k], s, from[k], to[k])
  <2> DEFINE a == from[k]
             b == to[k]
             e == new[k]
  <2>1. a \in 1..l /\ b \in a..l /\ StandsFor(e, t, ElemsIn(s), a, b)
        /\ \A h \in a..b : s[h].y = y[k]
    BY Zenon DEF StandsForPoints, Stretches
  <2> HIDE DEF a, b, e, l
  <2>2. a \in Int /\ b \in Int /\ a <= b /\ a \in a..b /\ \A h \in a..b : h \in 1..l
    BY <1>1, <2>1
  <2>3. \A h \in a..b : s[h].y = s[a].y
    BY Zenon, <2>1, <2>2
  <2>4. CASE a = b /\ e = ElemsIn(s)[a]
    <3>1. s[a].item \in items
      BY Zenon, <2>1 DEF PointsOf, l
    <3>2. e = [x |-> s[a].x, item |-> s[a].item]
      BY Zenon, <2>1, <2>4 DEF ElemsIn, l
    <3>3. HoldsPoints(e, s, a, a)
      BY Zenon, <2>2, <3>1, <3>2, HoldsOne
    <3> QED
      BY Zenon, <2>4, <3>3 DEF a, b, e
  <2>5. ASSUME NEW p, RunsAlong(p, t, ElemsIn(s), a, b), e = Unit(ElemsIn(s), a, p)
        PROVE  HoldsPoints(e, s, a, b)
    <3>1. \A h \in a..b : h \in 1..Len(s)
      BY <2>2 DEF l
    <3> QED
      BY ONLY <2>2, <2>3, <2>5, <3>1, t \in IterOrders, ItemsHold(items, entries),
         Lie(items, FirstVals(items), nrows, ncols), PointsOf(s, t, items, nrows, ncols),
         HoldsRun
  <2> QED
    BY Zenon, <2>1, <2>4, <2>5 DEF StandsFor, a, b, e
<1>3. Stretches(from, to, n, 1, l)
  BY DEF StandsForPoints
<1> QED
  BY Zenon, <1>2, <1>3 DEF HoldsAllPoints, n, l

\* The items of a sequence of elements hold the entries, and each is in one element.
NewHold(new, entries) ==
  /\ ItemsHold({new[k].item : k \in 1..Len(new)}, entries)
  /\ \A j, k \in 1..Len(new) : new[j].item = new[k].item => j = k

\* So they hold all of the entries, each once.
LEMMA NewItemsHold ==
  ASSUME NEW t, NEW items, NEW entries, ItemsHold(items, entries), NEW nrows, NEW ncols,
         NEW s, PointsOf(s, t, items, nrows, ncols),
         NEW new, NEW from, NEW to, HoldsAllPoints(new, s, from, to)
  PROVE  NewHold(new, entries)
<1> DEFINE n == Len(new)
           l == Len(s)
           it(k) == new[k].item
           size(k) == new[k].item.pattern.size
           old(h) == s[h].item
           oldSize(h) == s[h].item.pattern.size
           N == {it(k) : k \in 1..n}
<1>1. l \in Nat
  BY DEF PointsOf, Stream, Rising
<1>2. /\ \A k \in 1..n : from[k] \in 1..l /\ to[k] \in from[k]..l
      /\ \A j, k \in 1..n : j < k => to[j] < from[k]
      /\ \A h \in 1..l : \E k \in 1..n : from[k] <= h /\ h <= to[k]
  BY Zenon DEF HoldsAllPoints, Stretches
<1>3. ASSUME NEW k \in 1..n
      PROVE  /\ ItemIs(it(k)) /\ size(k) \in Pos
             /\ \A j \in 1..size(k) : \E h \in from[k]..to[k] : \E i \in 1..oldSize(h) :
                  it(k).vals[j] = old(h).vals[i]
             /\ \A h \in from[k]..to[k] : \A i \in 1..oldSize(h) : \E j \in 1..size(k) :
                  it(k).vals[j] = old(h).vals[i]
             /\ \A i, j \in 1..size(k) : it(k).vals[i] = it(k).vals[j] => i = j
             /\ \A h \in from[k]..to[k] : h \in 1..l
  <2>1. HoldsPoints(new[k], s, from[k], to[k])
    BY DEF HoldsAllPoints
  <2>2. ItemIs(it(k)) /\ size(k) \in Pos
    BY <2>1 DEF HoldsPoints, ItemIs
  <2>3. \A h \in from[k]..to[k] : h \in 1..l
    <3> HIDE DEF n, l
    <3>1. from[k] \in 1..l /\ to[k] \in from[k]..l
      BY <1>2
    <3> QED
      BY <1>1, <3>1
  <2> QED
    BY Zenon, <2>1, <2>2, <2>3 DEF HoldsPoints
<1>4. /\ \A a \in items : \A j \in 1..a.pattern.size : a.vals[j] \in entries
      /\ \A e \in entries : \E a \in items : \E j \in 1..a.pattern.size : a.vals[j] = e
      /\ \A a, b \in items : \A i \in 1..a.pattern.size, j \in 1..b.pattern.size :
           a.vals[i] = b.vals[j] => a = b /\ i = j
  BY DEF ItemsHold
<1>5. /\ \A h \in 1..l : old(h) \in items
      /\ \A a \in items : \E h \in 1..l : old(h) = a
      /\ \A g, h \in 1..l : old(g) = old(h) => g = h
  BY Zenon DEF PointsOf
<1> HIDE DEF n, l
<1>6. ASSUME NEW k \in 1..n, NEW j \in 1..size(k) PROVE it(k).vals[j] \in entries
  <2>1. PICK h \in from[k]..to[k] : \E i \in 1..oldSize(h) : it(k).vals[j] = old(h).vals[i]
    BY <1>3
  <2>2. PICK i \in 1..oldSize(h) : it(k).vals[j] = old(h).vals[i]
    BY <2>1
  <2>3. old(h) \in items
    BY <1>3, <1>5, <2>1
  <2> HIDE DEF it
  <2> QED
    BY <1>4, <2>2, <2>3
<1>7. ASSUME NEW e \in entries PROVE \E k \in 1..n : \E j \in 1..size(k) : it(k).vals[j] = e
  <2>1. PICK a \in items : \E j \in 1..a.pattern.size : a.vals[j] = e
    BY <1>4
  <2>2. PICK i \in 1..a.pattern.size : a.vals[i] = e
    BY <2>1
  <2>3. PICK h \in 1..l : old(h) = a
    BY <1>5
  <2>4. PICK k \in 1..n : from[k] <= h /\ h <= to[k]
    BY <1>2
  <2>5. h \in from[k]..to[k]
    <3>1. from[k] \in 1..l /\ to[k] \in from[k]..l
      BY <1>2
    <3> QED
      BY <1>1, <2>4, <3>1
  <2>6. i \in 1..oldSize(h) /\ old(h).vals[i] = e
    BY <2>2, <2>3
  <2>7. PICK j \in 1..size(k) : it(k).vals[j] = old(h).vals[i]
    <3>1. \A g \in from[k]..to[k] : \A u \in 1..oldSize(g) : \E j \in 1..size(k) :
            it(k).vals[j] = old(g).vals[u]
      BY <1>3
    <3> HIDE DEF it, size, old, oldSize
    <3> QED
      BY <2>5, <2>6, <3>1
  <2> QED
    BY Zenon, <2>6, <2>7
<1>8. ASSUME NEW k \in 1..n, NEW m \in 1..n, NEW i \in 1..size(k), NEW j \in 1..size(m),
             it(k).vals[i] = it(m).vals[j]
      PROVE  k = m /\ i = j
  <2>1. PICK g \in from[k]..to[k] : \E u \in 1..oldSize(g) : it(k).vals[i] = old(g).vals[u]
    BY <1>3
  <2>2. PICK u \in 1..oldSize(g) : it(k).vals[i] = old(g).vals[u]
    BY <2>1
  <2>3. PICK h \in from[m]..to[m] : \E w \in 1..oldSize(h) : it(m).vals[j] = old(h).vals[w]
    BY <1>3
  <2>4. PICK w \in 1..oldSize(h) : it(m).vals[j] = old(h).vals[w]
    BY <2>3
  <2>5. g \in 1..l /\ h \in 1..l
    BY <1>3
  <2>6. old(g) = old(h)
    <3> DEFINE a == old(g)
               b == old(h)
    <3>1. a \in items /\ b \in items /\ u \in 1..a.pattern.size /\ w \in 1..b.pattern.size
          /\ a.vals[u] = b.vals[w]
      BY Zenon, <1>5, <1>8, <2>2, <2>4, <2>5
    <3> HIDE DEF a, b
    <3>2. a = b
      BY <1>4, <3>1
    <3> QED
      BY <3>2 DEF a, b
  <2>7. g = h
    BY Zenon, <1>5, <2>5, <2>6
  <2>8. /\ from[k] \in 1..l /\ to[k] \in from[k]..l /\ from[m] \in 1..l /\ to[m] \in from[m]..l
        /\ k \in Int /\ m \in Int
    BY <1>2
  <2>9. ~(k < m) /\ ~(m < k)
    <3>1. (k < m => to[k] < from[m]) /\ (m < k => to[m] < from[k])
      BY <1>2
    <3> QED
      BY <1>1, <2>1, <2>3, <2>7, <2>8, <3>1
  <2>10. k = m
    BY <2>8, <2>9
  <2> QED
    BY Zenon, <1>3, <1>8, <2>10
<1>9. ASSUME NEW k \in 1..n, NEW m \in 1..n, it(k) = it(m) PROVE k = m
  <2>1. 1 \in 1..size(k) /\ 1 \in 1..size(m)
    <3>1. size(k) \in Pos /\ size(m) \in Pos
      BY <1>3
    <3> HIDE DEF size
    <3> QED
      BY <3>1 DEF Pos
  <2> QED
    BY Zenon, <1>8, <1>9, <2>1
<1>10. ItemsHold(N, entries)
  <2>1. \A a \in N : \E k \in 1..n : a = it(k)
    OBVIOUS
  <2>2. \A k \in 1..n : it(k) \in N
    OBVIOUS
  <2> HIDE DEF N
  <2>3. ASSUME NEW a \in N PROVE ItemIs(a)
    <3>1. PICK k \in 1..n : a = it(k)
      BY <2>1
    <3>2. ItemIs(it(k))
      BY <1>3
    <3> HIDE DEF it
    <3> QED
      BY <3>1, <3>2
  <2>4. ASSUME NEW a \in N, NEW j \in 1..a.pattern.size PROVE a.vals[j] \in entries
    <3>1. PICK k \in 1..n : a = it(k)
      BY <2>1
    <3>2. j \in 1..size(k)
      BY <3>1
    <3>3. it(k).vals[j] \in entries
      BY <1>6, <3>2
    <3> HIDE DEF it
    <3> QED
      BY <3>1, <3>3
  <2>5. \A e \in entries : \E a \in N : \E j \in 1..a.pattern.size : a.vals[j] = e
    BY Zenon, <1>7, <2>2
  <2>6. ASSUME NEW a \in N, NEW b \in N, NEW i \in 1..a.pattern.size, NEW j \in 1..b.pattern.size,
               a.vals[i] = b.vals[j]
        PROVE  a = b /\ i = j
    <3>1. PICK k \in 1..n : a = it(k)
      BY <2>1
    <3>2. PICK m \in 1..n : b = it(m)
      BY <2>1
    <3>3. i \in 1..size(k) /\ j \in 1..size(m) /\ it(k).vals[i] = it(m).vals[j]
      BY <2>6, <3>1, <3>2
    <3>4. k = m /\ i = j
      BY <1>8, <3>3
    <3> QED
      BY Zenon, <3>1, <3>2, <3>4
  <2>7. /\ \A a \in N : ItemIs(a)
        /\ \A a \in N : \A j \in 1..a.pattern.size : a.vals[j] \in entries
        /\ \A a, b \in N : \A i \in 1..a.pattern.size, j \in 1..b.pattern.size :
             a.vals[i] = b.vals[j] => a = b /\ i = j
    BY Zenon, <2>3, <2>4, <2>6
  <2> QED
    BY Zenon, <2>5, <2>7 DEF ItemsHold
<1> QED
  BY Zenon, <1>9, <1>10 DEF n, NewHold

\* The points of the new elements, each in the row of the first one it stands for.
NewItems(new) == {new[k].item : k \in 1..Len(new)}
NewPoints(new, s, from) ==
  [k \in 1..Len(new) |-> [y |-> s[from[k]].y, x |-> new[k].x, item |-> new[k].item]]

\* The new items lie where their first entries do, and their points are in order.
LEMMA NewItemsLie ==
  ASSUME NEW t \in IterOrders, NEW items, NEW entries, ItemsHold(items, entries),
         NEW nrows, NEW ncols, Lie(items, FirstVals(items), nrows, ncols),
         NEW s, PointsOf(s, t, items, nrows, ncols),
         NEW new, IsSeq(new), NEW from, NEW to, HoldsAllPoints(new, s, from, to)
  PROVE  /\ ItemsHold(NewItems(new), entries)
         /\ Lie(NewItems(new), FirstVals(NewItems(new)), nrows, ncols)
         /\ NewPoints(new, s, from)
              = InRows(t, NewItems(new), FirstVals(NewItems(new)), nrows, ncols)
<1> DEFINE n == Len(new)
           l == Len(s)
           N == NewItems(new)
           at == FirstVals(items)
           newAt == FirstVals(N)
           u == NewPoints(new, s, from)
           it(k) == new[k].item
           f(k) == from[k]
           old(h) == s[h].item
<1>1. /\ ItemsHold(N, entries)
      /\ \A j, k \in 1..n : it(j) = it(k) => j = k
  <2>1. /\ ItemsHold(items, entries) /\ PointsOf(s, t, items, nrows, ncols)
        /\ HoldsAllPoints(new, s, from, to)
    OBVIOUS
  <2>2. NewHold(new, entries)
    BY ONLY <2>1, NewItemsHold
  <2> QED
    BY Zenon, <2>2 DEF NewHold, NewItems
<1>2. n \in Nat /\ l \in Nat
  BY DEF IsSeq, PointsOf, Stream, Rising
<1>3. /\ \A k \in 1..n : f(k) \in 1..l /\ to[k] \in f(k)..l
      /\ \A j, k \in 1..n : j < k => to[j] < f(k)
  BY Zenon DEF HoldsAllPoints, Stretches
<1>4. ASSUME NEW k \in 1..n
      PROVE  /\ it(k) \in N /\ f(k) \in 1..l /\ old(f(k)) \in items
             /\ newAt[it(k)] = at[old(f(k))]
             /\ new[k].x = s[f(k)].x
             /\ s[f(k)] = Placed(t, old(f(k)), at, nrows, ncols)
  <2>1. it(k) \in N
    BY DEF NewItems
  <2>2. f(k) \in 1..l /\ old(f(k)) \in items /\ s[f(k)] = Placed(t, old(f(k)), at, nrows, ncols)
    BY Zenon, <1>3 DEF PointsOf
  <2>3. HoldsPoints(new[k], s, f(k), to[k])
    BY Zenon DEF HoldsAllPoints
  <2>4. it(k).vals[1] = old(f(k)).vals[1]
    BY Zenon, <2>3 DEF HoldsPoints
  <2>5. newAt[it(k)] = it(k).vals[1]
    <3> HIDE DEF N, it
    <3> QED
      BY <2>1 DEF FirstVals
  <2>6. at[old(f(k))] = old(f(k)).vals[1]
    <3> HIDE DEF old, f
    <3> QED
      BY <2>2 DEF FirstVals
  <2>7. new[k].x = s[f(k)].x
    <3> DEFINE e == new[k]
               x == s[f(k)].x
               i == new[k].item
    <3>1. e = [x |-> x, item |-> i]
      BY Zenon, <2>3 DEF HoldsPoints
    <3> HIDE DEF e, x, i
    <3>2. e.x = x
      BY <3>1
    <3> QED
      BY Zenon, <3>2 DEF e, x
  <2> QED
    BY Zenon, <2>1, <2>2, <2>4, <2>5, <2>6, <2>7
<1>5. ASSUME NEW a \in N PROVE \E k \in 1..n : a = it(k)
  BY DEF NewItems
<1>6. Lie(N, newAt, nrows, ncols)
  <2>1. nrows \in Nat /\ ncols \in Nat /\ \A a \in items : at[a] \in [y : 1..nrows, x : 1..ncols]
    BY DEF Lie
  <2>2. IsFiniteSet(N)
    <3> DEFINE g == [k \in 1..n |-> it(k)]
    <3>1. g \in Surjection(1..n, N)
      BY DEF NewItems, Surjection
    <3>2. IsFiniteSet(1..n)
      BY <1>2, FS_Interval
    <3> HIDE DEF g, N
    <3> QED
      BY <3>1, <3>2, FS_Surjection
  <2> HIDE DEF N, newAt, at, n, it, f, old
  <2>3. ASSUME NEW a \in N PROVE newAt[a] \in [y : 1..nrows, x : 1..ncols]
    <3>1. PICK k \in 1..n : a = it(k)
      BY <1>5
    <3> QED
      BY <1>4, <2>1, <3>1
  <2>4. ASSUME NEW a \in N, NEW b \in N, newAt[a] = newAt[b] PROVE a = b
    <3>1. newAt[a] = a.vals[1] /\ newAt[b] = b.vals[1]
      BY DEF newAt, FirstVals
    <3>2. 1 \in 1..a.pattern.size /\ 1 \in 1..b.pattern.size
      <4>1. a.pattern.size \in Pos /\ b.pattern.size \in Pos
        BY <1>1 DEF ItemsHold, ItemIs
      <4> DEFINE i == a.pattern.size
                 j == b.pattern.size
      <4> HIDE DEF i, j
      <4>2. i \in Pos /\ j \in Pos
        BY <4>1 DEF i, j
      <4>3. 1 \in 1..i /\ 1 \in 1..j
        BY <4>2 DEF Pos
      <4> QED
        BY <4>3 DEF i, j
    <3>3. \A c, d \in N : \A i \in 1..c.pattern.size, j \in 1..d.pattern.size :
            c.vals[i] = d.vals[j] => c = d
      BY <1>1 DEF ItemsHold
    <3> QED
      BY <2>4, <3>1, <3>2, <3>3
  <2> QED
    BY Zenon, <2>1, <2>2, <2>3, <2>4 DEF Lie
<1> DEFINE P(a) == Placed(t, a, newAt, nrows, ncols)
           pts == AllPlaced(t, N, newAt, nrows, ncols)
<1>7. ASSUME NEW k \in 1..n
      PROVE  /\ u[k] = [y |-> s[f(k)].y, x |-> s[f(k)].x, item |-> it(k)]
             /\ u[k] = P(it(k))
  <2>1. u[k] = [y |-> s[f(k)].y, x |-> new[k].x, item |-> it(k)]
    BY DEF NewPoints
  <2>2. u[k] = [y |-> s[f(k)].y, x |-> s[f(k)].x, item |-> it(k)]
    BY Zenon, <1>4, <2>1
  <2> DEFINE p == newAt[it(k)]
             q == at[old(f(k))]
  <2>3. p = q
    BY <1>4
  <2>4. s[f(k)] = [y |-> Xform(t, q, nrows, ncols).y, x |-> Xform(t, q, nrows, ncols).x,
                   item |-> old(f(k))]
    BY Zenon, <1>4 DEF Placed
  <2>5. s[f(k)].y = Xform(t, q, nrows, ncols).y /\ s[f(k)].x = Xform(t, q, nrows, ncols).x
    <3> HIDE DEF q, f, old
    <3> DEFINE b == Xform(t, q, nrows, ncols).y
               c == Xform(t, q, nrows, ncols).x
               e == s[f(k)]
    <3>1. e = [y |-> b, x |-> c, item |-> old(f(k))]
      BY <2>4
    <3> HIDE DEF b, c, e
    <3>2. e.y = b /\ e.x = c
      BY <3>1
    <3> QED
      BY Zenon, <3>2 DEF b, c, e
  <2>6. P(it(k)) = [y |-> Xform(t, p, nrows, ncols).y, x |-> Xform(t, p, nrows, ncols).x,
                    item |-> it(k)]
    BY Zenon DEF Placed
  <2> HIDE DEF p, q, P, it, f, u
  <2> QED
    BY Zenon, <2>2, <2>3, <2>5, <2>6
<1>8. u = [k \in 1..n |-> u[k]]
  BY DEF NewPoints
<1>9. IsSeq(u) /\ Len(u) = n
  <2> HIDE DEF u, n
  <2> QED
    BY <1>2, <1>8, FunctionIs
<1>10. Rising(u)
  <2>1. /\ \A h \in 1..l : s[h].y \in Int /\ s[h].x \in Int
        /\ \A g, h \in 1..l : g < h => CooLess(s[g], s[h])
    BY DEF PointsOf, Stream, Rising
  <2>2. ASSUME NEW k \in 1..n PROVE u[k].y = s[f(k)].y /\ u[k].x = s[f(k)].x
    <3> DEFINE e == u[k]
               b == s[f(k)].y
               c == s[f(k)].x
    <3>1. e = [y |-> b, x |-> c, item |-> it(k)]
      BY Zenon, <1>7
    <3> HIDE DEF b, c, e
    <3>2. e.y = b /\ e.x = c
      BY <3>1
    <3> QED
      BY Zenon, <3>2 DEF b, c, e
  <2>3. ASSUME NEW j \in 1..n, NEW k \in 1..n, j < k PROVE CooLess(u[j], u[k])
    <3>1. /\ f(j) \in 1..l /\ f(k) \in 1..l /\ to[j] \in f(j)..l /\ to[j] < f(k)
      BY <1>3, <2>3
    <3> HIDE DEF f, l, u, n
    <3>2. f(j) < f(k)
      BY <1>2, <3>1
    <3>3. CooLess(s[f(j)], s[f(k)])
      BY <2>1, <3>1, <3>2
    <3> QED
      BY Zenon, <2>2, <3>3 DEF CooLess
  <2>4. \A k \in 1..n : u[k].y \in Int /\ u[k].x \in Int
    <3> HIDE DEF f, u, n, l
    <3> QED
      BY <1>3, <2>1, <2>2
  <2> HIDE DEF u, n, f, l
  <2>5. u = [k \in 1..Len(u) |-> u[k]] /\ Len(u) \in Nat
    BY <1>9 DEF IsSeq
  <2>6. /\ \A k \in 1..Len(u) : u[k].y \in Int /\ u[k].x \in Int
        /\ \A j, k \in 1..Len(u) : j < k => CooLess(u[j], u[k])
    BY Zenon, <1>9, <2>3, <2>4
  <2> QED
    BY Zenon, <2>5, <2>6 DEF Rising
<1>11. InOrder(u, pts)
  <2>1. \A k \in 1..n : u[k] \in pts
    <3> TAKE k \in 1..n
    <3>1. u[k] = P(it(k)) /\ it(k) \in N
      BY <1>4, <1>7
    <3> HIDE DEF u, it, N, newAt
    <3> QED
      BY <3>1 DEF AllPlaced
  <2>2. ASSUME NEW p \in pts PROVE \E k \in 1..n : u[k] = p
    <3> HIDE DEF u, it, N, newAt
    <3>1. PICK a \in N : p = P(a)
      BY DEF AllPlaced
    <3>2. PICK k \in 1..n : a = it(k)
      BY <1>5
    <3> HIDE DEF P
    <3> QED
      BY <1>7, <3>1, <3>2
  <2> HIDE DEF u, pts, n
  <2> QED
    BY Zenon, <1>9, <1>10, <2>1, <2>2 DEF InOrder
<1>12. Apart(pts)
  <2> HIDE DEF N, newAt
  <2> QED
    BY <1>6, PlacedApart
<1>13. u = Sort(pts)
  <2> HIDE DEF u, pts
  <2> QED
    BY <1>11, <1>12, SortUnique
<1> QED
  BY Zenon, <1>1, <1>6, <1>13 DEF InRows

\* The ends of the rows count the points before each row.
LEMMA EndsArePointers ==
  ASSUME NEW rows, Len(rows) \in Nat, NEW end, EndsOfRows(end, rows),
         NEW u, Rising(u), Len(u) = end[Len(rows)],
         \A k \in 1..Len(u) : /\ u[k].y \in 1..Len(rows)
                              /\ end[u[k].y - 1] < k /\ k <= end[u[k].y]
  PROVE  \A i \in 1..(Len(rows) + 1) : Count(u, i) = end[i - 1]
<1> TAKE i \in 1..(Len(rows) + 1)
<1> DEFINE N == Len(rows)
           n == Len(u)
           c == Count(u, i)
           e == end[i - 1]
<1>1. /\ \A j \in 0..N : end[j] \in Nat
      /\ \A j, k \in 0..N : j <= k => end[j] <= end[k]
      /\ N \in Nat /\ n = end[N] /\ N \in 0..N /\ i - 1 \in 0..N /\ i \in Int
  BY DEF EndsOfRows
<1>2. e \in 0..n /\ n \in Nat
  <2>1. i - 1 <= N
    BY <1>1
  <2>2. end[i - 1] <= end[N] /\ end[i - 1] \in Nat /\ end[N] \in Nat
    BY Zenon, <1>1, <2>1
  <2> HIDE DEF n
  <2> QED
    BY <1>1, <2>2
<1>3. c \in 0..n /\ \A k \in 1..n : k <= c <=> u[k].y < i
  BY <1>1, CountIs
<1>4. ASSUME NEW k \in 1..n PROVE k <= e <=> u[k].y < i
  <2> DEFINE r == u[k].y
             a == end[r - 1]
             b == end[r]
  <2>1. r \in 1..N /\ a < k /\ k <= b
    OBVIOUS
  <2> HIDE DEF r
  <2>2. r - 1 \in 0..N /\ r \in 0..N /\ r \in Int
    BY <1>1, <2>1
  <2>3. a \in Nat /\ b \in Nat
    BY Zenon, <1>1, <2>2
  <2>4. CASE r < i
    <3>1. r <= i - 1
      BY <1>1, <2>2, <2>4
    <3>2. b <= e
      BY Zenon, <1>1, <2>2, <3>1
    <3> HIDE DEF a, b, e, n
    <3>3. k <= e
      BY <1>2, <2>1, <2>3, <3>2
    <3> QED
      BY <2>4, <3>3 DEF r
  <2>5. CASE ~(r < i)
    <3>1. i - 1 <= r - 1
      BY <1>1, <2>2, <2>5
    <3>2. e <= a
      BY Zenon, <1>1, <2>2, <3>1
    <3> HIDE DEF a, b, e, n
    <3>3. ~(k <= e)
      BY <1>2, <2>1, <2>3, <3>2
    <3> QED
      BY <2>5, <3>3 DEF r
  <2> QED
    BY <2>4, <2>5
<1> HIDE DEF c, e, n
<1>5. c = e
  <2>1. \A k \in 1..n : k <= c <=> k <= e
    BY Zenon, <1>3, <1>4
  <2>2. c \in Int /\ e \in Int /\ 0 <= c /\ 0 <= e /\ c <= n /\ e <= n
    BY <1>2, <1>3
  <2>3. CASE c < e
    <3>1. e \in 1..n
      BY <1>2, <2>2, <2>3
    <3> QED
      BY <2>1, <2>2, <2>3, <3>1
  <2>4. CASE e < c
    <3>1. c \in 1..n
      BY <1>2, <2>2, <2>4
    <3> QED
      BY <2>1, <2>2, <2>4, <3>1
  <2> QED
    BY <2>2, <2>3, <2>4
<1> QED
  BY <1>5 DEF c, e

\* A matrix rebuilt from rows that stand for its points holds the same entries.
LEMMA RebuiltKeeps ==
  ASSUME NEW w, NEW fields, Has(w, fields), MatrixFields \subseteq fields,
         NEW items, NEW entries, ItemsHold(items, entries), Keeps(w, items, FirstVals(items)),
         NEW rows, Len(rows) = GetNrRows(w),
         RowsStand(rows, w.type, InRows(w.type, items, FirstVals(items), w.nrRows, w.nrCols))
  PROVE  \E N : ItemsHold(N, entries) /\ Keeps(Rebuilt(w, rows), N, FirstVals(N))
<1> DEFINE t == w.type
           nrows == w.nrRows
           ncols == w.nrCols
           at == FirstVals(items)
           s == InRows(t, items, at, nrows, ncols)
           end == RowEnds(rows)
           m == Rebuilt(w, rows)
           R == Len(rows)
<1>1. PICK n \in 1..(nrows + ncols + 1) :
        Holds(w, s, n) /\ (t = HORIZONTAL => n <= nrows + 1)
  BY DEF Keeps
<1>2. t \in IterOrders /\ Lie(items, at, nrows, ncols)
  BY DEF Keeps
<1>3. /\ Stream(s)
      /\ \A k \in 1..Len(s) : s[k].item \in items /\ s[k] = Placed(t, s[k].item, at, nrows, ncols)
      /\ \A e \in items : \E k \in 1..Len(s) : s[k].item = e
      /\ \A j, k \in 1..Len(s) : s[j].item = s[k].item => j = k
  <2>1. s = InRows(t, items, at, nrows, ncols)
    OBVIOUS
  <2> HIDE DEF s, t, at, nrows, ncols
  <2> QED
    BY ONLY <1>2, <2>1, InRowsIs
<1>4. PointsOf(s, t, items, nrows, ncols)
  BY Zenon, <1>3 DEF PointsOf
<1>5. R = n - 1 /\ n \in Pos /\ \A k \in 1..Len(s) : s[k].y \in 1..(n - 1)
  <2> HIDE DEF s
  <2> QED
    BY <1>1, <1>3, RowOfHeld DEF Holds
<1>6. R \in Nat /\ \A k \in 1..Len(s) : s[k].y \in 1..R
  <2> HIDE DEF s, R
  <2> QED
    BY <1>5 DEF Pos
<1>7. \A i \in 1..R : Len(rows[i]) \in Nat
  BY DEF RowsStand, Covers, IsSeq
<1>8. PICK y : /\ EndsOfRows(end, rows) /\ BuiltFrom(m, rows, end, y)
               /\ Has(m, fields)
               /\ \A f \in fields \ {"elems", "rowptr"} : m[f] = w[f]
  <2>1. /\ EndsOfRows(end, rows) /\ \E y : BuiltFrom(m, rows, end, y)
        /\ Has(m, fields)
        /\ \A f \in fields \ {"elems", "rowptr"} : m[f] = w[f]
    <3>1. R \in Nat
      BY <1>6
    <3> QED
      BY ONLY <1>7, <3>1, Has(w, fields), MatrixFields \subseteq fields, RebuiltIs
  <2> QED
    BY <2>1
<1>9. m.type = t /\ m.nrRows = nrows /\ m.nrCols = ncols
  BY <1>8 DEF MatrixFields
<1> DEFINE new == m.elems
<1>10. PICK from, to : StandsForPoints(new, y, from, to, t, s)
  <2> HIDE DEF s, end, m, t
  <2> QED
    BY <1>3, <1>6, <1>8, BuiltStands DEF s, t
<1> HIDE DEF s, at, end, m, t, nrows, ncols
<1>11. HoldsAllPoints(new, s, from, to)
  BY Zenon, <1>2, <1>4, <1>10, StandingHolds DEF at
<1>12. IsSeq(new) /\ Len(new) = end[R]
  BY <1>8 DEF BuiltFrom
<1> DEFINE N == NewItems(new)
           newAt == FirstVals(N)
           u == NewPoints(new, s, from)
<1>13. ItemsHold(N, entries) /\ Lie(N, newAt, nrows, ncols)
       /\ u = InRows(t, N, newAt, nrows, ncols)
  <2>1. /\ t \in IterOrders /\ Lie(items, FirstVals(items), nrows, ncols)
        /\ PointsOf(s, t, items, nrows, ncols) /\ IsSeq(new) /\ HoldsAllPoints(new, s, from, to)
    BY Zenon, <1>2, <1>4, <1>11, <1>12 DEF at
  <2> HIDE DEF new
  <2> QED
    BY ONLY <2>1, ItemsHold(items, entries), NewItemsLie
<1>14. Stream(u) /\ Rising(u)
  <2> HIDE DEF u, N, newAt
  <2> QED
    BY <1>2, <1>13, InRowsIs DEF Stream
<1>15. IsSeq(u) /\ Len(u) = Len(new)
  <2>1. u = [k \in 1..Len(new) |-> u[k]]
    BY DEF NewPoints
  <2> HIDE DEF u, new
  <2> QED
    BY <1>12, <2>1, FunctionIs DEF IsSeq
<1>16. ASSUME NEW k \in 1..Len(u)
       PROVE  /\ u[k].y = y[k] /\ new[k] = [x |-> u[k].x, item |-> u[k].item]
              /\ y[k] \in 1..R /\ end[y[k] - 1] < k /\ k <= end[y[k]]
  <2>0. k \in 1..Len(new)
    BY <1>15
  <2> DEFINE e == new[k]
             x == new[k].x
             it == new[k].item
             r == s[from[k]].y
             p == u[k]
  <2>1. p = [y |-> r, x |-> x, item |-> it]
    BY <2>0 DEF NewPoints
  <2>2. p.y = r /\ p.x = x /\ p.item = it
    <3> HIDE DEF p, r, x, it
    <3> QED
      BY <2>1
  <2>3. from[k] \in from[k]..to[k] /\ HoldsPoints(e, s, from[k], to[k])
    <3>1. from[k] \in 1..Len(s) /\ to[k] \in from[k]..Len(s) /\ HoldsPoints(e, s, from[k], to[k])
      BY Zenon, <1>11, <2>0 DEF HoldsAllPoints, Stretches
    <3> HIDE DEF e
    <3> QED
      BY <3>1
  <2>4. r = y[k]
    BY Zenon, <1>10, <2>0, <2>3 DEF StandsForPoints
  <2>5. e = [x |-> x, item |-> it]
    <3> DEFINE a == s[from[k]].x
    <3>1. e = [x |-> a, item |-> it]
      BY Zenon, <2>3 DEF HoldsPoints
    <3> HIDE DEF e, a
    <3>2. e.x = a
      BY <3>1
    <3>3. x = a
      BY Zenon, <3>2 DEF e
    <3> QED
      BY Zenon, <3>1, <3>3
  <2>6. y[k] \in 1..R /\ end[y[k] - 1] < k /\ k <= end[y[k]]
    <3>1. k \in 1..end[R]
      BY <1>12, <2>0
    <3> QED
      BY Zenon, <1>8, <3>1 DEF BuiltFrom
  <2> QED
    BY Zenon, <2>2, <2>4, <2>5, <2>6
<1>17. Holds(m, u, n)
  <2>1. n \in Pos /\ n = R + 1
    <3> HIDE DEF R
    <3> QED
      BY <1>5, <1>6 DEF Pos
  <2>2. new = [k \in 1..Len(u) |-> [x |-> u[k].x, item |-> u[k].item]]
    <3>1. new = [k \in 1..Len(u) |-> new[k]]
      BY Zenon, <1>12, <1>15 DEF IsSeq
    <3> HIDE DEF new, u
    <3> QED
      BY Zenon, <1>16, <3>1
  <2>3. \A i \in 1..(R + 1) : Count(u, i) = end[i - 1]
    <3>1. \A k \in 1..Len(u) : u[k].y \in 1..R /\ end[u[k].y - 1] < k /\ k <= end[u[k].y]
      BY Zenon, <1>16
    <3>2. Len(u) = end[R]
      BY Zenon, <1>12, <1>15
    <3>3. Len(rows) \in Nat
      BY <1>6
    <3> HIDE DEF u
    <3> QED
      BY ONLY <1>8, <1>14, <3>1, <3>2, <3>3, EndsArePointers
  <2>4. m.rowptr = Pointers(u, n)
    <3>1. m.rowptr = [i \in 1..(R + 1) |-> end[i - 1]]
      BY Zenon, <1>8 DEF BuiltFrom
    <3> HIDE DEF u, R
    <3> QED
      BY <2>1, <2>3, <3>1 DEF Pointers
  <2>5. \A k \in 1..Len(u) : u[k].y \in 1..(n - 1)
    <3>1. \A k \in 1..Len(u) : u[k].y \in 1..R
      BY Zenon, <1>16
    <3> QED
      BY Zenon, <1>5, <3>1
  <2> HIDE DEF u
  <2> QED
    BY Zenon, <2>1, <2>2, <2>4, <2>5 DEF Holds
<1>18. Keeps(m, N, newAt)
  <2>1. n \in 1..(m.nrRows + m.nrCols + 1) /\ (m.type = HORIZONTAL => n <= m.nrRows + 1)
    BY Zenon, <1>1, <1>9 DEF t, nrows, ncols
  <2>2. Holds(m, InRows(m.type, N, newAt, m.nrRows, m.nrCols), n)
    BY Zenon, <1>9, <1>13, <1>17
  <2>3. m.type \in IterOrders /\ Lie(N, newAt, m.nrRows, m.nrCols)
    BY Zenon, <1>2, <1>9, <1>13
  <2> QED
    BY Zenon, <2>1, <2>2, <2>3 DEF Keeps
<1> QED
  BY Zenon, <1>13, <1>18 DEF m

\* Encoding a part keeps its entries, whatever the order and the distances.
LEMMA EncodedPart ==
  ASSUME NEW m, NEW entries, PartIs(m, entries), NEW t \in Orders, NEW deltas \in DeltaChoices,
         NEW splitBlocks
  PROVE  PartIs(Encoded(m, t, deltas, splitBlocks), entries)
<1> DEFINE w == Transformed(m, t)
           rows == [i \in 1..GetNrRows(w) |-> EncodeRow(Row(w, i), deltas, t, splitBlocks)]
           v == Rebuilt(w, rows)
           r == Transformed(v, m.type)
<1>1. t \in IterOrders /\ IsBlockType(t) <= MaxLimit /\ deltas \in SUBSET Pos
  BY OrdersAssumption, DeltasAssumption DEF Pos
<1>2. Has(m, MatrixFields) /\ m.type = HORIZONTAL /\ HORIZONTAL \in IterOrders
  BY DEF PartIs, IterOrders
<1>3. PICK items : ItemsHold(items, entries) /\ Keeps(m, items, FirstVals(items))
  BY DEF PartIs
<1> DEFINE at == FirstVals(items)
           s == InRows(t, items, at, w.nrRows, w.nrCols)
<1>4. Keeps(w, items, at) /\ Has(w, MatrixFields) /\ w.type = t
  <2> HIDE DEF at
  <2>1. MatrixFields \subseteq MatrixFields /\ Keeps(m, items, at)
    BY <1>3 DEF at
  <2> QED
    BY ONLY <1>1, <1>2, <2>1, TransformedKeeps
<1>5. Encoded(m, t, deltas, splitBlocks) = r
  BY DEF Encoded
<1> HIDE DEF w, at
<1>6. PICK n \in 1..(w.nrRows + w.nrCols + 1) : Holds(w, s, n)
  BY Zenon, <1>4 DEF Keeps
<1>7. Lie(items, at, w.nrRows, w.nrCols)
  BY Zenon, <1>4 DEF Keeps
<1>8. Stream(s)
  <2>1. s = InRows(t, items, at, w.nrRows, w.nrCols)
    OBVIOUS
  <2> HIDE DEF s
  <2> QED
    BY <1>1, <1>7, <2>1, InRowsIs
<1> HIDE DEF s
<1>9. GetNrRows(w) = n - 1 /\ n \in Pos /\ \A i \in 1..(n - 1) : RowIs(Row(w, i), s, i)
  BY <1>6, <1>8, RowOfHeld
<1>10. GetNrRows(w) \in Nat
  BY <1>9 DEF Pos
<1>11. IsSeq(rows) /\ Len(rows) = GetNrRows(w)
  <2>1. rows = [i \in 1..GetNrRows(w) |-> rows[i]]
    OBVIOUS
  <2> HIDE DEF rows
  <2> QED
    BY <1>10, <2>1, FunctionIs
<1>12. RowsStand(rows, t, s)
  <2>1. ASSUME NEW i \in 1..Len(rows)
        PROVE  \E old : RowIs(old, s, i) /\ Covers(rows[i], t, old, 1, Len(old))
    <3> DEFINE old == Row(w, i)
    <3>1. i \in 1..GetNrRows(w) /\ i \in 1..(n - 1)
      BY <1>9, <1>11
    <3>2. RowIs(old, s, i)
      BY Zenon, <1>9, <3>1
    <3>3. rows[i] = EncodeRow(old, deltas, t, splitBlocks)
      BY Zenon, <3>1
    <3> HIDE DEF rows, old
    <3>4. HasColumns(old)
      BY Zenon, <1>8, <3>2, RowHasColumns
    <3>5. Covers(EncodeRow(old, deltas, t, splitBlocks), t, old, 1, Len(old))
      BY Zenon, <1>1, <3>4, EncodeRowCovers
    <3> QED
      BY <3>2, <3>3, <3>5
  <2> HIDE DEF rows
  <2> QED
    BY Zenon, <1>11, <2>1 DEF RowsStand
<1>13. PICK N : ItemsHold(N, entries) /\ Keeps(v, N, FirstVals(N))
  <2>1. MatrixFields \subseteq MatrixFields /\ Len(rows) = GetNrRows(w)
        /\ Keeps(w, items, FirstVals(items))
        /\ RowsStand(rows, w.type, InRows(w.type, items, FirstVals(items), w.nrRows, w.nrCols))
    BY Zenon, <1>4, <1>11, <1>12 DEF s, at
  <2> HIDE DEF rows
  <2> QED
    BY ONLY <1>3, <1>4, <2>1, RebuiltKeeps
<1>14. Has(v, MatrixFields)
  <2>1. \A i \in 1..Len(rows) : Len(rows[i]) \in Nat
    BY Zenon, <1>12 DEF RowsStand, Covers, IsSeq
  <2>2. Len(rows) \in Nat /\ MatrixFields \subseteq MatrixFields
    BY <1>10, <1>11
  <2> HIDE DEF rows
  <2> QED
    BY ONLY <1>4, <2>1, <2>2, RebuiltIs
<1> HIDE DEF v
<1>15. Keeps(r, N, FirstVals(N)) /\ Has(r, MatrixFields) /\ r.type = HORIZONTAL
  <2>1. MatrixFields \subseteq MatrixFields /\ r = Transformed(v, HORIZONTAL)
    BY <1>2
  <2>2. Keeps(v, N, FirstVals(N))
    BY <1>13
  <2> HIDE DEF r
  <2> QED
    BY ONLY <1>2, <1>14, <2>1, <2>2, TransformedKeeps
<1> HIDE DEF r
<1> QED
  BY Zenon, <1>5, <1>13, <1>15 DEF PartIs

\* The matrix has the rows of the entries.
AsTall(m, entries) ==
  /\ GetNrRows(m) \in Nat /\ m.nrRows = GetNrRows(m)
  /\ \A e \in entries : e.y \in 1..GetNrRows(m)

\* A part as loaded has an element for each entry.
LEMMA LoadedIs ==
  ASSUME NEW entries, IsFiniteSet(entries), NEW cols \in Nat,
         \A e \in entries : e = [y |-> e.y, x |-> e.x] /\ e.y \in Pos /\ e.x \in 1..cols,
         NEW m, m = Loaded({[y |-> e.y, x |-> e.x, item |-> Item(e)] : e \in entries}, cols)
  PROVE  PartIs(m, entries) /\ AsTall(m, entries)
<1> DEFINE pts == {[y |-> e.y, x |-> e.x, item |-> Item(e)] : e \in entries}
           Pt(e) == [y |-> e.y, x |-> e.x, item |-> Item(e)]
           s == Sort(pts)
           n == NrPointers(s)
           items == {Item(e) : e \in entries}
           at == FirstVals(items)
<1>1. HORIZONTAL \in IterOrders /\ HORIZONTAL[1] = "HORIZONTAL"
  BY DEF IterOrders, HORIZONTAL
<1>2. \A e : /\ Item(e) = [pattern |-> NoPattern, vals |-> <<e>>]
             /\ Item(e).pattern = NoPattern /\ Item(e).vals = <<e>> /\ Item(e).vals[1] = e
             /\ Item(e).pattern.size = 1
  BY DEF Item, NoPattern
<1>3. ASSUME NEW e \in entries
      PROVE  /\ Pt(e).y = e.y /\ Pt(e).x = e.x /\ Pt(e).item = Item(e)
             /\ Pt(e) = [y |-> Pt(e).y, x |-> Pt(e).x, item |-> Pt(e).item]
             /\ e.y \in Int /\ e.x \in Int /\ e.y \in Pos
  BY DEF Pos
<1>4. pts = {Pt(e) : e \in entries}
  OBVIOUS
<1>5. \A e \in entries : e = [y |-> e.y, x |-> e.x]
  OBVIOUS
<1> HIDE DEF pts, Pt
<1>6. Apart(pts)
  <2>1. IsFiniteSet(pts)
    <3> DEFINE f == [e \in entries |-> Pt(e)]
    <3>1. f \in Surjection(entries, pts)
      BY <1>4 DEF Surjection
    <3> HIDE DEF f
    <3> QED
      BY <3>1, FS_Surjection
  <2>2. \A p \in pts : p.y \in Int /\ p.x \in Int
    BY <1>3, <1>4
  <2>3. ASSUME NEW p \in pts, NEW q \in pts, p.y = q.y, p.x = q.x PROVE p = q
    <3>1. PICK d \in entries : p = Pt(d)
      BY <1>4
    <3>2. PICK e \in entries : q = Pt(e)
      BY <1>4
    <3>3. d.y = e.y /\ d.x = e.x
      BY <1>3, <2>3, <3>1, <3>2
    <3>4. d = [y |-> d.y, x |-> d.x] /\ e = [y |-> e.y, x |-> e.x]
      BY <1>5
    <3>5. d = e
      BY ONLY <3>3, <3>4
    <3> QED
      BY <3>1, <3>2, <3>5
  <2> QED
    BY Zenon, <2>1, <2>2, <2>3 DEF Apart
<1>7. InOrder(s, pts)
  BY <1>6, SortIs
<1> HIDE DEF s
<1>8. /\ Rising(s) /\ \A k \in 1..Len(s) : s[k] \in pts
      /\ \A p \in pts : \E k \in 1..Len(s) : s[k] = p
  BY Zenon, <1>7 DEF InOrder
<1>9. \A k \in 1..Len(s) : /\ s[k] = [y |-> s[k].y, x |-> s[k].x, item |-> s[k].item]
                           /\ s[k].y \in Pos
  <2> TAKE k \in 1..Len(s)
  <2>1. PICK e \in entries : s[k] = Pt(e)
    BY <1>4, <1>8
  <2>2. s[k].y \in Pos
    BY <1>3, <2>1
  <2>3. s[k] = [y |-> s[k].y, x |-> s[k].x, item |-> s[k].item]
    BY Zenon, <1>3, <2>1
  <2> QED
    BY <2>2, <2>3
<1>10. Stream(s)
  BY Zenon, <1>8, <1>9 DEF Stream
<1>11. /\ m.type = HORIZONTAL /\ m.rowptr = RowPtrOf(s, 1) /\ m.elems = ElemsOf(s)
       /\ m.nrRows = Len(m.rowptr) - 1 /\ m.nrCols = cols /\ Has(m, MatrixFields)
  <2>1. m = Loaded(pts, cols)
    BY DEF pts
  <2> QED
    BY <2>1 DEF s, Loaded, Has, MatrixFields
<1> HIDE DEF n
<1>12. Holds(m, s, n)
  <2>1. \A k \in 1..Len(s) : s[k].y \in Pos
    BY <1>9
  <2> QED
    BY <1>10, <1>11, <2>1, BuiltHolds DEF n
<1>13. n \in Nat /\ n >= 1 /\ Len(m.rowptr) = n
  BY <1>12 DEF Holds, Pointers, Pos
<1>14. m.nrRows = n - 1 /\ n - 1 \in Nat /\ m.nrCols \in Nat
  BY <1>11, <1>13
<1>15. \A e \in entries : Item(e) \in items /\ at[Item(e)] = e
  BY <1>2 DEF FirstVals
<1>16. \A a \in items : \E e \in entries : a = Item(e)
  OBVIOUS
<1> HIDE DEF items, at
<1>17. Lie(items, at, n - 1, cols)
  <2>1. IsFiniteSet(items)
    <3> DEFINE f == [e \in entries |-> Item(e)]
    <3>1. f \in Surjection(entries, items)
      BY DEF Surjection, items
    <3> HIDE DEF f
    <3> QED
      BY <3>1, FS_Surjection
  <2>2. ASSUME NEW a \in items PROVE at[a] \in [y : 1..(n - 1), x : 1..cols]
    <3>1. PICK e \in entries : a = Item(e)
      BY <1>16
    <3>2. at[a] = e
      BY <1>15, <3>1
    <3>3. e.y \in 1..(n - 1)
      <4>1. Pt(e) \in pts
        BY <1>4
      <4>2. PICK k \in 1..Len(s) : s[k] = Pt(e)
        BY <1>8, <4>1
      <4>3. s[k].y \in 1..(n - 1)
        BY <1>12 DEF Holds
      <4> QED
        BY <1>3, <4>2, <4>3
    <3>4. e = [y |-> e.y, x |-> e.x] /\ e.x \in 1..cols
      BY <1>5
    <3> QED
      BY <3>2, <3>3, <3>4
  <2>3. ASSUME NEW a \in items, NEW b \in items, at[a] = at[b] PROVE a = b
    <3>1. PICK d \in entries : a = Item(d)
      BY <1>16
    <3>2. PICK e \in entries : b = Item(e)
      BY <1>16
    <3> QED
      BY <1>15, <2>3, <3>1, <3>2
  <2> QED
    BY Zenon, <1>14, <2>1, <2>2, <2>3 DEF Lie
<1>18. s = InRows(HORIZONTAL, items, at, n - 1, cols)
  <2> DEFINE N == n - 1
  <2>1. ASSUME NEW e \in entries PROVE Placed(HORIZONTAL, Item(e), at, N, cols) = Pt(e)
    <3> HIDE DEF N
    <3>1. Xform(HORIZONTAL, e, N, cols) = Point(e.y, e.x)
      BY <1>1 DEF Xform
    <3>2. Point(e.y, e.x).y = e.y /\ Point(e.y, e.x).x = e.x
      BY DEF Point
    <3>3. Placed(HORIZONTAL, Item(e), at, N, cols)
            = [y |-> Xform(HORIZONTAL, e, N, cols).y, x |-> Xform(HORIZONTAL, e, N, cols).x,
               item |-> Item(e)]
      BY Zenon, <1>15 DEF Placed
    <3> QED
      BY Zenon, <3>1, <3>2, <3>3 DEF Pt
  <2>2. AllPlaced(HORIZONTAL, items, at, N, cols) = pts
    <3> HIDE DEF N
    <3>1. AllPlaced(HORIZONTAL, items, at, N, cols)
            = {Placed(HORIZONTAL, a, at, N, cols) : a \in items}
      BY DEF AllPlaced
    <3>2. items = {Item(e) : e \in entries}
      BY DEF items
    <3>3. \A a \in items : Placed(HORIZONTAL, a, at, N, cols) \in pts
      BY <1>4, <1>16, <2>1
    <3>4. \A p \in pts : \E a \in items : p = Placed(HORIZONTAL, a, at, N, cols)
      BY <1>4, <1>15, <2>1
    <3> QED
      BY <3>1, <3>3, <3>4
  <2> QED
    BY Zenon, <2>2 DEF InRows, s
<1>19. Keeps(m, items, at)
  <2>1. Lie(items, at, m.nrRows, m.nrCols) /\ s = InRows(m.type, items, at, m.nrRows, m.nrCols)
    BY Zenon, <1>11, <1>14, <1>17, <1>18
  <2> QED
    BY <1>1, <1>11, <2>1, BuiltKeeps
<1>20. ItemsHold(items, entries)
  <2>1. ASSUME NEW e \in entries PROVE ItemIs(Item(e))
    <3> DEFINE u == Point(e.y, e.x)
    <3>1. u = e
      BY <1>5 DEF Point
    <3>2. NoPattern.size = 1 /\ 1 \in Pos
      BY DEF NoPattern, Pos
    <3>3. Reached(NoPattern, e) = [j \in 1..1 |-> e]
      <4> HIDE DEF u
      <4>1. Reached(NoPattern, e)
              = [j \in 1..NoPattern.size |-> IF NoPattern = NoPattern THEN u
                   ELSE Along(NoPattern.order, u, (j - 1) * NoPattern.delta)]
        BY Zenon DEF Reached, u
      <4> QED
        BY Zenon, <3>1, <3>2, <4>1
    <3>4. <<e>> = [j \in 1..1 |-> e]
      OBVIOUS
    <3> DEFINE i == Item(e)
    <3>5. i = [pattern |-> i.pattern, vals |-> i.vals] /\ i.pattern = NoPattern /\ i.vals = <<e>>
          /\ i.vals[1] = e
      BY Zenon, <1>2
    <3> HIDE DEF i
    <3>6. i.vals = Reached(i.pattern, i.vals[1])
      BY Zenon, <3>3, <3>4, <3>5
    <3>7. i.pattern.size \in Pos /\ i.vals[1] = Point(i.vals[1].y, i.vals[1].x)
      BY Zenon, <3>1, <3>2, <3>5
    <3> QED
      BY Zenon, <3>5, <3>6, <3>7 DEF ItemIs, PatternIs, i
  <2>2. 1..1 = {1}
    OBVIOUS
  <2>3. ASSUME NEW a \in items PROVE ItemIs(a)
    BY <1>16, <2>1
  <2>4. ASSUME NEW a \in items, NEW j \in 1..a.pattern.size PROVE a.vals[j] \in entries
    <3>1. PICK e \in entries : a = Item(e)
      BY <1>16
    <3>2. j = 1 /\ a.vals[1] = e
      BY <1>2, <3>1
    <3> QED
      BY <3>2
  <2>5. ASSUME NEW e \in entries PROVE \E a \in items : \E j \in 1..a.pattern.size : a.vals[j] = e
    BY <1>2, <1>15, <2>2
  <2>6. ASSUME NEW a \in items, NEW b \in items, NEW i \in 1..a.pattern.size,
               NEW j \in 1..b.pattern.size, a.vals[i] = b.vals[j]
        PROVE  a = b /\ i = j
    <3>1. PICK d \in entries : a = Item(d)
      BY <1>16
    <3>2. PICK e \in entries : b = Item(e)
      BY <1>16
    <3>3. i = 1 /\ j = 1 /\ a.vals[1] = d /\ b.vals[1] = e
      BY <1>2, <3>1, <3>2
    <3> QED
      BY <2>6, <3>1, <3>2, <3>3
  <2>7. /\ \A a \in items : ItemIs(a)
        /\ \A a \in items : \A j \in 1..a.pattern.size : a.vals[j] \in entries
        /\ \A e \in entries : \E a \in items : \E j \in 1..a.pattern.size : a.vals[j] = e
        /\ \A a, b \in items : \A i \in 1..a.pattern.size, j \in 1..b.pattern.size :
             a.vals[i] = b.vals[j] => a = b /\ i = j
    BY Zenon, <2>3, <2>4, <2>5, <2>6
  <2> QED
    BY Zenon, <2>7 DEF ItemsHold
<1>21. AsTall(m, entries)
  <2>1. \A a \in items : at[a] \in [y : 1..(n - 1), x : 1..cols]
    BY Zenon, <1>17 DEF Lie
  <2>2. \A e \in entries : e \in [y : 1..(n - 1), x : 1..cols]
    BY Zenon, <1>15, <2>1
  <2>3. \A e \in entries : e.y \in 1..(n - 1)
    BY <2>2
  <2>4. GetNrRows(m) = n - 1
    BY <1>13 DEF GetNrRows
  <2> QED
    BY Zenon, <1>14, <2>3, <2>4 DEF AsTall
<1> QED
  BY Zenon, <1>11, <1>19, <1>20, <1>21 DEF PartIs, at

\* The entries of each part: those before the thread's rows and those of its rows.
SharesOf(in) ==
  IF in.symmetric
    THEN <<{e \in in.entries : e.x < in.rowStart + 1}, {e \in in.entries : e.x >= in.rowStart + 1}>>
    ELSE <<in.entries>>

PartsInv ==
  /\ input \in Inputs
  /\ parts = [i \in DOMAIN SharesOf(input) |-> parts[i]]
  /\ \A i \in DOMAIN SharesOf(input) : PartIs(parts[i], SharesOf(input)[i])

\* Every entry is in the share of one part.
LEMMA SharesAre ==
  ASSUME NEW in \in Inputs
  PROVE  /\ \A i \in DOMAIN SharesOf(in) : /\ SharesOf(in)[i] \subseteq in.entries
                                           /\ IsFiniteSet(SharesOf(in)[i])
         /\ \A e \in in.entries : \E i \in DOMAIN SharesOf(in) : e \in SharesOf(in)[i]
         /\ \A i, j \in DOMAIN SharesOf(in) : \A e \in SharesOf(in)[i] \cap SharesOf(in)[j] : i = j
         /\ in.symmetric => DOMAIN SharesOf(in) = 1..2
         /\ ~in.symmetric => DOMAIN SharesOf(in) = 1..1
         /\ in.symmetric \in BOOLEAN /\ in.cols \in Nat /\ IsFiniteSet(in.entries)
         /\ \A e \in in.entries : e = [y |-> e.y, x |-> e.x] /\ e.y \in Pos /\ e.x \in 1..in.cols
<1>1. /\ in.cols \in Nat /\ in.rowStart \in Nat /\ in.symmetric \in BOOLEAN
      /\ IsFiniteSet(in.entries)
      /\ \A e \in in.entries : e = [y |-> e.y, x |-> e.x] /\ e.y \in Pos /\ e.x \in 1..in.cols
  BY InputsAssumption DEF Pos
<1> DEFINE A == {e \in in.entries : e.x < in.rowStart + 1}
           B == {e \in in.entries : e.x >= in.rowStart + 1}
           r == in.rowStart + 1
<1>2. \A e \in in.entries : (e \in A <=> e.x < r) /\ (e \in B <=> e.x >= r)
  OBVIOUS
<1>3. A \subseteq in.entries /\ B \subseteq in.entries /\ IsFiniteSet(A) /\ IsFiniteSet(B)
  <2>1. A \subseteq in.entries /\ B \subseteq in.entries
    OBVIOUS
  <2> HIDE DEF A, B
  <2> QED
    BY <1>1, <2>1, FS_Subset
<1>4. \A e \in in.entries : e.x \in Int /\ r \in Int
  BY <1>1
<1> HIDE DEF r
<1>5. \A e \in in.entries : (e \in A \/ e \in B) /\ ~(e \in A /\ e \in B)
  <2> HIDE DEF A, B
  <2> QED
    BY <1>2, <1>4
<1>6. CASE in.symmetric
  <2>1. SharesOf(in) = <<A, B>>
    BY <1>6 DEF SharesOf
  <2> HIDE DEF A, B
  <2>2. DOMAIN SharesOf(in) = 1..2 /\ SharesOf(in)[1] = A /\ SharesOf(in)[2] = B
    BY <2>1
  <2>3. 1..2 = {1, 2}
    OBVIOUS
  <2> QED
    BY <1>1, <1>3, <1>5, <1>6, <2>2, <2>3
<1>7. CASE ~in.symmetric
  <2>1. SharesOf(in) = <<in.entries>>
    BY <1>7 DEF SharesOf
  <2>2. DOMAIN SharesOf(in) = 1..1 /\ SharesOf(in)[1] = in.entries
    BY <2>1
  <2>3. 1..1 = {1}
    OBVIOUS
  <2> QED
    BY <1>1, <1>7, <2>2, <2>3
<1> QED
  BY <1>6, <1>7

\* Each part is loaded with its share.
LEMMA PartsInit == Init => PartsInv
<1> SUFFICES ASSUME Init PROVE PartsInv
  OBVIOUS
<1> DEFINE S == SharesOf(input)
<1>1. input \in Inputs
  BY DEF Init
<1>2. ASSUME NEW E, E \subseteq input.entries, IsFiniteSet(E) PROVE PartIs(LoadedPart(E), E)
  <2>1. input.cols \in Nat
        /\ \A e \in E : e = [y |-> e.y, x |-> e.x] /\ e.y \in Pos /\ e.x \in 1..input.cols
    BY <1>1, <1>2, SharesAre
  <2> QED
    BY ONLY <1>2, <2>1, LoadedIs DEF LoadedPart
<1>3. /\ \A i \in DOMAIN S : S[i] \subseteq input.entries /\ IsFiniteSet(S[i])
      /\ input.symmetric => DOMAIN S = 1..2
      /\ ~input.symmetric => DOMAIN S = 1..1
      /\ input.symmetric \in BOOLEAN
  BY <1>1, SharesAre
<1>4. parts = [i \in DOMAIN S |-> LoadedPart(S[i])]
  <2>1. CASE input.symmetric
    <3> DEFINE A == {e \in input.entries : e.x < input.rowStart + 1}
               B == {e \in input.entries : e.x >= input.rowStart + 1}
    <3>1. parts = <<LoadedPart(A), LoadedPart(B)>> /\ S = <<A, B>>
      BY <2>1 DEF Init, DivideMatrix, SharesOf
    <3> HIDE DEF A, B, S
    <3>2. DOMAIN S = 1..2 /\ S[1] = A /\ S[2] = B
      BY <3>1
    <3> DEFINE L(i) == LoadedPart(S[i])
    <3>3. L(1) = LoadedPart(A) /\ L(2) = LoadedPart(B)
      BY Zenon, <3>2
    <3> HIDE DEF L
    <3>4. parts = <<L(1), L(2)>>
      BY <3>1, <3>3
    <3>5. parts = [i \in 1..2 |-> L(i)]
      BY <3>4
    <3> QED
      BY Zenon, <3>2, <3>5 DEF L
  <2>2. CASE ~input.symmetric
    <3>1. parts = <<LoadedPart(input.entries)>> /\ S = <<input.entries>>
      BY Zenon, <2>2 DEF Init, SharesOf, Original
    <3> HIDE DEF S
    <3>2. DOMAIN S = 1..1 /\ S[1] = input.entries
      BY <3>1
    <3> DEFINE L(i) == LoadedPart(S[i])
    <3>3. L(1) = LoadedPart(input.entries)
      BY Zenon, <3>2
    <3> HIDE DEF L
    <3>4. parts = <<L(1)>>
      BY <3>1, <3>3
    <3>5. parts = [i \in 1..1 |-> L(i)]
      BY <3>4
    <3> QED
      BY Zenon, <3>2, <3>5 DEF L
  <2> QED
    BY <1>3, <2>1, <2>2
<1> HIDE DEF S
<1>5. parts = [i \in DOMAIN S |-> parts[i]] /\ \A i \in DOMAIN S : parts[i] = LoadedPart(S[i])
  BY <1>4
<1>6. \A i \in DOMAIN S : PartIs(parts[i], S[i])
  BY Zenon, <1>2, <1>3, <1>5
<1> QED
  BY Zenon, <1>1, <1>5, <1>6 DEF PartsInv, S

\* An encoding changes one part; nothing else changes any.
LEMMA PartsNext == PartsInv /\ [Next]_vars => PartsInv'
<1> SUFFICES ASSUME PartsInv, [Next]_vars PROVE PartsInv'
  OBVIOUS
<1> DEFINE S == SharesOf(input)
<1>1. /\ input \in Inputs /\ parts = [i \in DOMAIN S |-> parts[i]]
      /\ \A i \in DOMAIN S : PartIs(parts[i], S[i])
  BY DEF PartsInv
<1>2. ASSUME NEW i \in DOMAIN parts, NEW t \in Orders, NEW deltas \in DeltaChoices,
             Encode(i, t, deltas)
      PROVE  PartsInv'
  <2> DEFINE new == Encoded(parts[i], t, deltas, split)
  <2>1. parts' = [parts EXCEPT ![i] = new] /\ input' = input
    BY <1>2 DEF Encode
  <2> HIDE DEF S
  <2>2. i \in DOMAIN S /\ DOMAIN parts = DOMAIN S
    BY <1>1
  <2>3. PartIs(new, S[i])
    BY <1>1, <2>2, EncodedPart
  <2> HIDE DEF new
  <2>4. /\ parts' = [j \in DOMAIN S |-> parts'[j]]
        /\ \A j \in DOMAIN S : parts'[j] = IF j = i THEN new ELSE parts[j]
    BY <1>1, <2>1, <2>2
  <2>5. \A j \in DOMAIN S : PartIs(parts'[j], S[j])
    BY <1>1, <2>3, <2>4
  <2>6. SharesOf(input') = S
    BY <2>1 DEF S
  <2> QED
    BY <1>1, <2>1, <2>4, <2>5, <2>6 DEF PartsInv
<1>3. ASSUME parts' = parts, input' = input PROVE PartsInv'
  BY Zenon, <1>3 DEF PartsInv
<1>4. CASE \E fullIndices \in BOOLEAN : StartMake(fullIndices)
  BY <1>3, <1>4 DEF StartMake
<1>5. CASE WriteRow
  BY <1>3, <1>5 DEF WriteRow
<1>6. CASE SkipRow
  BY <1>3, <1>6 DEF SkipRow
<1>7. CASE FinishMake
  BY <1>3, <1>7 DEF FinishMake
<1>8. CASE ExecUnit
  BY <1>3, <1>8 DEF ExecUnit
<1>9. CASE FinishKernel
  BY <1>3, <1>9 DEF FinishKernel
<1>10. CASE UNCHANGED vars
  BY <1>3, <1>10 DEF vars
<1>11. CASE \E i \in DOMAIN parts, t \in Orders, deltas \in DeltaChoices : Encode(i, t, deltas)
  BY <1>2, <1>11
<1> QED
  BY <1>4, <1>5, <1>6, <1>7, <1>8, <1>9, <1>10, <1>11 DEF Next, Finished

\* The points of a part reach what their values are.
LEMMA PartReaches ==
  ASSUME NEW m, NEW entries, NEW items, Has(m, MatrixFields), m.type = HORIZONTAL,
         ItemsHold(items, entries), Keeps(m, items, FirstVals(items))
  PROVE  /\ \A e \in ToSet(Points(m)) : e.item.vals = Reached(e.item.pattern, e)
         /\ DOMAIN m.elems = 1..Len(m.elems)
         /\ \A k \in DOMAIN m.elems : m.elems[k].item \in items
         /\ \A it \in items : \E k \in DOMAIN m.elems : m.elems[k].item = it
         /\ \A j, k \in DOMAIN m.elems : m.elems[j].item = m.elems[k].item => j = k
<1> DEFINE at == FirstVals(items)
           s == InRows(m.type, items, at, m.nrRows, m.nrCols)
<1>1. HORIZONTAL \in IterOrders /\ Lie(items, at, m.nrRows, m.nrCols) /\ Points(m) = s
  BY KeptPoints DEF Keeps
<1>2. HasElems(m, items, s)
  BY Zenon, KeptElems
<1>3. s = InRows(HORIZONTAL, items, at, m.nrRows, m.nrCols)
  OBVIOUS
<1> HIDE DEF s
<1>4. /\ Stream(s) /\ \A k \in 1..Len(s) : s[k].item \in items
      /\ \A it \in items : \E k \in 1..Len(s) : s[k].item = it
      /\ \A j, k \in 1..Len(s) : s[j].item = s[k].item => j = k
      /\ \A k \in 1..Len(s) : s[k].y = at[s[k].item].y /\ s[k].x = at[s[k].item].x
  <2> HIDE DEF at
  <2> QED
    BY <1>1, <1>3, InRowsIs
<1>5. s = [k \in 1..Len(s) |-> s[k]]
  BY <1>4 DEF Stream, Rising
<1>6. ASSUME NEW e \in ToSet(Points(m)) PROVE e.item.vals = Reached(e.item.pattern, e)
  <2>1. PICK k \in 1..Len(s) : e = s[k]
    BY <1>1, <1>5 DEF ToSet
  <2> DEFINE it == e.item
  <2>2. it \in items /\ e.y = at[it].y /\ e.x = at[it].x
    BY <1>4, <2>1
  <2> HIDE DEF it
  <2>3. at[it] = it.vals[1]
    BY <2>2 DEF FirstVals
  <2>4. it.vals = Reached(it.pattern, it.vals[1])
    BY <2>2 DEF ItemsHold, ItemIs
  <2> DEFINE p == it.pattern
             a == it.vals[1]
  <2>5. a.y = e.y /\ a.x = e.x
    BY <2>2, <2>3
  <2> HIDE DEF p, a
  <2>6. Reached(p, a) = Reached(p, e)
    BY <2>5, ReachedFrom
  <2> QED
    BY Zenon, <2>4, <2>6 DEF p, a, it
<1>7. m.elems = [k \in 1..Len(s) |-> m.elems[k]] /\ Len(m.elems) = Len(s)
      /\ \A k \in 1..Len(s) : m.elems[k].item = s[k].item
  BY <1>2 DEF HasElems
<1>8. DOMAIN m.elems = 1..Len(s)
  BY <1>7
<1> DEFINE D == DOMAIN m.elems
           it(k) == m.elems[k].item
<1>9. D = 1..Len(s) /\ D = 1..Len(m.elems) /\ \A k \in 1..Len(s) : it(k) = s[k].item
  BY Zenon, <1>7, <1>8
<1> HIDE DEF D, it
<1>10. /\ \A k \in D : it(k) \in items
       /\ \A a \in items : \E k \in D : it(k) = a
       /\ \A j, k \in D : it(j) = it(k) => j = k
  BY <1>4, <1>9
<1> QED
  BY Zenon, <1>6, <1>9, <1>10 DEF D, it

\* Where the entries are held by the parts (the triples of the property).
LEMMA PartsReach == PartsInv => PatternsReachTheirEntries
<1> SUFFICES ASSUME PartsInv PROVE PatternsReachTheirEntries
  OBVIOUS
<1> DEFINE S == SharesOf(input)
           D == DOMAIN parts
           F(i) == DOMAIN parts[i].elems
           it(i, k) == parts[i].elems[k].item
           J(i, k) == DOMAIN parts[i].elems[k].item.vals
           PlacesOf(i, k) == {<<i, k, j>> : j \in J(i, k)}
           Places == UNION {UNION {PlacesOf(i, k) : k \in F(i)} : i \in D}
           entry == [p \in Places |-> parts[p[1]].elems[p[2]].item.vals[p[3]]]
<1>1. /\ input \in Inputs /\ parts = [i \in DOMAIN S |-> parts[i]]
      /\ \A i \in DOMAIN S : PartIs(parts[i], S[i])
  BY DEF PartsInv
<1>2. /\ \A i \in DOMAIN S : S[i] \subseteq input.entries
      /\ \A e \in input.entries : \E i \in DOMAIN S : e \in S[i]
      /\ \A i, j \in DOMAIN S : \A e \in S[i] \cap S[j] : i = j
  BY <1>1, SharesAre
<1> HIDE DEF S
<1>3. D = DOMAIN S
  BY <1>1
<1> HIDE DEF D
<1>4. ASSUME NEW i \in D
      PROVE  /\ \A e \in ToSet(Points(parts[i])) : e.item.vals = Reached(e.item.pattern, e)
             /\ \A k \in F(i) : \A j \in J(i, k) : it(i, k).vals[j] \in S[i]
             /\ \A e \in S[i] : \E k \in F(i) : \E j \in J(i, k) : it(i, k).vals[j] = e
             /\ \A k, m \in F(i) : \A j \in J(i, k), n \in J(i, m) :
                  it(i, k).vals[j] = it(i, m).vals[n] => k = m /\ j = n
  <2> DEFINE m == parts[i]
             E == S[i]
  <2>1. PartIs(m, E)
    BY <1>1, <1>3
  <2> HIDE DEF m, E
  <2>2. PICK items : ItemsHold(items, E) /\ Keeps(m, items, FirstVals(items))
    BY <2>1 DEF PartIs
  <2>3. Has(m, MatrixFields) /\ m.type = HORIZONTAL
    BY <2>1 DEF PartIs
  <2> DEFINE f(k) == m.elems[k].item
             K == DOMAIN m.elems
  <2>4. /\ \A e \in ToSet(Points(m)) : e.item.vals = Reached(e.item.pattern, e)
        /\ \A k \in K : f(k) \in items
        /\ \A a \in items : \E k \in K : f(k) = a
        /\ \A j, k \in K : f(j) = f(k) => j = k
    BY Zenon, <2>2, <2>3, PartReaches
  <2> HIDE DEF f, K
  <2>5. ASSUME NEW a \in items PROVE DOMAIN a.vals = 1..a.pattern.size
    <3>1. a.vals = Reached(a.pattern, a.vals[1])
      BY <2>2 DEF ItemsHold, ItemIs
    <3> DEFINE p == a.pattern
               v == a.vals[1]
    <3> HIDE DEF p, v
    <3>2. DOMAIN Reached(p, v) = 1..p.size
      BY DEF Reached
    <3> QED
      BY Zenon, <3>1, <3>2 DEF p, v
  <2>6. /\ \A a \in items : \A j \in DOMAIN a.vals : a.vals[j] \in E
        /\ \A e \in E : \E a \in items : \E j \in DOMAIN a.vals : a.vals[j] = e
        /\ \A a, b \in items : \A j \in DOMAIN a.vals, n \in DOMAIN b.vals :
             a.vals[j] = b.vals[n] => a = b /\ j = n
    <3>1. /\ \A a \in items : \A j \in 1..a.pattern.size : a.vals[j] \in E
          /\ \A e \in E : \E a \in items : \E j \in 1..a.pattern.size : a.vals[j] = e
          /\ \A a, b \in items : \A j \in 1..a.pattern.size, n \in 1..b.pattern.size :
               a.vals[j] = b.vals[n] => a = b /\ j = n
      BY Zenon, <2>2 DEF ItemsHold
    <3>2. \A a \in items : \A j \in DOMAIN a.vals : a.vals[j] \in E
      BY <2>5, <3>1
    <3>3. ASSUME NEW e \in E PROVE \E a \in items : \E j \in DOMAIN a.vals : a.vals[j] = e
      <4>1. PICK a \in items : \E j \in 1..a.pattern.size : a.vals[j] = e
        BY <3>1
      <4>2. PICK j \in 1..a.pattern.size : a.vals[j] = e
        BY <4>1
      <4>3. j \in DOMAIN a.vals
        BY <2>5
      <4> QED
        BY <4>2, <4>3
    <3>4. ASSUME NEW a \in items, NEW b \in items,
                 NEW j \in DOMAIN a.vals, NEW n \in DOMAIN b.vals, a.vals[j] = b.vals[n]
          PROVE  a = b /\ j = n
      <4>1. j \in 1..a.pattern.size /\ n \in 1..b.pattern.size
        BY <2>5
      <4> QED
        BY <3>1, <3>4, <4>1
    <3> QED
      BY <3>2, <3>3, <3>4
  <2>7. \A k \in K : \A j \in DOMAIN f(k).vals : f(k).vals[j] \in E
    BY <2>4, <2>6
  <2>8. \A e \in E : \E k \in K : \E j \in DOMAIN f(k).vals : f(k).vals[j] = e
    BY <2>4, <2>6
  <2>9. \A k, h \in K : \A j \in DOMAIN f(k).vals, n \in DOMAIN f(h).vals :
          f(k).vals[j] = f(h).vals[n] => k = h /\ j = n
    BY <2>4, <2>6
  <2> QED
    BY Zenon, <2>4, <2>7, <2>8, <2>9 DEF f, K, m, E
<1> DEFINE val(i, k, j) == parts[i].elems[k].item.vals[j]
<1>5. /\ \A i \in D : \A k \in F(i) : \A j \in J(i, k) : val(i, k, j) \in S[i]
      /\ \A i \in D : \A e \in S[i] : \E k \in F(i) : \E j \in J(i, k) : val(i, k, j) = e
      /\ \A i \in D : \A k, m \in F(i) : \A j \in J(i, k), n \in J(i, m) :
           val(i, k, j) = val(i, m, n) => k = m /\ j = n
  BY Zenon, <1>4
<1> HIDE DEF it
<1>6. ASSUME NEW p \in Places
      PROVE  \E i \in D : \E k \in F(i) : \E j \in J(i, k) :
               p = <<i, k, j>> /\ entry[p] = val(i, k, j)
  <2>1. PICK i \in D : p \in UNION {PlacesOf(i, k) : k \in F(i)}
    OBVIOUS
  <2>2. PICK k \in F(i) : p \in PlacesOf(i, k)
    BY <2>1
  <2>3. PICK j \in J(i, k) : p = <<i, k, j>>
    BY <2>2
  <2>4. p[1] = i /\ p[2] = k /\ p[3] = j
    BY <2>3
  <2>5. entry[p] = parts[p[1]].elems[p[2]].item.vals[p[3]]
    OBVIOUS
  <2>6. entry[p] = val(i, k, j)
    BY Zenon, <2>4, <2>5
  <2> HIDE DEF F, J, entry, val, Places
  <2> QED
    BY Zenon, <2>3, <2>6
<1>7. ASSUME NEW i \in D, NEW k \in F(i), NEW j \in J(i, k)
      PROVE  <<i, k, j>> \in Places /\ entry[<<i, k, j>>] = val(i, k, j)
  <2> DEFINE p == <<i, k, j>>
  <2>1. p \in PlacesOf(i, k)
    OBVIOUS
  <2>2. p[1] = i /\ p[2] = k /\ p[3] = j
    OBVIOUS
  <2> HIDE DEF p
  <2>3. p \in Places
    <3> HIDE DEF PlacesOf
    <3> QED
      BY <2>1
  <2>4. entry[p] = parts[p[1]].elems[p[2]].item.vals[p[3]]
    BY <2>3
  <2> HIDE DEF Places
  <2> QED
    BY Zenon, <2>2, <2>3, <2>4 DEF p
<1>8. DOMAIN entry = Places
  OBVIOUS
<1> HIDE DEF entry, Places, val, F, J
<1>9. IsInjective(entry)
  <2> SUFFICES ASSUME NEW p \in Places, NEW q \in Places, entry[p] = entry[q] PROVE p = q
    BY <1>8 DEF IsInjective
  <2>1. PICK i \in D : \E k \in F(i) : \E j \in J(i, k) :
          p = <<i, k, j>> /\ entry[p] = val(i, k, j)
    BY <1>6
  <2>2. PICK k \in F(i) : \E j \in J(i, k) : p = <<i, k, j>> /\ entry[p] = val(i, k, j)
    BY <2>1
  <2>3. PICK j \in J(i, k) : p = <<i, k, j>> /\ entry[p] = val(i, k, j)
    BY <2>2
  <2>4. PICK h \in D : \E m \in F(h) : \E n \in J(h, m) :
          q = <<h, m, n>> /\ entry[q] = val(h, m, n)
    BY <1>6
  <2>5. PICK m \in F(h) : \E n \in J(h, m) : q = <<h, m, n>> /\ entry[q] = val(h, m, n)
    BY <2>4
  <2>6. PICK n \in J(h, m) : q = <<h, m, n>> /\ entry[q] = val(h, m, n)
    BY <2>5
  <2>7. val(i, k, j) \in S[i] /\ val(h, m, n) \in S[h] /\ val(i, k, j) = val(h, m, n)
    BY <1>5, <2>3, <2>6
  <2>8. i = h
    BY <1>2, <1>3, <2>7
  <2>9. k = m /\ j = n
    BY <1>5, <2>7, <2>8
  <2> QED
    BY Zenon, <2>3, <2>6, <2>8, <2>9
<1>10. Range(entry) = input.entries
  <2>1. ASSUME NEW p \in Places PROVE entry[p] \in input.entries
    <3>1. PICK i \in D : \E k \in F(i) : \E j \in J(i, k) :
            p = <<i, k, j>> /\ entry[p] = val(i, k, j)
      BY <1>6
    <3>2. entry[p] \in S[i]
      BY <1>5, <3>1
    <3> QED
      BY <1>2, <1>3, <3>2
  <2>2. ASSUME NEW e \in input.entries PROVE \E p \in Places : entry[p] = e
    <3>1. PICK i \in D : e \in S[i]
      BY <1>2, <1>3
    <3>2. PICK k \in F(i) : \E j \in J(i, k) : val(i, k, j) = e
      BY <1>5, <3>1
    <3>3. PICK j \in J(i, k) : val(i, k, j) = e
      BY <3>2
    <3> QED
      BY <1>7, <3>3
  <2> QED
    BY <1>8, <2>1, <2>2 DEF Range
<1>11. \A i \in D : \A e \in ToSet(Points(parts[i])) : e.item.vals = Reached(e.item.pattern, e)
  BY <1>4
<1> QED
  BY Zenon, <1>9, <1>10, <1>11 DEF PatternsReachTheirEntries, D, entry, Places, F, J

\* Every value of a pattern is the entry the pattern reaches.
THEOREM EncodingKeepsEntries == Spec => []PatternsReachTheirEntries
<1>1. PartsInv /\ UNCHANGED vars => PartsInv'
  BY PartsNext
<1> QED
  BY PartsInit, PartsNext, PartsReach, PTL DEF Spec

-----------------------------------------------------------------------------
(***************************************************************************)
(* The array of bytes, and what a unit puts there.                         *)
(***************************************************************************)
\* d goes on where c ends.
Extends(d, c) ==
  IsSeq(c) /\ IsSeq(d) /\ Len(c) <= Len(d) /\ \A k \in 1..Len(c) : d[k] = c[k]

\* The bytes s are at this place.
HasBytes(c, at, s) ==
  IsSeq(s) /\ at + Len(s) - 1 <= Len(c) /\ \A k \in 1..Len(s) : c[at + k - 1] = s[k]

\* A growing array, and the manager's fields.
DaFields == {"elems", "room", "moves"}
DaIs(da) == Has(da, DaFields) /\ IsSeq(da.elems)

\* What is appended is there, behind what was there.
LEMMA AppendedHas ==
  ASSUME NEW c, IsSeq(c), NEW s, IsSeq(s)
  PROVE  Extends(c \o s, c) /\ HasBytes(c \o s, Len(c) + 1, s) /\ Len(c \o s) = Len(c) + Len(s)
<1>1. /\ IsSeq(c \o s) /\ Len(c \o s) = Len(c) + Len(s)
      /\ \A k \in 1..Len(c) : (c \o s)[k] = c[k]
      /\ \A k \in 1..Len(s) : (c \o s)[Len(c) + k] = s[k]
  BY ConcatIs
<1> DEFINE d == c \o s
<1> HIDE DEF d
<1>2. Len(c) \in Nat /\ Len(s) \in Nat
  BY DEF IsSeq
<1>3. \A k \in 1..Len(s) : d[(Len(c) + 1) + k - 1] = s[k]
  <2> TAKE k \in 1..Len(s)
  <2>1. (Len(c) + 1) + k - 1 = Len(c) + k
    BY <1>2
  <2> QED
    BY <1>1, <2>1 DEF d
<1>4. (Len(c) + 1) + Len(s) - 1 <= Len(d) /\ Len(c) <= Len(d)
  BY <1>1, <1>2 DEF d
<1>5. Extends(d, c)
  BY <1>1, <1>4 DEF Extends, d
<1>6. HasBytes(d, Len(c) + 1, s)
  BY <1>3, <1>4 DEF HasBytes
<1> QED
  BY <1>1, <1>5, <1>6 DEF d

\* Bytes stay where they are when the array grows.
LEMMA BytesStay ==
  ASSUME NEW d, NEW c, Extends(d, c), NEW at \in Pos, NEW s, HasBytes(c, at, s)
  PROVE  HasBytes(d, at, s)
<1>1. /\ IsSeq(s) /\ at + Len(s) - 1 <= Len(c) /\ Len(c) <= Len(d) /\ Len(s) \in Nat
      /\ Len(c) \in Nat /\ Len(d) \in Nat /\ at \in Nat /\ at >= 1
  BY DEF HasBytes, Extends, IsSeq, Pos
<1>2. at + Len(s) - 1 <= Len(d)
  BY <1>1
<1>3. \A k \in 1..Len(s) : d[at + k - 1] = s[k]
  <2> TAKE k \in 1..Len(s)
  <2>1. at + k - 1 \in 1..Len(c)
    BY <1>1
  <2>2. c[at + k - 1] = s[k]
    BY DEF HasBytes
  <2> QED
    BY <2>1, <2>2 DEF Extends
<1> QED
  BY <1>1, <1>2, <1>3 DEF HasBytes

\* Growing twice is growing.
LEMMA ExtendsOn ==
  ASSUME NEW c, NEW d, NEW e, Extends(d, c), Extends(e, d)
  PROVE  Extends(e, c)
<1>1. Len(c) \in Nat /\ Len(d) \in Nat /\ Len(e) \in Nat /\ Len(c) <= Len(d) /\ Len(d) <= Len(e)
  BY DEF Extends, IsSeq
<1>2. \A k \in 1..Len(c) : k \in 1..Len(d)
  BY <1>1
<1>3. \A k \in 1..Len(c) : e[k] = c[k]
  BY <1>2 DEF Extends
<1> QED
  BY <1>1, <1>3 DEF Extends

\* Not growing is growing by nothing.
LEMMA ExtendsSelf ==
  ASSUME NEW c, IsSeq(c)
  PROVE  Extends(c, c)
  BY DEF Extends, IsSeq

\* Bytes in two pieces.
LEMMA BytesSplit ==
  ASSUME NEW c, IsSeq(c), NEW at \in Int, NEW s, IsSeq(s), NEW t, IsSeq(t), HasBytes(c, at, s \o t)
  PROVE  HasBytes(c, at, s) /\ HasBytes(c, at + Len(s), t)
<1>1. /\ Len(s \o t) = Len(s) + Len(t)
      /\ \A k \in 1..Len(s) : (s \o t)[k] = s[k]
      /\ \A k \in 1..Len(t) : (s \o t)[Len(s) + k] = t[k]
  BY ConcatIs
<1> DEFINE u == s \o t
<1> HIDE DEF u
<1>2. Len(c) \in Nat /\ Len(s) \in Nat /\ Len(t) \in Nat /\ Len(u) = Len(s) + Len(t)
  BY <1>1 DEF IsSeq, u
<1>3. at + Len(u) - 1 <= Len(c) /\ \A k \in 1..Len(u) : c[at + k - 1] = u[k]
  BY DEF HasBytes, u
<1>4. \A k \in 1..Len(s) : c[at + k - 1] = s[k]
  <2> TAKE k \in 1..Len(s)
  <2>1. k \in 1..Len(u)
    BY <1>2
  <2> QED
    BY <1>1, <1>3, <2>1 DEF u
<1>5. \A k \in 1..Len(t) : c[(at + Len(s)) + k - 1] = t[k]
  <2> TAKE k \in 1..Len(t)
  <2>1. Len(s) + k \in 1..Len(u) /\ at + (Len(s) + k) - 1 = (at + Len(s)) + k - 1
    BY <1>2
  <2>2. c[at + (Len(s) + k) - 1] = u[Len(s) + k]
    BY <1>3, <2>1
  <2> QED
    BY <1>1, <2>1, <2>2 DEF u
<1>6. at + Len(s) - 1 <= Len(c) /\ (at + Len(s)) + Len(t) - 1 <= Len(c)
  BY <1>2, <1>3
<1> QED
  BY <1>4, <1>5, <1>6 DEF HasBytes

\* Appending one after the other is appending both.
LEMMA ConcatTwice ==
  ASSUME NEW r, IsSeq(r), NEW s, IsSeq(s), NEW t, IsSeq(t)
  PROVE  (r \o s) \o t = r \o (s \o t)
<1> DEFINE S == {r[k] : k \in 1..Len(r)} \cup {s[k] : k \in 1..Len(s)} \cup {t[k] : k \in 1..Len(t)}
<1>1. r \in Seq(S) /\ s \in Seq(S) /\ t \in Seq(S)
  BY ElementsIn
<1> HIDE DEF S
<1> QED
  BY <1>1, ConcatAssociative

\* An array that got room keeps its elements.
LEMMA ExpandIs ==
  ASSUME NEW da, DaIs(da), NEW n
  PROVE  Has(Expand(da, n), DaFields) /\ Expand(da, n).elems = da.elems
<1> DEFINE a == da.room + RoundUp(n - da.room, Grain)
           b == da.moves + (RoundUp(n - da.room, Grain) \div Grain)
           new == [da EXCEPT !.room = a, !.moves = b]
<1>1. da = [f \in DaFields |-> da[f]]
  BY DEF DaIs, Has
<1>2. Expand(da, n) = IF n <= da.room THEN da ELSE new
  BY DEF Expand
<1> HIDE DEF a, b
<1>3. new = [f \in DaFields |-> IF f = "moves" THEN b ELSE IF f = "room" THEN a ELSE da[f]]
  BY <1>1 DEF DaFields
<1> HIDE DEF new
<1>4. new = [f \in DaFields |-> new[f]] /\ new.elems = da.elems
  BY <1>3 DEF DaFields
<1> QED
  BY <1>1, <1>2, <1>4 DEF Has

\* Elements that are replaced in an array.
LEMMA ReplacedIs ==
  ASSUME NEW da, Has(da, DaFields), NEW s, IsSeq(s)
  PROVE  DaIs([da EXCEPT !.elems = s]) /\ [da EXCEPT !.elems = s].elems = s
<1> DEFINE new == [da EXCEPT !.elems = s]
<1>1. da = [f \in DaFields |-> da[f]]
  BY DEF Has
<1>2. new = [f \in DaFields |-> IF f = "elems" THEN s ELSE da[f]]
  BY <1>1 DEF DaFields
<1> HIDE DEF new
<1>3. new = [f \in DaFields |-> new[f]] /\ new.elems = s
  BY <1>2 DEF DaFields
<1>4. DaIs(new) /\ new.elems = s
  BY <1>3 DEF DaIs, Has
<1> QED
  BY <1>4 DEF new

\* Allocating and writing appends, whether or not the array grows.
LEMMA AllocIs ==
  ASSUME NEW da, DaIs(da), NEW s, IsSeq(s)
  PROVE  DaIs(Alloc(da, s)) /\ Alloc(da, s).elems = da.elems \o s
<1> DEFINE grown == Expand(da, Len(da.elems) + Len(s))
           d == grown.elems \o s
<1>1. Has(grown, DaFields) /\ grown.elems = da.elems
  BY ExpandIs
<1>2. Alloc(da, s) = [grown EXCEPT !.elems = d]
  BY DEF Alloc
<1> HIDE DEF grown
<1>3. IsSeq(d)
  BY <1>1, ConcatIs DEF DaIs
<1> HIDE DEF d
<1>4. DaIs(Alloc(da, s)) /\ Alloc(da, s).elems = d
  BY <1>1, <1>2, <1>3, ReplacedIs
<1> QED
  BY <1>1, <1>4 DEF d

\* A multiple of m that is not less than n.
LEMMA RoundUpIs ==
  ASSUME NEW n \in Nat, NEW m \in Pos
  PROVE  RoundUp(n, m) \in Nat /\ RoundUp(n, m) >= n
<1> DEFINE a == n % m
           b == (m - a) % m
<1>1. a \in 0..(m - 1)
  BY DEF Pos
<1> HIDE DEF a
<1>2. m - a \in Nat
  BY <1>1 DEF Pos
<1>3. b \in 0..(m - 1)
  BY <1>2 DEF Pos
<1> HIDE DEF b
<1>4. RoundUp(n, m) = n + b
  BY DEF RoundUp, a, b
<1> QED
  BY <1>3, <1>4

\* Aligning appends padding.
LEMMA AlignIs ==
  ASSUME NEW da, DaIs(da), NEW align \in Pos
  PROVE  /\ DaIs(Align(da, align)) /\ Extends(Align(da, align).elems, da.elems)
         /\ Len(Align(da, align).elems) = RoundUp(Len(da.elems), align)
<1> DEFINE n == Len(da.elems)
           size == RoundUp(n, align)
           grown == Expand(da, size + 1)
           pad == [k \in 1..(size - n) |-> 0]
           d == grown.elems \o pad
<1>1. Has(grown, DaFields) /\ grown.elems = da.elems /\ IsSeq(da.elems)
  BY ExpandIs DEF DaIs
<1>2. n \in Nat /\ size \in Nat /\ size >= n
  BY <1>1, RoundUpIs DEF IsSeq
<1>3. Align(da, align) = [grown EXCEPT !.elems = d]
  BY DEF Align
<1> HIDE DEF grown, size, n
<1>4. IsSeq(pad) /\ Len(pad) = size - n
  <2>1. pad = [k \in 1..(size - n) |-> pad[k]] /\ size - n \in Nat
    BY <1>2
  <2> HIDE DEF pad
  <2> QED
    BY <2>1, FunctionIs
<1> HIDE DEF pad
<1>5. Extends(d, da.elems) /\ IsSeq(d) /\ Len(d) = n + Len(pad)
  <2> DEFINE c == da.elems
  <2>1. IsSeq(c) /\ d = c \o pad /\ n = Len(c)
    BY <1>1 DEF n
  <2> HIDE DEF c, d
  <2>2. Extends(c \o pad, c) /\ Len(c \o pad) = Len(c) + Len(pad)
    BY ONLY <1>4, <2>1, AppendedHas
  <2> QED
    BY <2>1, <2>2 DEF Extends, c
<1> HIDE DEF d
<1>6. DaIs(Align(da, align)) /\ Align(da, align).elems = d
  BY <1>1, <1>3, <1>5, ReplacedIs
<1>7. Len(d) = size
  BY <1>2, <1>4, <1>5
<1> QED
  BY <1>5, <1>6, <1>7 DEF size, n

\* A unit's flags and size, and then more flags, where they are.
Begun(da, flag, size, bits) ==
  LET begun == Alloc(da, <<flag, size>>)
  IN  AddAt(begun, LastAlloc(begun, 2), bits)

\* The flags of a unit are set right after the unit was begun, so the pointer to them
\* is not dangling.
LEMMA FlagsSet ==
  ASSUME NEW da, DaIs(da), NEW flag \in Int, NEW size, NEW bits \in Int
  PROVE  /\ DaIs(Begun(da, flag, size, bits))
         /\ Begun(da, flag, size, bits).elems = da.elems \o <<flag + bits, size>>
<1> DEFINE begun == Alloc(da, <<flag, size>>)
           ptr == LastAlloc(begun, 2)
           new == AddAt(begun, ptr, bits)
           c == da.elems
           e == begun.elems
           d == [e EXCEPT ![ptr.at] = e[ptr.at] + bits]
           want == c \o <<flag + bits, size>>
<1>1. IsSeq(<<flag, size>>) /\ Len(<<flag, size>>) = 2
      /\ IsSeq(<<flag + bits, size>>) /\ Len(<<flag + bits, size>>) = 2
  BY DEF IsSeq
<1>2. DaIs(begun) /\ e = c \o <<flag, size>> /\ IsSeq(c)
  BY <1>1, AllocIs DEF DaIs
<1>3. /\ IsSeq(e) /\ Len(e) = Len(c) + 2 /\ \A k \in 1..Len(c) : e[k] = c[k]
      /\ \A k \in 1..2 : e[Len(c) + k] = <<flag, size>>[k]
  <2> DEFINE h == <<flag, size>>
  <2>1. IsSeq(h) /\ Len(h) = 2 /\ e = c \o h /\ IsSeq(c)
    BY <1>1, <1>2
  <2> HIDE DEF h, e, c
  <2>2. /\ IsSeq(c \o h) /\ Len(c \o h) = Len(c) + Len(h)
        /\ \A k \in 1..Len(c) : (c \o h)[k] = c[k]
        /\ \A k \in 1..Len(h) : (c \o h)[Len(c) + k] = h[k]
    BY <2>1, ConcatIs
  <2> QED
    BY <2>1, <2>2 DEF h
<1>4. /\ IsSeq(want) /\ Len(want) = Len(c) + 2 /\ \A k \in 1..Len(c) : want[k] = c[k]
      /\ \A k \in 1..2 : want[Len(c) + k] = <<flag + bits, size>>[k]
  BY <1>1, <1>2, ConcatIs
<1>5. Len(c) \in Nat
  BY <1>2 DEF IsSeq
<1>6. ptr = [at |-> Len(e) - 2 + 1, moves |-> begun.moves]
  BY DEF LastAlloc
<1>7. ptr.at = Len(c) + 1 /\ ptr.moves = begun.moves
  <2> DEFINE m == begun.moves
             at == Len(e) - 2 + 1
  <2>1. at = Len(c) + 1
    BY <1>3, <1>5
  <2> HIDE DEF m, at, e
  <2>2. ptr.at = at /\ ptr.moves = m
    BY <1>6 DEF m, at
  <2> QED
    BY <2>1, <2>2 DEF m
<1>8. new = [begun EXCEPT !.elems = d]
  <2> HIDE DEF begun, ptr
  <2> QED
    BY <1>7 DEF AddAt
<1> HIDE DEF e, want, ptr
<1>9. d = want
  <2>1. e[Len(c) + 1] = flag /\ e[Len(c) + 2] = size
    BY <1>3
  <2>2. want[Len(c) + 1] = flag + bits /\ want[Len(c) + 2] = size
    BY <1>4
  <2>3. e = [k \in 1..(Len(c) + 2) |-> e[k]] /\ want = [k \in 1..(Len(c) + 2) |-> want[k]]
    BY <1>3, <1>4 DEF IsSeq
  <2>4. \A k \in 1..(Len(c) + 2) : k \in 1..Len(c) \/ k = Len(c) + 1 \/ k = Len(c) + 2
    BY <1>5
  <2>5. Len(c) + 1 # Len(c) + 2 /\ Len(c) + 1 \notin 1..Len(c) /\ Len(c) + 1 \in 1..(Len(c) + 2)
    BY <1>5
  <2>6. \A k \in 1..(Len(c) + 2) : d[k] = IF k = Len(c) + 1 THEN e[k] + bits ELSE e[k]
    BY <1>7, <2>3
  <2>7. \A k \in 1..(Len(c) + 2) : d[k] = want[k]
    BY <1>3, <1>4, <2>1, <2>2, <2>4, <2>5, <2>6
  <2>8. d = [k \in 1..(Len(c) + 2) |-> d[k]]
    BY <2>3
  <2> HIDE DEF d
  <2> QED
    BY <2>3, <2>7, <2>8
<1> HIDE DEF d, begun
<1>10. DaIs(new) /\ new.elems = want
  BY <1>2, <1>4, <1>8, <1>9, ReplacedIs DEF DaIs
<1> QED
  BY <1>10 DEF Begun, begun, ptr, want

-----------------------------------------------------------------------------
\* The manager's fields.
OutFields == {"newRow", "emptyRows", "lastCol", "rowJmps", "patterns", "ctl", "values"}

\* They have these types.  No kind of unit has two flags.
OutIs(o) ==
  /\ Has(o, OutFields) /\ DaIs(o.ctl) /\ IsSeq(o.patterns) /\ IsSeq(o.values)
  /\ \A j, k \in 1..Len(o.patterns) : o.patterns[j] = o.patterns[k] => j = k
  /\ o.newRow \in BOOLEAN /\ o.emptyRows \in Nat /\ (~o.newRow => o.emptyRows = 0)
  /\ o.lastCol \in Int

\* A unit: its flag, whether it is the first of a row and carries a jump, the rows to
\* move on, its size, kind, column and deltas.
UnitFor(o, id, size, x, deltas) ==
  [flag |-> GetFlag(o, id), nr |-> o.newRow, rj |-> o.newRow /\ o.emptyRows # 0,
   jmp |-> IF o.newRow THEN o.emptyRows + 1 ELSE 0,
   size |-> size, id |-> id, x |-> x, deltas |-> deltas]

FlagsByte(u) ==
  u.flag + (IF u.rj THEN CTL_NR_BIT + CTL_RJMP_BIT ELSE IF u.nr THEN CTL_NR_BIT ELSE 0)
JumpBytes(u) == IF u.rj THEN UL(u.jmp) ELSE <<>>
ColBytes(u, col) == IF full THEN FixedBytes(u.x - 1, 4) ELSE UL(col)

\* What a unit begins with.
HeadOf(u, col) == (<<FlagsByte(u), u.size>> \o JumpBytes(u)) \o ColBytes(u, col)

\* The unit's head is written.
HeadPut(o, new, u) ==
  /\ OutIs(new) /\ ~new.newRow /\ new.values = o.values /\ new.lastCol = o.lastCol
  /\ new.ctl.elems = o.ctl.elems \o HeadOf(u, u.x - o.lastCol)
  /\ Extends(new.patterns, o.patterns)
  /\ u.flag \in Nat /\ u.flag + 1 \in 1..Len(new.patterns) /\ new.patterns[u.flag + 1] = u.id
  /\ (o.rowJmps => new.rowJmps) /\ (u.rj => new.rowJmps)

\* A unit's head is a sequence of bytes.
LEMMA HeadOfIs ==
  ASSUME NEW u, u.jmp \in Int, u.x \in Int, NEW col \in Int
  PROVE  /\ IsSeq(<<FlagsByte(u), u.size>>) /\ Len(<<FlagsByte(u), u.size>>) = 2
         /\ IsSeq(JumpBytes(u)) /\ IsSeq(ColBytes(u, col)) /\ IsSeq(HeadOf(u, col))
         /\ IsSeq(<<FlagsByte(u), u.size>> \o JumpBytes(u))
         /\ Len(HeadOf(u, col)) = 2 + Len(JumpBytes(u)) + Len(ColBytes(u, col))
<1> DEFINE a == <<FlagsByte(u), u.size>>
           b == JumpBytes(u)
           c == ColBytes(u, col)
<1>1. IsSeq(a) /\ Len(a) = 2
  BY DEF IsSeq
<1>2. IsSeq(b)
  <2>1. IsSeq(<<>>)
    BY DEF IsSeq
  <2>2. IsSeq(UL(u.jmp))
    BY NumbersReadBack DEF ReadAs
  <2> QED
    BY <2>1, <2>2 DEF JumpBytes
<1>3. IsSeq(c)
  <2>1. IsSeq(UL(col))
    BY NumbersReadBack DEF ReadAs
  <2>2. IsSeq(FixedBytes(u.x - 1, 4))
    BY FixedIs DEF FixedLengths
  <2> QED
    BY <2>1, <2>2 DEF ColBytes
<1>4. HeadOf(u, col) = (a \o b) \o c
  BY DEF HeadOf
<1> HIDE DEF a, b, c
<1>5. IsSeq(a \o b) /\ Len(a \o b) = Len(a) + Len(b)
  BY <1>1, <1>2, ConcatIs
<1> DEFINE d == a \o b
<1> HIDE DEF d
<1>6. IsSeq(d \o c) /\ Len(d \o c) = Len(d) + Len(c)
  BY <1>3, <1>5, ConcatIs DEF d
<1>7. Len(d \o c) = 2 + Len(b) + Len(c)
  BY <1>1, <1>5, <1>6 DEF d
<1> QED
  BY <1>1, <1>2, <1>3, <1>4, <1>5, <1>6, <1>7 DEF a, b, c, d

\* The kinds in use, among which a kind has its flag.
FlagPut(new, old, flag, id) ==
  /\ flag \in Nat /\ flag + 1 \in 1..Len(new) /\ new[flag + 1] = id
  /\ Extends(new, old)
  /\ \A j, k \in 1..Len(new) : new[j] = new[k] => j = k

\* The flag of a kind of unit, new or old.
LEMMA FlagIs ==
  ASSUME NEW o, OutIs(o), NEW id, NEW flag, flag = GetFlag(o, id),
         NEW new, new = IF flag = Len(o.patterns) THEN Append(o.patterns, id) ELSE o.patterns
  PROVE  FlagPut(new, o.patterns, flag, id)
<1> DEFINE old == o.patterns
           n == Len(old)
<1>1. /\ IsSeq(old) /\ n \in Nat /\ DOMAIN old = 1..n
      /\ \A j, k \in 1..n : old[j] = old[k] => j = k
  BY DEF OutIs, IsSeq
<1>2. ToSet(old) = {old[k] : k \in 1..n}
  BY <1>1 DEF ToSet
<1>3. CASE id \in ToSet(old)
  <2>1. flag = (CHOOSE k \in 1..n : old[k] = id) - 1
    BY <1>1, <1>3 DEF GetFlag
  <2>2. \E k \in 1..n : old[k] = id
    BY <1>2, <1>3
  <2> HIDE DEF old, n
  <2>3. PICK k \in 1..n : old[k] = id /\ flag = k - 1
    BY <2>1, <2>2
  <2>4. flag \in Nat /\ flag + 1 = k /\ flag # n
    BY <1>1, <2>3
  <2>5. new = old
    BY <2>4 DEF old, n
  <2> QED
    BY <1>1, <2>3, <2>4, <2>5, ExtendsSelf DEF old, n, FlagPut
<1>4. CASE id \notin ToSet(old)
  <2>1. flag = n
    BY <1>4 DEF GetFlag
  <2>2. \A k \in 1..n : old[k] # id
    BY <1>2, <1>4
  <2>3. new = Append(old, id)
    BY <2>1
  <2> HIDE DEF old
  <2>4. IsSeq(new) /\ Len(new) = n + 1 /\ new[n + 1] = id /\ \A k \in 1..n : new[k] = old[k]
    <3>1. IsSeq(old)
      BY <1>1
    <3>2. /\ IsSeq(Append(old, id)) /\ Len(Append(old, id)) = Len(old) + 1
          /\ \A k \in 1..Len(old) : Append(old, id)[k] = old[k]
          /\ Append(old, id)[Len(old) + 1] = id
      BY ONLY <3>1, AppendIs
    <3> QED
      BY Zenon, <2>3, <3>2
  <2> HIDE DEF n
  <2>5. Extends(new, old)
    BY <1>1, <2>4 DEF Extends, n
  <2>6. ASSUME NEW j \in 1..Len(new), NEW k \in 1..Len(new), new[j] = new[k] PROVE j = k
    <3>1. (j \in 1..n \/ j = n + 1) /\ (k \in 1..n \/ k = n + 1)
      BY <1>1, <2>4
    <3> QED
      BY <1>1, <2>2, <2>4, <2>6, <3>1
  <2>7. flag \in Nat /\ flag + 1 \in 1..Len(new) /\ new[flag + 1] = id
    BY <1>1, <2>1, <2>4
  <2> QED
    BY <2>5, <2>6, <2>7 DEF old, FlagPut
<1> QED
  BY <1>3, <1>4

\* The head of a unit is written as it should be: the flags are set in place, the jump
\* over empty rows and the column follow.
LEMMA HeadIsPut ==
  ASSUME NEW o, OutIs(o), NEW id, NEW size, NEW x \in Int, NEW deltas,
         NEW u, u = UnitFor(o, id, size, x, deltas)
  PROVE  HeadPut(o, PutHead(o, id, size, x), u)
<1> DEFINE flag == GetFlag(o, id)
           c == o.ctl.elems
           da == Alloc(o.ctl, <<flag, size>>)
           pats == IF flag = Len(o.patterns) THEN Append(o.patterns, id) ELSE o.patterns
           named == [o EXCEPT !.ctl = da, !.patterns = pats]
           ptr == LastAlloc(da, 2)
           begun == UpdateNewRow(named, ptr)
           col == x - o.lastCol
           last == IF full THEN Alloc(begun.ctl, FixedBytes(x - 1, 4)) ELSE da_put_ul(begun.ctl, col)
           new == [begun EXCEPT !.ctl = last]
           jmp == IF o.newRow THEN o.emptyRows + 1 ELSE 0
           head == <<FlagsByte(u), size>> \o JumpBytes(u)
<1>1. /\ Has(o, OutFields) /\ DaIs(o.ctl) /\ o.newRow \in BOOLEAN /\ o.emptyRows \in Nat
      /\ (~o.newRow => o.emptyRows = 0) /\ o.lastCol \in Int /\ IsSeq(o.values)
  BY DEF OutIs
<1>2. /\ u.flag = flag /\ u.nr = o.newRow /\ u.rj = (o.newRow /\ o.emptyRows # 0) /\ u.jmp = jmp
      /\ u.size = size /\ u.id = id /\ u.x = x
  BY Zenon DEF UnitFor
<1>3. /\ flag \in Nat /\ flag + 1 \in 1..Len(pats) /\ pats[flag + 1] = id
      /\ Extends(pats, o.patterns) /\ \A j, k \in 1..Len(pats) : pats[j] = pats[k] => j = k
  <2> HIDE DEF pats, flag
  <2>1. flag = GetFlag(o, id)
    BY DEF flag
  <2>2. pats = IF flag = Len(o.patterns) THEN Append(o.patterns, id) ELSE o.patterns
    BY Zenon DEF pats
  <2>3. OutIs(o)
    OBVIOUS
  <2>4. FlagPut(pats, o.patterns, flag, id)
    BY ONLY <2>1, <2>2, <2>3, FlagIs
  <2> QED
    BY Zenon, <2>4 DEF FlagPut
<1>4. PutHead(o, id, size, x) = new
  BY Zenon DEF PutHead
<1>5. IsSeq(<<flag, size>>)
  BY DEF IsSeq
<1>6. DaIs(da) /\ da.elems = c \o <<flag, size>>
  BY <1>1, <1>5, AllocIs
<1> HIDE DEF pats
<1>7. /\ named.newRow = o.newRow /\ named.emptyRows = o.emptyRows /\ named.lastCol = o.lastCol
      /\ named.rowJmps = o.rowJmps /\ named.values = o.values /\ named.patterns = pats
      /\ named.ctl = da /\ Has(named, OutFields)
  <2> HIDE DEF da
  <2>1. o = [f \in OutFields |-> o[f]]
    BY <1>1 DEF Has
  <2>2. named = [f \in OutFields |-> IF f = "patterns" THEN pats ELSE IF f = "ctl" THEN da ELSE o[f]]
    BY <2>1 DEF OutFields
  <2> HIDE DEF named
  <2> QED
    BY <2>2 DEF OutFields, Has
<1> HIDE DEF named
<1>8. CTL_NR_BIT \in Int /\ CTL_NR_BIT + CTL_RJMP_BIT \in Int
  BY PatternsAssumption DEF CTL_NR_BIT, CTL_RJMP_BIT
<1>9. jmp \in Int /\ u.jmp \in Int /\ u.x \in Int /\ col \in Int
  BY <1>1, <1>2
<1>10. /\ Has(begun, OutFields) /\ begun.newRow = FALSE /\ begun.emptyRows = 0 /\ begun.lastCol = o.lastCol
       /\ begun.values = o.values /\ begun.patterns = pats
       /\ (o.rowJmps => begun.rowJmps) /\ (u.rj => begun.rowJmps)
       /\ DaIs(begun.ctl) /\ begun.ctl.elems = c \o head
  <2>1. CASE ~o.newRow
    <3>1. begun = named
      BY <1>7, <2>1 DEF UpdateNewRow
    <3>2. ~u.rj /\ ~u.nr
      BY <1>2, <2>1
    <3>3. JumpBytes(u) = <<>> /\ FlagsByte(u) = flag
      BY <1>2, <1>3, <3>2 DEF JumpBytes, FlagsByte
    <3>4. head = <<flag, size>>
      <4> DEFINE h == <<flag, size>>
      <4>1. IsSeq(h) /\ head = h \o <<>>
        BY <1>5, <3>3
      <4> HIDE DEF h, head
      <4>2. h \o <<>> = h
        <5> DEFINE S == {h[k] : k \in 1..Len(h)}
        <5>1. h \in Seq(S)
          BY <4>1, ElementsIn
        <5> HIDE DEF S
        <5> QED
          BY <5>1
      <4> QED
        BY <4>1, <4>2 DEF h
    <3> HIDE DEF begun, head, da, flag, c
    <3> QED
      BY <1>1, <1>6, <1>7, <2>1, <3>1, <3>2, <3>4
  <2>2. CASE o.newRow /\ o.emptyRows = 0
    <3> DEFINE e == AddAt(da, ptr, CTL_NR_BIT)
    <3>1. begun = [named EXCEPT !.newRow = FALSE, !.ctl = e]
      BY Zenon, <1>7, <2>2 DEF UpdateNewRow
    <3>2. ~u.rj /\ u.nr
      BY <1>2, <2>2
    <3>3. JumpBytes(u) = <<>> /\ FlagsByte(u) = flag + CTL_NR_BIT
      BY <1>2, <3>2 DEF JumpBytes, FlagsByte
    <3>4. DaIs(e) /\ e.elems = c \o <<flag + CTL_NR_BIT, size>>
      <4> DEFINE bits == CTL_NR_BIT
                 old == o.ctl
      <4>1. e = Begun(old, flag, size, bits) /\ c = old.elems
        BY Zenon DEF Begun
      <4>2. DaIs(old) /\ flag \in Int /\ bits \in Int
        BY <1>1, <1>3, <1>8
      <4> HIDE DEF flag, e, bits, old, c
      <4>3. /\ DaIs(Begun(old, flag, size, bits))
            /\ Begun(old, flag, size, bits).elems = old.elems \o <<flag + bits, size>>
        BY ONLY <4>2, FlagsSet
      <4>4. DaIs(e) /\ e.elems = c \o <<flag + bits, size>>
        BY Zenon, <4>1, <4>3
      <4> QED
        BY <4>4 DEF bits
    <3>5. head = <<flag + CTL_NR_BIT, size>>
      <4> DEFINE h == <<flag + CTL_NR_BIT, size>>
      <4>1. IsSeq(h) /\ head = h \o <<>>
        BY <3>3 DEF IsSeq
      <4> HIDE DEF h, head
      <4>2. h \o <<>> = h
        <5> DEFINE S == {h[k] : k \in 1..Len(h)}
        <5>1. h \in Seq(S)
          BY <4>1, ElementsIn
        <5> HIDE DEF S
        <5> QED
          BY <5>1
      <4> QED
        BY <4>1, <4>2 DEF h
    <3> HIDE DEF e, head, da, flag, c
    <3>6. begun = [f \in OutFields |-> IF f = "ctl" THEN e ELSE IF f = "newRow" THEN FALSE ELSE named[f]]
      <4>1. named = [f \in OutFields |-> named[f]]
        BY <1>7 DEF Has
      <4> HIDE DEF begun
      <4> QED
        BY <3>1, <4>1 DEF OutFields
    <3> HIDE DEF begun
    <3> QED
      BY <1>1, <1>7, <2>2, <3>2, <3>4, <3>5, <3>6 DEF OutFields, Has
  <2>3. CASE o.newRow /\ o.emptyRows # 0
    <3> DEFINE e == AddAt(da, ptr, CTL_NR_BIT + CTL_RJMP_BIT)
               d == da_put_ul(e, o.emptyRows + 1)
               h == <<flag + (CTL_NR_BIT + CTL_RJMP_BIT), size>>
    <3>1. begun = [named EXCEPT !.newRow = FALSE, !.emptyRows = 0, !.rowJmps = TRUE, !.ctl = d]
      BY Zenon, <1>7, <2>3 DEF UpdateNewRow
    <3>2. u.rj /\ u.nr /\ jmp = o.emptyRows + 1
      BY <1>2, <2>3
    <3>3. JumpBytes(u) = UL(o.emptyRows + 1) /\ FlagsByte(u) = flag + (CTL_NR_BIT + CTL_RJMP_BIT)
      BY <1>2, <3>2 DEF JumpBytes, FlagsByte
    <3>4. DaIs(e) /\ e.elems = c \o h
      <4> DEFINE bits == CTL_NR_BIT + CTL_RJMP_BIT
                 old == o.ctl
      <4>1. e = Begun(old, flag, size, bits) /\ c = old.elems /\ h = <<flag + bits, size>>
        BY Zenon DEF Begun
      <4>2. DaIs(old) /\ flag \in Int /\ bits \in Int
        BY <1>1, <1>3, <1>8
      <4> HIDE DEF flag, e, bits, old, c, h
      <4>3. /\ DaIs(Begun(old, flag, size, bits))
            /\ Begun(old, flag, size, bits).elems = old.elems \o <<flag + bits, size>>
        BY ONLY <4>2, FlagsSet
      <4> QED
        BY Zenon, <4>1, <4>3
    <3>5. head = h \o UL(o.emptyRows + 1)
      BY <3>3
    <3>6. DaIs(d) /\ d.elems = c \o head
      <4> DEFINE s == UL(o.emptyRows + 1)
      <4>1. IsSeq(s)
        <5>1. o.emptyRows + 1 \in Int
          BY <1>1
        <5> QED
          BY <5>1, NumbersReadBack DEF ReadAs
      <4>2. d = Alloc(e, s)
        BY DEF da_put_ul
      <4>3. IsSeq(h) /\ IsSeq(c)
        BY <1>1 DEF DaIs, IsSeq
      <4> HIDE DEF s, h, e, d, c, head
      <4>4. DaIs(Alloc(e, s)) /\ Alloc(e, s).elems = e.elems \o s
        BY ONLY <3>4, <4>1, AllocIs
      <4>5. (c \o h) \o s = c \o (h \o s)
        BY ONLY <4>1, <4>3, ConcatTwice
      <4> QED
        BY <3>4, <3>5, <4>2, <4>4, <4>5 DEF s
    <3> HIDE DEF e, head, da, flag, c, d
    <3>7. begun = [f \in OutFields |-> IF f = "ctl" THEN d ELSE IF f = "rowJmps" THEN TRUE
                     ELSE IF f = "emptyRows" THEN 0 ELSE IF f = "newRow" THEN FALSE ELSE named[f]]
      <4>1. named = [f \in OutFields |-> named[f]]
        BY <1>7 DEF Has
      <4> HIDE DEF begun
      <4> QED
        BY <3>1, <4>1 DEF OutFields
    <3> HIDE DEF begun
    <3> QED
      BY <1>1, <1>7, <2>3, <3>2, <3>6, <3>7 DEF OutFields, Has
  <2> QED
    BY <1>1, <2>1, <2>2, <2>3
<1> HIDE DEF begun, col, head
<1>11. DaIs(last) /\ last.elems = begun.ctl.elems \o ColBytes(u, col)
  <2>1. CASE full
    <3> DEFINE s == FixedBytes(x - 1, 4)
    <3>1. IsSeq(s)
      BY FixedIs DEF FixedLengths
    <3>2. last = Alloc(begun.ctl, s) /\ ColBytes(u, col) = s
      BY <1>2, <2>1 DEF ColBytes
    <3> HIDE DEF s, last
    <3>3. DaIs(Alloc(begun.ctl, s)) /\ Alloc(begun.ctl, s).elems = begun.ctl.elems \o s
      BY <1>10, <3>1, AllocIs
    <3> QED
      BY <3>2, <3>3
  <2>2. CASE ~full
    <3> DEFINE s == UL(col)
    <3>1. IsSeq(s)
      BY <1>9, NumbersReadBack DEF ReadAs
    <3>2. last = Alloc(begun.ctl, s) /\ ColBytes(u, col) = s
      BY <2>2 DEF ColBytes, da_put_ul
    <3> HIDE DEF s, last
    <3>3. DaIs(Alloc(begun.ctl, s)) /\ Alloc(begun.ctl, s).elems = begun.ctl.elems \o s
      BY <1>10, <3>1, AllocIs
    <3> QED
      BY <3>2, <3>3
  <2> QED
    BY <2>1, <2>2
<1> HIDE DEF last
<1>12. last.elems = c \o HeadOf(u, col)
  <2> DEFINE t == ColBytes(u, col)
  <2>1. HeadOf(u, col) = head \o t
    BY <1>2 DEF HeadOf, head
  <2>2. IsSeq(head) /\ IsSeq(t) /\ IsSeq(c)
    BY <1>1, <1>2, <1>9, HeadOfIs DEF head, DaIs
  <2> HIDE DEF t, c
  <2>3. (c \o head) \o t = c \o (head \o t)
    BY ONLY <2>2, ConcatTwice
  <2> QED
    BY <1>10, <1>11, <2>1, <2>3 DEF t
<1>13. new = [f \in OutFields |-> IF f = "ctl" THEN last ELSE begun[f]]
  <2>1. begun = [f \in OutFields |-> begun[f]]
    BY <1>10 DEF Has
  <2> QED
    BY <2>1 DEF OutFields
<1> HIDE DEF new, c
<1>14. /\ Has(new, OutFields) /\ new.ctl = last /\ new.newRow = FALSE /\ new.emptyRows = 0
       /\ new.lastCol = o.lastCol /\ new.values = o.values /\ new.patterns = pats
       /\ (o.rowJmps => new.rowJmps) /\ (u.rj => new.rowJmps)
  BY <1>10, <1>13 DEF OutFields, Has
<1>15. OutIs(new)
  <2>1. IsSeq(pats) /\ \A j, k \in 1..Len(pats) : pats[j] = pats[k] => j = k
    BY <1>3 DEF Extends
  <2>3. Has(new, OutFields) /\ DaIs(new.ctl) /\ IsSeq(new.patterns) /\ IsSeq(new.values)
    BY Zenon, <1>1, <1>11, <1>14, <2>1
  <2>4. \A j, k \in 1..Len(new.patterns) : new.patterns[j] = new.patterns[k] => j = k
    BY Zenon, <1>14, <2>1
  <2>2. /\ new.newRow \in BOOLEAN /\ new.emptyRows \in Nat /\ (~new.newRow => new.emptyRows = 0)
        /\ new.lastCol \in Int
    <3>1. new.newRow = FALSE /\ new.emptyRows = 0 /\ new.lastCol = o.lastCol
      BY ONLY Zenon, <1>14
    <3>2. o.lastCol \in Int
      BY <1>1
    <3>3. new.lastCol \in Int
      BY ONLY Zenon, <3>1, <3>2
    <3>4. FALSE \in BOOLEAN /\ 0 \in Nat
      OBVIOUS
    <3> QED
      BY ONLY Zenon, <3>1, <3>3, <3>4
  <2> QED
    BY ONLY Zenon, <2>2, <2>3, <2>4 DEF OutIs
<1>16. new.ctl.elems = o.ctl.elems \o HeadOf(u, u.x - o.lastCol)
  BY <1>2, <1>12, <1>14 DEF c, col
<1> HIDE DEF flag
<1> QED
  BY <1>2, <1>3, <1>4, <1>14, <1>15, <1>16 DEF HeadPut

-----------------------------------------------------------------------------
(***************************************************************************)
(* The templates of the kernel.                                            *)
(***************************************************************************)

\* A unit multiplies these cells, one after the other; the kernel of a symmetric matrix
\* does so twice, the second time with the cell's mirror.
Multiplies(id, size, deltas, y, x, cells) ==
  /\ IsSeq(cells) /\ Len(cells) = size
  /\ Mult(id, size, deltas, y, x) = cells
  /\ SymMult(id, size, deltas, y, x)
       = [k \in 1..size |-> [product |-> cells[k], mirror |-> Point(cells[k].x, cells[k].y)]]

\* The coordinates of a point.
LEMMA PointIs ==
  ASSUME NEW y, NEW x
  PROVE  Point(y, x).y = y /\ Point(y, x).x = x
  BY DEF Point

\* The template of a pattern's order is the one that its unit gets.
LEMMA TemplateOf ==
  ASSUME NEW t \in IterOrders, NEW n, NEW id, id = <<t, n>>, NEW size, NEW deltas, NEW y, NEW x
  PROVE  /\ t = HORIZONTAL => /\ Mult(id, size, deltas, y, x) = HorizCase(n, size, y, x)
                              /\ SymMult(id, size, deltas, y, x) = HorizSymCase(n, size, y, x)
         /\ t = VERTICAL => /\ Mult(id, size, deltas, y, x) = VertCase(n, size, y, x)
                            /\ SymMult(id, size, deltas, y, x) = VertSymCase(n, size, y, x)
         /\ t = DIAGONAL => /\ Mult(id, size, deltas, y, x) = DiagCase(n, size, y, x)
                            /\ SymMult(id, size, deltas, y, x) = DiagSymCase(n, size, y, x)
         /\ t = REV_DIAGONAL => /\ Mult(id, size, deltas, y, x) = RDiagCase(n, size, y, x)
                                /\ SymMult(id, size, deltas, y, x) = RDiagSymCase(n, size, y, x)
         /\ \A r \in BlockSizes : t = BLOCK_R(r) =>
              /\ Mult(id, size, deltas, y, x) = BlockRowCase(r, n, y, x)
              /\ SymMult(id, size, deltas, y, x) = BlockRowSymCase(r, n, y, x)
         /\ \A c \in BlockSizes : t = BLOCK_C(c) =>
              /\ Mult(id, size, deltas, y, x) = BlockColCase(n, c, y, x)
              /\ SymMult(id, size, deltas, y, x) = BlockColSymCase(n, c, y, x)
<1>1. id[1] = t /\ id[2] = n
  OBVIOUS
<1> DEFINE Rs == {BLOCK_R(r) : r \in BlockSizes}
           Cs == {BLOCK_C(c) : c \in BlockSizes}
<1>2. ASSUME NEW r \in BlockSizes
      PROVE  /\ BLOCK_R(r) \in Rs /\ BLOCK_C(r) \in Cs /\ BLOCK_R(r) \notin Cs /\ BLOCK_C(r) \notin Rs
             /\ BLOCK_R(r) \notin {DELTA, HORIZONTAL, VERTICAL, DIAGONAL, REV_DIAGONAL}
             /\ BLOCK_C(r) \notin {DELTA, HORIZONTAL, VERTICAL, DIAGONAL, REV_DIAGONAL}
             /\ IsBlockType(BLOCK_R(r)) = r /\ IsBlockType(BLOCK_C(r)) = r
  BY DEF BLOCK_R, BLOCK_C, DELTA, HORIZONTAL, VERTICAL, DIAGONAL, REV_DIAGONAL, IsBlockType
<1>3. /\ HORIZONTAL # DELTA /\ VERTICAL # DELTA /\ DIAGONAL # DELTA /\ REV_DIAGONAL # DELTA
      /\ VERTICAL # HORIZONTAL /\ DIAGONAL # HORIZONTAL /\ REV_DIAGONAL # HORIZONTAL
      /\ DIAGONAL # VERTICAL /\ REV_DIAGONAL # VERTICAL /\ REV_DIAGONAL # DIAGONAL
      /\ \A u \in {DELTA, HORIZONTAL, VERTICAL, DIAGONAL, REV_DIAGONAL} : u \notin Rs /\ u \notin Cs
  BY DEF BLOCK_R, BLOCK_C, DELTA, HORIZONTAL, VERTICAL, DIAGONAL, REV_DIAGONAL
<1>4. /\ Mult(id, size, deltas, y, x) =
           CASE t = DELTA        -> DeltaCase(size, deltas, y, x)
             [] t = HORIZONTAL   -> HorizCase(n, size, y, x)
             [] t = VERTICAL     -> VertCase(n, size, y, x)
             [] t = DIAGONAL     -> DiagCase(n, size, y, x)
             [] t = REV_DIAGONAL -> RDiagCase(n, size, y, x)
             [] t \in Rs         -> BlockRowCase(IsBlockType(t), n, y, x)
             [] t \in Cs         -> BlockColCase(n, IsBlockType(t), y, x)
      /\ SymMult(id, size, deltas, y, x) =
           CASE t = DELTA        -> DeltaSymCase(size, deltas, y, x)
             [] t = HORIZONTAL   -> HorizSymCase(n, size, y, x)
             [] t = VERTICAL     -> VertSymCase(n, size, y, x)
             [] t = DIAGONAL     -> DiagSymCase(n, size, y, x)
             [] t = REV_DIAGONAL -> RDiagSymCase(n, size, y, x)
             [] t \in Rs         -> BlockRowSymCase(IsBlockType(t), n, y, x)
             [] t \in Cs         -> BlockColSymCase(n, IsBlockType(t), y, x)
  BY <1>1 DEF Mult, SymMult
<1> HIDE DEF Rs, Cs
<1>5. ASSUME t = HORIZONTAL
      PROVE  /\ Mult(id, size, deltas, y, x) = HorizCase(n, size, y, x)
             /\ SymMult(id, size, deltas, y, x) = HorizSymCase(n, size, y, x)
  BY <1>3, <1>4, <1>5
<1>6. ASSUME t = VERTICAL
      PROVE  /\ Mult(id, size, deltas, y, x) = VertCase(n, size, y, x)
             /\ SymMult(id, size, deltas, y, x) = VertSymCase(n, size, y, x)
  BY <1>3, <1>4, <1>6
<1>7. ASSUME t = DIAGONAL
      PROVE  /\ Mult(id, size, deltas, y, x) = DiagCase(n, size, y, x)
             /\ SymMult(id, size, deltas, y, x) = DiagSymCase(n, size, y, x)
  BY <1>3, <1>4, <1>7
<1>8. ASSUME t = REV_DIAGONAL
      PROVE  /\ Mult(id, size, deltas, y, x) = RDiagCase(n, size, y, x)
             /\ SymMult(id, size, deltas, y, x) = RDiagSymCase(n, size, y, x)
  BY <1>3, <1>4, <1>8
<1>9. ASSUME NEW r \in BlockSizes, t = BLOCK_R(r)
      PROVE  /\ Mult(id, size, deltas, y, x) = BlockRowCase(r, n, y, x)
             /\ SymMult(id, size, deltas, y, x) = BlockRowSymCase(r, n, y, x)
  BY <1>2, <1>4, <1>9
<1>10. ASSUME NEW c \in BlockSizes, t = BLOCK_C(c)
       PROVE  /\ Mult(id, size, deltas, y, x) = BlockColCase(n, c, y, x)
              /\ SymMult(id, size, deltas, y, x) = BlockColSymCase(n, c, y, x)
  BY <1>2, <1>4, <1>10
<1> QED
  BY <1>5, <1>6, <1>7, <1>8, <1>9, <1>10

\* The unit of a pattern multiplies the entries that the pattern reaches, whatever its
\* order: the templates walk as the encoder does.
THEOREM TemplatesReach ==
  ASSUME NEW p, PatternIs(p), p # NoPattern, p.size \in Pos,
         NEW y \in Int, NEW x \in Int, NEW deltas
  PROVE  Multiplies(GetPatternId(p), p.size, deltas, y, x, Reached(p, Point(y, x)))
<1> DEFINE t == p.order
           d == p.delta
           size == p.size
           n == IF IsBlockType(t) = 0 THEN d ELSE p.other
           id == <<t, n>>
           cells == Reached(p, Point(y, x))
           sym == [k \in 1..size |-> [product |-> cells[k], mirror |-> Point(cells[k].x, cells[k].y)]]
           q == Point(y, x)
<1>1. /\ t \in IterOrders /\ d \in Pos /\ p.other \in Nat /\ size \in Nat
      /\ IsBlockType(t) # 0 => d = 1 /\ size = IsBlockType(t) * p.other
  BY DEF PatternIs, Pos
<1>2. GetPatternId(p) = id
  BY DEF GetPatternId
<1>3. cells = [k \in 1..size |-> Along(t, q, (k - 1) * d)]
  BY DEF Reached, Point
<1>4. IsSeq(cells) /\ Len(cells) = size
  <2>1. cells = [k \in 1..size |-> cells[k]]
    BY <1>3
  <2> HIDE DEF cells
  <2> QED
    BY <1>1, <2>1, FunctionIs
<1> HIDE DEF cells, t, d, size
<1>5. q.y = y /\ q.x = x
  BY DEF Point
<1>6. \A k \in 1..size : cells[k] = Along(t, q, (k - 1) * d) /\ k - 1 \in Nat /\ (k - 1) * d \in Nat
  BY <1>1, <1>3 DEF Pos
<1>14. cells = [k \in 1..size |-> cells[k]]
  BY <1>4 DEF IsSeq
<1> HIDE DEF q
<1>7. CASE t = HORIZONTAL
  <2>1. n = d
    BY <1>7 DEF IsBlockType, HORIZONTAL
  <2>2. /\ Mult(id, size, deltas, y, x) = HorizCase(n, size, y, x)
        /\ SymMult(id, size, deltas, y, x) = HorizSymCase(n, size, y, x)
    BY <1>1, <1>7, TemplateOf
  <2>3. ASSUME NEW k \in 1..size PROVE cells[k] = Point(y, x + (k - 1) * d)
    BY <1>5, <1>6, <1>7 DEF Along, HORIZONTAL
  <2>4. HorizCase(d, size, y, x) = cells
    BY <1>14, <2>3 DEF HorizCase
  <2>5. ASSUME NEW k \in 1..size PROVE Point(cells[k].x, cells[k].y) = Point(x + (k - 1) * d, y)
    <3>1. cells[k] = Point(y, x + (k - 1) * d)
      BY <2>3
    <3>2. cells[k].y = y /\ cells[k].x = x + (k - 1) * d
      BY ONLY <3>1, PointIs
    <3> QED
      BY ONLY Zenon, <3>2
  <2>6. HorizSymCase(d, size, y, x) = sym
    BY <2>3, <2>5 DEF HorizSymCase
  <2> HIDE DEF n
  <2>10. Multiplies(id, size, deltas, y, x, cells)
    BY <1>4, <2>1, <2>2, <2>4, <2>6 DEF Multiplies
  <2> QED
    BY <1>2, <2>10 DEF size, cells, q
<1>8. CASE t = VERTICAL
  <2>1. n = d
    BY <1>8 DEF IsBlockType, VERTICAL
  <2>2. /\ Mult(id, size, deltas, y, x) = VertCase(n, size, y, x)
        /\ SymMult(id, size, deltas, y, x) = VertSymCase(n, size, y, x)
    BY <1>1, <1>8, TemplateOf
  <2>3. ASSUME NEW k \in 1..size PROVE cells[k] = Point(y + (k - 1) * d, x)
    BY <1>5, <1>6, <1>8 DEF Along, VERTICAL
  <2>4. VertCase(d, size, y, x) = cells
    BY <1>14, <2>3 DEF VertCase
  <2>5. ASSUME NEW k \in 1..size PROVE Point(cells[k].x, cells[k].y) = Point(x, y + (k - 1) * d)
    <3>1. cells[k] = Point(y + (k - 1) * d, x)
      BY <2>3
    <3>2. cells[k].y = y + (k - 1) * d /\ cells[k].x = x
      BY ONLY <3>1, PointIs
    <3> QED
      BY ONLY Zenon, <3>2
  <2>6. VertSymCase(d, size, y, x) = sym
    BY <2>3, <2>5 DEF VertSymCase
  <2> HIDE DEF n
  <2>10. Multiplies(id, size, deltas, y, x, cells)
    BY <1>4, <2>1, <2>2, <2>4, <2>6 DEF Multiplies
  <2> QED
    BY <1>2, <2>10 DEF size, cells, q
<1>9. CASE t = DIAGONAL
  <2>1. n = d
    BY <1>9 DEF IsBlockType, DIAGONAL
  <2>2. /\ Mult(id, size, deltas, y, x) = DiagCase(n, size, y, x)
        /\ SymMult(id, size, deltas, y, x) = DiagSymCase(n, size, y, x)
    BY <1>1, <1>9, TemplateOf
  <2>3. ASSUME NEW k \in 1..size PROVE cells[k] = Point(y + (k - 1) * d, x + (k - 1) * d)
    BY <1>5, <1>6, <1>9 DEF Along, DIAGONAL
  <2>4. DiagCase(d, size, y, x) = cells
    BY <1>14, <2>3 DEF DiagCase
  <2>5. ASSUME NEW k \in 1..size
        PROVE  Point(cells[k].x, cells[k].y) = Point(x + (k - 1) * d, y + (k - 1) * d)
    <3>1. cells[k] = Point(y + (k - 1) * d, x + (k - 1) * d)
      BY <2>3
    <3>2. cells[k].y = y + (k - 1) * d /\ cells[k].x = x + (k - 1) * d
      BY ONLY <3>1, PointIs
    <3> QED
      BY ONLY Zenon, <3>2
  <2>6. DiagSymCase(d, size, y, x) = sym
    BY <2>3, <2>5 DEF DiagSymCase
  <2> HIDE DEF n
  <2>10. Multiplies(id, size, deltas, y, x, cells)
    BY <1>4, <2>1, <2>2, <2>4, <2>6 DEF Multiplies
  <2> QED
    BY <1>2, <2>10 DEF size, cells, q
<1>10. CASE t = REV_DIAGONAL
  <2>1. n = d
    BY <1>10 DEF IsBlockType, REV_DIAGONAL
  <2>2. /\ Mult(id, size, deltas, y, x) = RDiagCase(n, size, y, x)
        /\ SymMult(id, size, deltas, y, x) = RDiagSymCase(n, size, y, x)
    BY <1>1, <1>10, TemplateOf
  <2>3. ASSUME NEW k \in 1..size PROVE cells[k] = Point(y + (k - 1) * d, x - (k - 1) * d)
    BY <1>5, <1>6, <1>10 DEF Along, REV_DIAGONAL
  <2>4. RDiagCase(d, size, y, x) = cells
    BY <1>14, <2>3 DEF RDiagCase
  <2>5. ASSUME NEW k \in 1..size
        PROVE  Point(cells[k].x, cells[k].y) = Point(x - (k - 1) * d, y + (k - 1) * d)
    <3>1. cells[k] = Point(y + (k - 1) * d, x - (k - 1) * d)
      BY <2>3
    <3>2. cells[k].y = y + (k - 1) * d /\ cells[k].x = x - (k - 1) * d
      BY ONLY <3>1, PointIs
    <3> QED
      BY ONLY Zenon, <3>2
  <2> DEFINE end == d * size
  <2>6. end \in Int
    BY <1>1 DEF Pos
  <2> HIDE DEF end
  <2>7. ASSUME NEW k \in 1..size PROVE x - end + (end - (k - 1) * d) = x - (k - 1) * d
    <3> DEFINE i == (k - 1) * d
    <3>1. i \in Int
      BY <1>6
    <3> HIDE DEF i
    <3>2. x - end + (end - i) = x - i
      BY <2>6, <3>1
    <3> QED
      BY <3>2 DEF i
  <2>8. RDiagSymCase(d, size, y, x) = sym
    <3>1. RDiagSymCase(d, size, y, x)
            = [k \in 1..size |-> [product |-> Point(y + (k - 1) * d, x - end + (end - (k - 1) * d)),
                                  mirror |-> Point(x - end + (end - (k - 1) * d), y + (k - 1) * d)]]
      BY DEF RDiagSymCase, end
    <3> QED
      BY <2>3, <2>5, <2>7, <3>1
  <2> HIDE DEF n
  <2>10. Multiplies(id, size, deltas, y, x, cells)
    BY <1>4, <2>1, <2>2, <2>4, <2>8 DEF Multiplies
  <2> QED
    BY <1>2, <2>10 DEF size, cells, q
<1>11. ASSUME NEW r \in BlockSizes, t = BLOCK_R(r)
       PROVE  Multiplies(GetPatternId(p), p.size, deltas, y, x, Reached(p, Point(y, x)))
  <2>1. IsBlockType(t) = r /\ r # 0 /\ t = <<"BLOCK_R", r>> /\ t[2] = r
    BY <1>11 DEF IsBlockType, BLOCK_R, BlockSizes
  <2>2. n = p.other /\ d = 1 /\ size = r * n
    BY <1>1, <2>1
  <2>3. /\ Mult(id, size, deltas, y, x) = BlockRowCase(r, n, y, x)
        /\ SymMult(id, size, deltas, y, x) = BlockRowSymCase(r, n, y, x)
    BY <1>1, <1>11, TemplateOf
  <2> HIDE DEF n
  <2>4. ASSUME NEW k \in 1..size
        PROVE  cells[k] = Point(y + ((k - 1) % r), x + ((k - 1) \div r))
    <3>1. (k - 1) * d = k - 1
      BY <1>1, <2>2
    <3> QED
      BY <1>5, <1>6, <2>1, <3>1 DEF Along
  <2>5. BlockRowCase(r, n, y, x) = cells
    BY <1>14, <2>2, <2>4 DEF BlockRowCase
  <2>6. ASSUME NEW k \in 1..size
        PROVE  Point(cells[k].x, cells[k].y) = Point(x + ((k - 1) \div r), y + ((k - 1) % r))
    <3>1. cells[k] = Point(y + ((k - 1) % r), x + ((k - 1) \div r))
      BY <2>4
    <3>2. cells[k].y = y + ((k - 1) % r) /\ cells[k].x = x + ((k - 1) \div r)
      BY ONLY <3>1, PointIs
    <3> QED
      BY ONLY Zenon, <3>2
  <2>7. BlockRowSymCase(r, n, y, x) = sym
    BY <2>2, <2>4, <2>6 DEF BlockRowSymCase
  <2>8. Multiplies(id, size, deltas, y, x, cells)
    BY <1>4, <2>3, <2>5, <2>7 DEF Multiplies
  <2> QED
    BY <1>2, <2>8 DEF size, cells
<1>12. ASSUME NEW c \in BlockSizes, t = BLOCK_C(c)
       PROVE  Multiplies(GetPatternId(p), p.size, deltas, y, x, Reached(p, Point(y, x)))
  <2>1. IsBlockType(t) = c /\ c # 0 /\ t = <<"BLOCK_C", c>> /\ t[2] = c
    BY <1>12 DEF IsBlockType, BLOCK_C, BlockSizes
  <2>2. n = p.other /\ d = 1 /\ size = n * c
    <3>1. n = p.other /\ d = 1 /\ size = c * n
      BY <1>1, <2>1
    <3> HIDE DEF n
    <3>2. n \in Nat /\ c \in Nat
      BY <1>1, <3>1 DEF BlockSizes
    <3>3. c * n = n * c
      BY <3>2
    <3> QED
      BY <3>1, <3>3
  <2>3. /\ Mult(id, size, deltas, y, x) = BlockColCase(n, c, y, x)
        /\ SymMult(id, size, deltas, y, x) = BlockColSymCase(n, c, y, x)
    BY <1>1, <1>12, TemplateOf
  <2> HIDE DEF n
  <2>4. ASSUME NEW k \in 1..size
        PROVE  cells[k] = Point(y + ((k - 1) \div c), x + ((k - 1) % c))
    <3>1. (k - 1) * d = k - 1
      BY <1>1, <2>2
    <3> QED
      BY <1>5, <1>6, <2>1, <3>1 DEF Along
  <2>5. BlockColCase(n, c, y, x) = cells
    BY <1>14, <2>2, <2>4 DEF BlockColCase
  <2>6. ASSUME NEW k \in 1..size
        PROVE  Point(cells[k].x, cells[k].y) = Point(x + ((k - 1) % c), y + ((k - 1) \div c))
    <3>1. cells[k] = Point(y + ((k - 1) \div c), x + ((k - 1) % c))
      BY <2>4
    <3>2. cells[k].y = y + ((k - 1) \div c) /\ cells[k].x = x + ((k - 1) % c)
      BY ONLY <3>1, PointIs
    <3> QED
      BY ONLY Zenon, <3>2
  <2>7. BlockColSymCase(n, c, y, x) = sym
    BY <2>2, <2>4, <2>6 DEF BlockColSymCase
  <2>8. Multiplies(id, size, deltas, y, x, cells)
    BY <1>4, <2>3, <2>5, <2>7 DEF Multiplies
  <2> QED
    BY <1>2, <2>8 DEF size, cells
<1>13. \/ t \in {HORIZONTAL, VERTICAL, DIAGONAL, REV_DIAGONAL}
       \/ \E r \in BlockSizes : t = BLOCK_R(r)
       \/ \E c \in BlockSizes : t = BLOCK_C(c)
  BY <1>1 DEF IterOrders
<1> QED
  BY <1>7, <1>8, <1>9, <1>10, <1>11, <1>12, <1>13

\* The deltas of n columns.
DeltasAre(deltas, xs, n) ==
  /\ n \in Pos /\ \A k \in 1..n : xs[k] \in Int
  /\ \A k \in 1..(n - 1) : deltas[k] = xs[k + 1] - xs[k]
ColumnsFrom(xs, n, c) == [k \in 1..n |-> xs[k] - c]

\* The columns of a delta unit are those that the deltas are the differences of.
LEMMA DeltaColumnsAre ==
  ASSUME NEW n, NEW xs, NEW deltas, DeltasAre(deltas, xs, n),
         NEW c \in Int, NEW x, x = xs[1] - c
  PROVE  DeltaColumns(n, deltas, x) = ColumnsFrom(xs, n, c)
<1> DEFINE Obeys(f) == f = [k \in 1..n |-> IF k = 1 THEN x ELSE f[k - 1] + deltas[k - 1]]
           at == CHOOSE f : Obeys(f)
           g == [k \in 1..n |-> xs[k] - c]
           Good == {k \in 1..n : at[k] = xs[k] - c}
<1>1. DeltaColumns(n, deltas, x) = at
  BY DEF DeltaColumns
<1>2. /\ n \in Nat /\ n >= 1 /\ \A k \in 1..n : xs[k] \in Int
      /\ \A k \in 1..(n - 1) : deltas[k] = xs[k + 1] - xs[k]
  BY DEF Pos, DeltasAre
<1>3. \A k \in 1..n : g[k] = xs[k] - c
  OBVIOUS
<1>4. ASSUME NEW k \in 1..n PROVE g[k] = IF k = 1 THEN x ELSE g[k - 1] + deltas[k - 1]
  <2> HIDE DEF g
  <2>1. CASE k = 1
    BY <1>3, <2>1
  <2>2. CASE k # 1
    <3>1. k - 1 \in 1..(n - 1) /\ k - 1 \in 1..n /\ (k - 1) + 1 = k
      BY <1>2, <2>2
    <3> DEFINE j == k - 1
    <3>2. j \in 1..(n - 1) /\ j \in 1..n /\ j + 1 = k
      BY <3>1
    <3> HIDE DEF j
    <3>3. deltas[j] = xs[k] - xs[j]
      BY <1>2, <3>2
    <3>4. g[j] = xs[j] - c /\ g[k] = xs[k] - c /\ xs[j] \in Int /\ xs[k] \in Int
      BY <1>2, <1>3, <3>2
    <3>5. g[k] = g[j] + deltas[j]
      BY <3>3, <3>4
    <3> QED
      BY <2>2, <3>5 DEF j
  <2> QED
    BY <2>1, <2>2
<1>5. Obeys(g)
  <2>1. g = [k \in 1..n |-> g[k]]
    OBVIOUS
  <2> HIDE DEF g
  <2> QED
    BY <1>4, <2>1
<1>6. Obeys(at)
  <2> HIDE DEF Obeys
  <2> QED
    BY <1>5
<1> HIDE DEF at
<1>7. /\ at = [k \in 1..n |-> at[k]] /\ at[1] = x
      /\ \A k \in 2..n : at[k] = at[k - 1] + deltas[k - 1]
  <2>1. at = [k \in 1..n |-> IF k = 1 THEN x ELSE at[k - 1] + deltas[k - 1]]
    BY <1>6
  <2>2. 1 \in 1..n /\ \A k \in 2..n : k \in 1..n /\ k # 1
    BY <1>2
  <2>3. at[1] = x /\ \A k \in 2..n : at[k] = at[k - 1] + deltas[k - 1]
    BY <2>1, <2>2
  <2>4. at = [k \in 1..n |-> at[k]]
    BY <2>1
  <2> QED
    BY <2>3, <2>4
<1>8. 1 \in Good
  BY <1>2, <1>7
<1>9. ASSUME NEW k \in 1..(n - 1), k \in Good PROVE k + 1 \in Good
  <2>1. k + 1 \in 2..n /\ (k + 1) - 1 = k /\ k + 1 \in 1..n /\ k \in 1..n
    BY <1>2
  <2>2. at[k + 1] = at[k] + deltas[k]
    BY <1>7, <2>1
  <2>3. at[k] = xs[k] - c /\ deltas[k] = xs[k + 1] - xs[k] /\ xs[k] \in Int /\ xs[k + 1] \in Int
    BY <1>2, <1>9, <2>1
  <2>4. at[k + 1] = xs[k + 1] - c
    BY <2>2, <2>3
  <2> QED
    BY <2>1, <2>4
<1>10. 1..n \subseteq Good
  <2> HIDE DEF Good
  <2>1. 1 \in Int /\ n \in Int
    BY <1>2
  <2> QED
    BY Zenon, <1>8, <1>9, <2>1, IntervalInduction
<1>11. \A k \in 1..n : at[k] = xs[k] - c
  BY <1>10
<1> QED
  BY <1>1, <1>7, <1>11 DEF ColumnsFrom

\* The template of a unit of single elements.
LEMMA DeltaTemplate ==
  ASSUME NEW id, id[1] = DELTA, NEW size, NEW deltas, NEW y, NEW x
  PROVE  /\ Mult(id, size, deltas, y, x) = DeltaCase(size, deltas, y, x)
         /\ SymMult(id, size, deltas, y, x) = DeltaSymCase(size, deltas, y, x)
<1> DEFINE Rs == {BLOCK_R(r) : r \in BlockSizes}
           Cs == {BLOCK_C(c) : c \in BlockSizes}
           t == id[1]
           n == id[2]
<1>1. /\ DELTA # HORIZONTAL /\ DELTA # VERTICAL /\ DELTA # DIAGONAL /\ DELTA # REV_DIAGONAL
      /\ DELTA \notin Rs /\ DELTA \notin Cs
  BY DEF BLOCK_R, BLOCK_C, DELTA, HORIZONTAL, VERTICAL, DIAGONAL, REV_DIAGONAL
<1>2. /\ Mult(id, size, deltas, y, x) =
           CASE t = DELTA        -> DeltaCase(size, deltas, y, x)
             [] t = HORIZONTAL   -> HorizCase(n, size, y, x)
             [] t = VERTICAL     -> VertCase(n, size, y, x)
             [] t = DIAGONAL     -> DiagCase(n, size, y, x)
             [] t = REV_DIAGONAL -> RDiagCase(n, size, y, x)
             [] t \in Rs         -> BlockRowCase(IsBlockType(t), n, y, x)
             [] t \in Cs         -> BlockColCase(n, IsBlockType(t), y, x)
      /\ SymMult(id, size, deltas, y, x) =
           CASE t = DELTA        -> DeltaSymCase(size, deltas, y, x)
             [] t = HORIZONTAL   -> HorizSymCase(n, size, y, x)
             [] t = VERTICAL     -> VertSymCase(n, size, y, x)
             [] t = DIAGONAL     -> DiagSymCase(n, size, y, x)
             [] t = REV_DIAGONAL -> RDiagSymCase(n, size, y, x)
             [] t \in Rs         -> BlockRowSymCase(IsBlockType(t), n, y, x)
             [] t \in Cs         -> BlockColSymCase(n, IsBlockType(t), y, x)
  BY DEF Mult, SymMult
<1>3. t = DELTA
  OBVIOUS
<1> HIDE DEF Rs, Cs, t, n
<1> QED
  BY <1>1, <1>2, <1>3

\* The unit of single elements multiplies those at its columns.
LEMMA DeltaUnitMultiplies ==
  ASSUME NEW n, NEW xs, NEW deltas, DeltasAre(deltas, xs, n),
         NEW id, id[1] = DELTA, NEW y
  PROVE  Multiplies(id, n, deltas, y, xs[1], [k \in 1..n |-> Point(y, xs[k])])
<1> DEFINE cells == [k \in 1..n |-> Point(y, xs[k])]
           at == DeltaColumns(n, deltas, xs[1])
           x == xs[1]
<1>1. at = [k \in 1..n |-> xs[k] - 0]
  <2> DEFINE c == 0
  <2>1. x = xs[1] - c /\ c \in Int
    BY DEF Pos, DeltasAre
  <2> HIDE DEF x, c
  <2>2. DeltaColumns(n, deltas, x) = ColumnsFrom(xs, n, c)
    BY <2>1, DeltaColumnsAre
  <2> QED
    BY <2>2 DEF x, c, ColumnsFrom
<1> HIDE DEF at
<1>2. \A k \in 1..n : at[k] = xs[k]
  <2>1. \A k \in 1..n : at[k] = xs[k] - 0 /\ xs[k] \in Int
    BY <1>1 DEF DeltasAre
  <2> QED
    BY <2>1
<1>3. Mult(id, n, deltas, y, x) = [k \in 1..n |-> Point(y, at[k])]
  <2>1. Mult(id, n, deltas, y, x) = DeltaCase(n, deltas, y, x)
    BY DeltaTemplate
  <2> QED
    BY <2>1 DEF DeltaCase, at
<1>4. SymMult(id, n, deltas, y, x)
        = [k \in 1..n |-> [product |-> Point(y, at[k]), mirror |-> Point(at[k], y)]]
  <2>1. SymMult(id, n, deltas, y, x) = DeltaSymCase(n, deltas, y, x)
    BY DeltaTemplate
  <2> QED
    BY <2>1 DEF DeltaSymCase, at
<1> HIDE DEF x
<1>5. IsSeq(cells) /\ Len(cells) = n
  <2>1. cells = [k \in 1..n |-> cells[k]] /\ n \in Nat
    BY DEF Pos, DeltasAre
  <2> HIDE DEF cells
  <2> QED
    BY <2>1, FunctionIs
<1>6. \A k \in 1..n : cells[k] = Point(y, xs[k])
  OBVIOUS
<1>7. Mult(id, n, deltas, y, x) = cells
  BY <1>2, <1>3
<1> HIDE DEF cells
<1>8. ASSUME NEW k \in 1..n
      PROVE  [product |-> Point(y, at[k]), mirror |-> Point(at[k], y)]
               = [product |-> cells[k], mirror |-> Point(cells[k].x, cells[k].y)]
  <2>1. cells[k] = Point(y, xs[k]) /\ at[k] = xs[k]
    BY <1>2, <1>6
  <2>2. cells[k].y = y /\ cells[k].x = xs[k]
    BY ONLY <2>1, PointIs
  <2> QED
    BY ONLY Zenon, <2>1, <2>2
<1>9. SymMult(id, n, deltas, y, x)
        = [k \in 1..n |-> [product |-> cells[k], mirror |-> Point(cells[k].x, cells[k].y)]]
  BY ONLY Zenon, <1>4, <1>8
<1>10. Multiplies(id, n, deltas, y, x, cells)
  BY ONLY Zenon, <1>5, <1>7, <1>9 DEF Multiplies
<1> QED
  BY <1>10 DEF cells, x

\* It leaves the kernel at the last of them.
LEMMA DeltaUnitLeaves ==
  ASSUME NEW n, NEW xs, NEW deltas, DeltasAre(deltas, xs, n),
         NEW id, id[1] = DELTA, NEW x, x = xs[1] - 1
  PROVE  LeavesX(id, n, deltas, x) = xs[n] - 1
<1>1. DeltaColumns(n, deltas, x) = [k \in 1..n |-> xs[k] - 1]
  <2> DEFINE c == 1
  <2>1. x = xs[1] - c /\ c \in Int
    OBVIOUS
  <2> HIDE DEF c
  <2>2. DeltaColumns(n, deltas, x) = ColumnsFrom(xs, n, c)
    BY <2>1, DeltaColumnsAre
  <2> QED
    BY <2>2 DEF c, ColumnsFrom
<1>2. n \in 1..n
  BY DEF Pos, DeltasAre
<1>3. DeltaColumns(n, deltas, x)[n] = xs[n] - 1
  BY <1>1, <1>2
<1> QED
  BY <1>3 DEF LeavesX

\* A pattern leaves the kernel where the writer counts on.
LEMMA PatternLeaves ==
  ASSUME NEW p, PatternIs(p), p # NoPattern, p.size \in Pos, NEW x \in Int, NEW deltas
  PROVE  /\ LeavesX(GetPatternId(p), p.size, deltas, x - 1) = ColIncreaseJmp(p, HORIZONTAL, x) - 1
         /\ ColIncreaseJmp(p, HORIZONTAL, x) \in Int /\ ColIncreaseJmp(p, HORIZONTAL, x) >= x
         /\ GetPatternId(p)[1] # DELTA
<1> DEFINE t == p.order
           id == GetPatternId(p)
<1>1. t \in IterOrders /\ p.delta \in Pos
  BY DEF PatternIs
<1>2. t # DELTA
  BY <1>1 DEF IterOrders, HORIZONTAL, VERTICAL, DIAGONAL, REV_DIAGONAL, BLOCK_R, BLOCK_C, DELTA
<1>3. id[1] = t /\ (t = HORIZONTAL => id[2] = p.delta)
  BY DEF GetPatternId, IsBlockType, HORIZONTAL
<1> HIDE DEF id, t
<1> DEFINE a == (p.size - 1) * p.delta
<1>4. a \in Nat
  BY <1>1 DEF Pos
<1>5. CASE t = HORIZONTAL
  <2>1. LeavesX(id, p.size, deltas, x - 1) = (x - 1) + a
    BY <1>2, <1>3, <1>5 DEF LeavesX
  <2>2. ColIncreaseJmp(p, HORIZONTAL, x) = x + a
    BY <1>5 DEF ColIncreaseJmp, t
  <2> HIDE DEF a
  <2> QED
    BY <1>2, <1>3, <1>4, <2>1, <2>2 DEF id
<1>6. CASE t # HORIZONTAL
  <2>1. LeavesX(id, p.size, deltas, x - 1) = x - 1
    BY <1>2, <1>3, <1>6 DEF LeavesX
  <2>2. ColIncreaseJmp(p, HORIZONTAL, x) = x
    BY <1>6 DEF ColIncreaseJmp, t
  <2> QED
    BY <1>2, <1>3, <2>1, <2>2 DEF id
<1> QED
  BY <1>5, <1>6

-----------------------------------------------------------------------------
(***************************************************************************)
(* What the kernel reads of a unit.                                        *)
(***************************************************************************)
\* n is q times d and a remainder.
Divides(n, d, q, r) == d \in Pos /\ q \in Nat /\ r \in 0..(d - 1) /\ n = q * d + r

\* A quotient and a remainder are the only ones.
LEMMA QuotientIs ==
  ASSUME NEW n, NEW d, NEW q, NEW r, Divides(n, d, q, r)
  PROVE  n \div d = q /\ n % d = r
<1> DEFINE a == n \div d
           b == n % d
<1>1. /\ d \in Nat /\ q * d \in Nat /\ n \in Nat /\ d \in Pos /\ q \in Nat
      /\ r \in 0..(d - 1) /\ n = q * d + r
  BY DEF Pos, Divides
<1>2. a \in Nat /\ b \in 0..(d - 1) /\ n = a * d + b
  BY <1>1, DivisionIs
<1> HIDE DEF a, b
<1>3. a * d \in Int
  BY <1>1, <1>2
<1>4. CASE a < q
  <2>1. a * d <= (q - 1) * d /\ (q - 1) * d = q * d - d
    BY <1>1, <1>2, <1>4, MultiplesApart
  <2> DEFINE ad == a * d
             qd == q * d
             c == (q - 1) * d
  <2>2. ad <= c /\ c = qd - d /\ n = ad + b /\ n = qd + r /\ ad \in Int /\ qd \in Int
    BY <1>1, <1>2, <1>3, <2>1
  <2> HIDE DEF ad, qd, c
  <2> QED
    BY <1>1, <1>2, <2>2
<1>5. CASE q < a
  <2>1. q * d <= (a - 1) * d /\ (a - 1) * d = a * d - d
    BY <1>1, <1>2, <1>5, MultiplesApart
  <2> DEFINE ad == a * d
             qd == q * d
             c == (a - 1) * d
  <2>2. qd <= c /\ c = ad - d /\ n = ad + b /\ n = qd + r /\ ad \in Int /\ qd \in Int
    BY <1>1, <1>2, <1>3, <2>1
  <2> HIDE DEF ad, qd, c
  <2> QED
    BY <1>1, <1>2, <2>2
<1>6. ASSUME a = q PROVE b = r
  <2> DEFINE qd == q * d
  <2>1. n = qd + b /\ n = qd + r /\ qd \in Int /\ r \in Int
    BY <1>1, <1>2, <1>6
  <2> HIDE DEF qd
  <2> QED
    BY <1>2, <2>1
<1>7. a < q \/ q < a \/ a = q
  BY <1>1, <1>2
<1> QED
  BY <1>4, <1>5, <1>6, <1>7 DEF a, b

\* The bits of a flags byte: the pattern's flag, the bit of a new row and that of a jump.
LEMMA BitsAre ==
  ASSUME NEW flag \in 0..PatternsMax
  PROVE  /\ CTL_RJMP_BIT \in Int /\ CTL_NR_BIT \in Int
         /\ PatternOf(flag) = flag /\ ~test_bit(flag, CTL_NR_BIT)
         /\ PatternOf(flag + CTL_NR_BIT) = flag /\ test_bit(flag + CTL_NR_BIT, CTL_NR_BIT)
         /\ ~test_bit(flag + CTL_NR_BIT, CTL_RJMP_BIT)
         /\ PatternOf(flag + (CTL_NR_BIT + CTL_RJMP_BIT)) = flag
         /\ test_bit(flag + (CTL_NR_BIT + CTL_RJMP_BIT), CTL_NR_BIT)
         /\ test_bit(flag + (CTL_NR_BIT + CTL_RJMP_BIT), CTL_RJMP_BIT)
<1> DEFINE R == CTL_RJMP_BIT
           N == CTL_NR_BIT
<1>1. R \in Pos /\ N \in Pos /\ N = 2 * R /\ flag \in 0..(R - 1) /\ R \in Int /\ N \in Int
      /\ flag \in 0..(N - 1) /\ flag + R \in 0..(N - 1)
  BY PatternsAssumption DEF CTL_RJMP_BIT, CTL_NR_BIT, Pos
<1> DEFINE fN == flag + N
           fJ == flag + (N + R)
<1> HIDE DEF R, N
<1>2. /\ flag = 0 * R + flag /\ flag = 0 * N + flag
      /\ fN = 2 * R + flag /\ fN = 1 * N + flag
      /\ fJ = 3 * R + flag /\ fJ = 1 * N + (flag + R)
  BY <1>1
<1> HIDE DEF fN, fJ
<1> DEFINE z == 0
           one == 1
           two == 2
           three == 3
<1>3. z \in Nat /\ one \in Nat /\ two \in Nat /\ three \in Nat
  OBVIOUS
<1>4. /\ flag = z * R + flag /\ flag = z * N + flag
      /\ fN = two * R + flag /\ fN = one * N + flag
      /\ fJ = three * R + flag /\ fJ = one * N + (flag + R)
  BY <1>2
<1> HIDE DEF z, one, two, three
<1> DEFINE r == flag + R
<1>13. /\ Divides(flag, N, z, flag) /\ Divides(flag, R, z, flag)
       /\ Divides(fN, N, one, flag) /\ Divides(fN, R, two, flag)
       /\ Divides(fJ, N, one, r) /\ Divides(fJ, R, three, flag)
  BY <1>1, <1>3, <1>4 DEF Divides
<1> HIDE DEF r
<1>5. flag \div N = z /\ flag % R = flag
  BY <1>13, QuotientIs
<1>6. fN \div N = one /\ fN \div R = two /\ fN % R = flag
  BY <1>13, QuotientIs
<1>7. fJ \div R = three /\ fJ % R = flag
  BY <1>13, QuotientIs
<1>8. fJ \div N = one
  BY <1>13, QuotientIs
<1>9. z % 2 # 1 /\ one % 2 = 1 /\ two % 2 # 1 /\ three % 2 = 1
  BY DEF z, one, two, three
<1>10. PatternOf(flag) = flag /\ ~test_bit(flag, N)
  BY <1>5, <1>9 DEF PatternOf, test_bit, R
<1>11. PatternOf(fN) = flag /\ test_bit(fN, N) /\ ~test_bit(fN, R)
  BY <1>6, <1>9 DEF PatternOf, test_bit, R
<1>12. PatternOf(fJ) = flag /\ test_bit(fJ, N) /\ test_bit(fJ, R)
  BY <1>7, <1>8, <1>9 DEF PatternOf, test_bit, R
<1> QED
  BY <1>1, <1>10, <1>11, <1>12 DEF fN, fJ, R, N

\* A jump that wraps around leads where a negative one would.
LEMMA WrapsAround ==
  ASSUME NEW a \in Int, NEW b \in Int, a + b \in 0..(Power(ByteSize, 8) - 1)
  PROVE  /\ Unsigned(a + Unsigned(b)) = a + b
         /\ (a = 0 => Unsigned(b) = b)
<1> DEFINE M == Power(ByteSize, 8)
           c == b % M
           q == b \div M
           s == a + b
<1>1. M \in Pos
  BY PowersAre DEF BytePowers
<1> HIDE DEF M
<1>2. c \in 0..(M - 1) /\ q \in Int /\ b = q * M + c
  BY <1>1 DEF Pos
<1>3. s \in 0..(M - 1)
  BY DEF M
<1> DEFINE v == a + c
           d == v % M
           p == v \div M
<1> HIDE DEF c, q
<1>4. v \in Int /\ a + c = v
  BY <1>2
<1> HIDE DEF v
<1>5. d \in 0..(M - 1) /\ p \in Int /\ v = p * M + d
  BY <1>1, <1>4 DEF Pos
<1> HIDE DEF d, p
<1> DEFINE qM == q * M
           pM == p * M
<1>6. qM \in Int /\ pM \in Int /\ M \in Nat
  BY <1>1, <1>2, <1>5 DEF Pos
<1>7. s = qM + v /\ v = pM + d /\ b = qM + c
  <2>1. v = pM + d /\ b = qM + c
    BY <1>2, <1>5
  <2> HIDE DEF qM, pM
  <2> QED
    BY <1>2, <1>4, <1>6, <2>1
<1> HIDE DEF s
<1>8. s = qM + pM + d
  <2> HIDE DEF qM, pM
  <2> QED
    BY <1>4, <1>5, <1>6, <1>7
<1>9. (q + p) * M = qM + pM /\ q + p \in Int
  BY <1>1, <1>2, <1>5 DEF Pos
<1> DEFINE e == q + p
           eM == e * M
<1>10. eM = qM + pM /\ e \in Int /\ eM \in Int
  BY <1>6, <1>9
<1> HIDE DEF qM, pM
<1>11. s = eM + d
  BY <1>5, <1>6, <1>8, <1>10
<1> HIDE DEF e
<1>12. e = 0
  <2>1. CASE e >= 1
    <3>1. eM >= M
      <4>1. 0 < e /\ 0 \in Int
        BY <1>10, <2>1
      <4>2. (e - 1) \in Nat
        BY <1>10, <2>1
      <4>3. (e - 1) * M \in Nat /\ e * M = (e - 1) * M + M
        BY <1>6, <1>10, <4>2
      <4> DEFINE w == (e - 1) * M
      <4>4. eM = w + M /\ w \in Nat
        BY <4>3
      <4> HIDE DEF w, eM
      <4> QED
        BY <1>6, <4>4
    <3> HIDE DEF eM
    <3> QED
      BY <1>3, <1>5, <1>6, <1>10, <1>11, <3>1 DEF s
  <2>2. CASE e <= -1
    <3>1. eM <= -M
      <4>2. (-1 - e) \in Nat
        BY <1>10, <2>2
      <4>3. (-1 - e) * M \in Nat /\ (-1 - e) * M = -M - e * M
        BY <1>6, <1>10, <4>2
      <4> DEFINE w == (-1 - e) * M
      <4>4. w = -M - eM /\ w \in Nat
        BY <4>3
      <4> HIDE DEF w, eM
      <4> QED
        BY <1>6, <1>10, <4>4
    <3> HIDE DEF eM
    <3> QED
      BY <1>3, <1>5, <1>6, <1>10, <1>11, <3>1 DEF s
  <2> QED
    BY <1>10, <2>1, <2>2
<1>13. d = s
  <2>1. eM = 0
    BY <1>6, <1>12
  <2> HIDE DEF eM
  <2> QED
    BY <1>5, <1>11, <2>1
<1>14. a + Unsigned(b) = v /\ Unsigned(v) = d
  BY <1>4 DEF Unsigned, M, c, d
<1>15. a = 0 => Unsigned(b) = b
  <2>1. ASSUME a = 0 PROVE b % M = b
    <3>1. b \in 0..(M - 1)
      BY <1>3, <2>1 DEF s
    <3> DEFINE z == 0
    <3>2. b = z * M + b /\ z \in Nat
      BY <1>6, <3>1
    <3> HIDE DEF z
    <3>3. Divides(b, M, z, b)
      BY <1>1, <3>1, <3>2 DEF Divides
    <3> QED
      BY <3>3, QuotientIs
  <2> QED
    BY <2>1 DEF Unsigned, M
<1> QED
  BY <1>13, <1>14, <1>15 DEF s

\* The numbers that so many bytes can hold.
Numbers(bytes) == 0..(Power(ByteSize, bytes) - 1)

\* A unit whose numbers can be written.
UnitIs(u) ==
  /\ u.flag \in Nat /\ u.nr \in BOOLEAN /\ u.rj \in BOOLEAN /\ (u.rj => u.nr)
  /\ u.jmp \in Numbers(8) /\ (~u.nr => u.jmp = 0) /\ (u.nr /\ ~u.rj => u.jmp = 1)
  /\ u.size \in Pos /\ u.x \in Pos /\ u.x - 1 \in Numbers(8) /\ (full => u.x - 1 \in Numbers(4))

\* What a unit's column is counted from when the kernel is at the column a.x.
ColFrom(a, u) == u.x - (IF u.nr THEN 1 ELSE a.x + 1)

\* The deltas of a unit, at the next aligned place.
HasDeltas(u) == u.id[1] = DELTA /\ u.size > 1
DeltasFrom(u, at) == RoundUp(at - 1, u.id[2]) + 1
DataAt(c, u, from, to) ==
  \/ ~HasDeltas(u) /\ to = from /\ u.deltas = <<>>
  \/ /\ HasDeltas(u) /\ u.id[2] \in FixedLengths
     /\ u.deltas = [k \in 1..(u.size - 1) |-> u.deltas[k]]
     /\ to = DeltasFrom(u, from) + (u.size - 1) * u.id[2]
     /\ \A k \in 1..(u.size - 1) :
          /\ u.deltas[k] \in Numbers(u.id[2])
          /\ HasBytes(c, DeltasFrom(u, from) + (k - 1) * u.id[2], FixedBytes(u.deltas[k], u.id[2]))

\* The unit u is written from a.at to before to.
WrittenAt(o, a, u, to) ==
  /\ UnitIs(u) /\ a.at \in Pos /\ a.x \in Nat
  /\ HasBytes(o.ctl.elems, a.at, HeadOf(u, ColFrom(a, u)))
  /\ DataAt(o.ctl.elems, u, a.at + Len(HeadOf(u, ColFrom(a, u))), to)
  /\ to - 1 <= Len(o.ctl.elems)
  /\ (u.rj => o.rowJmps)
  /\ u.flag + 1 \in 1..Len(o.patterns) /\ o.patterns[u.flag + 1] = u.id

\* Where the pieces of a unit's head stand.
LEMMA HeadPieces ==
  ASSUME NEW c, IsSeq(c), NEW at \in Pos, NEW u, u.jmp \in Int, u.x \in Int, NEW col \in Int,
         HasBytes(c, at, HeadOf(u, col))
  PROVE  /\ c[at] = FlagsByte(u) /\ c[at + 1] = u.size
         /\ HasBytes(c, at + 2, JumpBytes(u))
         /\ HasBytes(c, at + 2 + Len(JumpBytes(u)), ColBytes(u, col))
         /\ Len(HeadOf(u, col)) = 2 + Len(JumpBytes(u)) + Len(ColBytes(u, col))
         /\ Len(JumpBytes(u)) \in Nat /\ Len(ColBytes(u, col)) \in Nat
<1> DEFINE h == <<FlagsByte(u), u.size>>
           j == JumpBytes(u)
           b == ColBytes(u, col)
           hj == h \o j
           f == HeadOf(u, col)
<1>1. /\ IsSeq(h) /\ Len(h) = 2 /\ IsSeq(j) /\ IsSeq(b) /\ IsSeq(hj) /\ f = hj \o b
      /\ Len(f) = 2 + Len(j) + Len(b) /\ at \in Int
  BY HeadOfIs DEF HeadOf, Pos
<1>2. h[1] = FlagsByte(u) /\ h[2] = u.size
  OBVIOUS
<1> HIDE DEF h, j, b, f
<1>3. IsSeq(c)
  OBVIOUS
<1>4. HasBytes(c, at, hj \o b)
  BY <1>1 DEF f
<1> HIDE DEF hj
<1>5. HasBytes(c, at, hj) /\ HasBytes(c, at + Len(hj), b)
  BY ONLY <1>1, <1>3, <1>4, BytesSplit
<1>6. HasBytes(c, at, h \o j)
  BY <1>5 DEF hj
<1>7. HasBytes(c, at, h) /\ HasBytes(c, at + Len(h), j)
  BY ONLY <1>1, <1>3, <1>6, BytesSplit
<1>8. Len(hj) = 2 + Len(j)
  <2>1. Len(h \o j) = Len(h) + Len(j)
    BY <1>1, ConcatIs
  <2> QED
    BY <1>1, <2>1 DEF hj
<1>9. c[at] = h[1] /\ c[at + 1] = h[2]
  <2>1. \A k \in 1..2 : c[at + k - 1] = h[k]
    BY <1>1, <1>7 DEF HasBytes
  <2>2. at + 1 - 1 = at /\ at + 2 - 1 = at + 1 /\ 1 \in 1..2 /\ 2 \in 1..2
    BY <1>1
  <2> QED
    BY <2>1, <2>2
<1>10. at + Len(hj) = at + 2 + Len(j) /\ Len(j) \in Nat /\ Len(b) \in Nat
  BY <1>1, <1>8 DEF IsSeq
<1> QED
  BY <1>1, <1>2, <1>5, <1>7, <1>9, <1>10 DEF j, b, f

\* The flags say what they were set for.
LEMMA FlagsRead ==
  ASSUME NEW u, UnitIs(u), u.flag <= PatternsMax
  PROVE  /\ PatternOf(FlagsByte(u)) = u.flag
         /\ test_bit(FlagsByte(u), CTL_NR_BIT) <=> u.nr
         /\ u.nr => (test_bit(FlagsByte(u), CTL_RJMP_BIT) <=> u.rj)
<1> DEFINE f == u.flag
<1>1. f \in 0..PatternsMax /\ f \in Int
  BY PatternsAssumption DEF UnitIs
<1>2. u.rj => u.nr
  BY DEF UnitIs
<1> HIDE DEF f
<1>3. /\ CTL_RJMP_BIT \in Int /\ CTL_NR_BIT \in Int
      /\ PatternOf(f) = f /\ ~test_bit(f, CTL_NR_BIT)
      /\ PatternOf(f + CTL_NR_BIT) = f /\ test_bit(f + CTL_NR_BIT, CTL_NR_BIT)
      /\ ~test_bit(f + CTL_NR_BIT, CTL_RJMP_BIT)
      /\ PatternOf(f + (CTL_NR_BIT + CTL_RJMP_BIT)) = f
      /\ test_bit(f + (CTL_NR_BIT + CTL_RJMP_BIT), CTL_NR_BIT)
      /\ test_bit(f + (CTL_NR_BIT + CTL_RJMP_BIT), CTL_RJMP_BIT)
  BY <1>1, BitsAre
<1>4. CASE ~u.nr
  <2>1. FlagsByte(u) = f
    BY <1>1, <1>2, <1>4 DEF FlagsByte, f
  <2> QED
    BY <1>3, <1>4, <2>1 DEF f
<1>5. CASE u.nr /\ ~u.rj
  <2>1. FlagsByte(u) = f + CTL_NR_BIT
    BY <1>5 DEF FlagsByte, f
  <2> QED
    BY <1>3, <1>5, <2>1 DEF f
<1>6. CASE u.nr /\ u.rj
  <2>1. FlagsByte(u) = f + (CTL_NR_BIT + CTL_RJMP_BIT)
    BY <1>6 DEF FlagsByte, f
  <2> QED
    BY <1>3, <1>6, <2>1 DEF f
<1> QED
  BY <1>4, <1>5, <1>6

\* A number written with da_put_ul is read where it stands.
LEMMA ULReads ==
  ASSUME NEW c, IsSeq(c), NEW at \in Pos, NEW val \in Int, HasBytes(c, at, UL(val))
  PROVE  ul_get(c, at) = [val |-> Unsigned(val), next |-> at + Len(UL(val))]
<1>1. ReadAs(UL(val), Unsigned(val))
  BY NumbersReadBack
<1> DEFINE s == UL(val)
           n == Unsigned(val)
<1>2. Len(c) \in Nat /\ at + Len(s) - 1 <= Len(c) /\ \A k \in 1..Len(s) : c[at + k - 1] = s[k]
  BY DEF HasBytes, IsSeq
<1> HIDE DEF s, n
<1> QED
  BY <1>1, <1>2 DEF ReadAs, s, n

\* The kernel reads from a unit's head what the writer put there.
HeadReads(a, u) ==
  LET c == out.ctl.elems
      next == a.at + 2 + Len(JumpBytes(u))
  IN  /\ PatternOf(c[a.at]) = u.flag /\ c[a.at + 1] = u.size
      /\ test_bit(c[a.at], CTL_NR_BIT) <=> u.nr
      /\ NewRowHook(c[a.at], a.at + 2) = [val |-> u.jmp, next |-> next]
      /\ NextX(IF u.nr THEN 0 ELSE a.x, next)
           = [val |-> u.x - 1, next |-> a.at + Len(HeadOf(u, ColFrom(a, u)))]

\* So it does, of every head the writer puts into the ctl.
LEMMA HeadIsRead ==
  ASSUME NEW a, NEW u, NEW to, WrittenAt(out, a, u, to), IsSeq(out.ctl.elems), u.flag <= PatternsMax
  PROVE  HeadReads(a, u)
<1> DEFINE c == out.ctl.elems
           at == a.at
           col == ColFrom(a, u)
           j == Len(JumpBytes(u))
           b == Len(ColBytes(u, col))
           from == IF u.nr THEN 0 ELSE a.x
           M == Power(ByteSize, 8)
           x0 == u.x - 1
<1>1. /\ UnitIs(u) /\ at \in Pos /\ a.x \in Nat /\ HasBytes(c, at, HeadOf(u, col))
      /\ (u.rj => out.rowJmps)
  BY DEF WrittenAt
<1>2. /\ u.nr \in BOOLEAN /\ u.rj \in BOOLEAN /\ (u.rj => u.nr)
      /\ u.jmp \in 0..(M - 1) /\ (~u.nr => u.jmp = 0) /\ (u.nr /\ ~u.rj => u.jmp = 1)
      /\ x0 \in 0..(M - 1) /\ (full => x0 \in Numbers(4)) /\ u.x \in Nat
  BY <1>1 DEF UnitIs, Numbers, Pos
<1>3. M \in Pos
  BY PowersAre DEF BytePowers
<1>4. col \in Int /\ from \in Int /\ from + col = x0 /\ u.jmp \in Int /\ u.x \in Int
  <2>1. col = u.x - (from + 1) /\ from \in Nat
    BY <1>1, <1>2 DEF ColFrom
  <2> HIDE DEF col, from
  <2> QED
    BY <1>2, <2>1
<1> HIDE DEF c, at, col, from, M
<1>5. /\ c[at] = FlagsByte(u) /\ c[at + 1] = u.size
      /\ HasBytes(c, at + 2, JumpBytes(u))
      /\ HasBytes(c, at + 2 + j, ColBytes(u, col))
      /\ Len(HeadOf(u, col)) = 2 + j + b /\ j \in Nat /\ b \in Nat
  <2>1. IsSeq(c)
    BY DEF c
  <2> QED
    BY <1>1, <1>4, <2>1, HeadPieces
<1>6. /\ PatternOf(c[at]) = u.flag /\ (test_bit(c[at], CTL_NR_BIT) <=> u.nr)
      /\ (u.nr => (test_bit(c[at], CTL_RJMP_BIT) <=> u.rj))
  BY <1>1, <1>5, FlagsRead
<1> HIDE DEF j, b
<1>7. at + 2 \in Pos /\ at + 2 + j \in Pos /\ IsSeq(c)
  BY <1>1, <1>5 DEF Pos, c
<1>8. NewRowHook(c[at], at + 2) = [val |-> u.jmp, next |-> at + 2 + j]
  <2>1. CASE ~u.nr
    <3>1. JumpBytes(u) = <<>>
      BY <1>2, <2>1 DEF JumpBytes
    <3>2. at + 2 + j = at + 2
      BY <1>1, <3>1 DEF j, Pos
    <3>3. NewRowHook(c[at], at + 2) = [val |-> 0, next |-> at + 2]
      BY <1>6, <2>1 DEF NewRowHook
    <3> QED
      BY <1>2, <2>1, <3>2, <3>3
  <2>2. CASE u.nr /\ ~u.rj
    <3>1. JumpBytes(u) = <<>>
      BY <2>2 DEF JumpBytes
    <3>2. at + 2 + j = at + 2
      BY <1>1, <3>1 DEF j, Pos
    <3>3. NewRowHook(c[at], at + 2) = [val |-> 1, next |-> at + 2]
      BY <1>6, <2>2 DEF NewRowHook
    <3> QED
      BY <1>2, <2>2, <3>2, <3>3
  <2>3. CASE u.nr /\ u.rj
    <3>1. JumpBytes(u) = UL(u.jmp)
      BY <2>3 DEF JumpBytes
    <3>2. ul_get(c, at + 2) = [val |-> Unsigned(u.jmp), next |-> at + 2 + j]
      <4> DEFINE p == at + 2
      <4>1. HasBytes(c, p, UL(u.jmp)) /\ p \in Pos /\ u.jmp \in Int
        BY <1>4, <1>5, <1>7, <3>1
      <4> HIDE DEF p
      <4>2. ul_get(c, p) = [val |-> Unsigned(u.jmp), next |-> p + Len(UL(u.jmp))]
        BY <1>7, <4>1, ULReads
      <4> QED
        BY <3>1, <4>2 DEF j, p
    <3>3. Unsigned(u.jmp) = u.jmp
      <4> DEFINE z == 0
                 n == u.jmp
      <4>1. z \in Int /\ n \in Int /\ z + n \in 0..(Power(ByteSize, 8) - 1) /\ z = 0
        BY <1>2, <1>4 DEF M
      <4> HIDE DEF z, n
      <4>2. Unsigned(n) = n
        BY <4>1, WrapsAround
      <4> QED
        BY <4>2 DEF n
    <3>4. NewRowHook(c[at], at + 2) = ul_get(c, at + 2)
      BY <1>1, <1>6, <2>3 DEF NewRowHook, c
    <3> QED
      BY <3>2, <3>3, <3>4
  <2> QED
    BY <1>2, <2>1, <2>2, <2>3
<1>9. NextX(from, at + 2 + j) = [val |-> x0, next |-> at + 2 + j + b]
  <2> DEFINE p == at + 2 + j
  <2>1. p \in Pos /\ HasBytes(c, p, ColBytes(u, col)) /\ p \in Int
    BY <1>5, <1>7 DEF Pos
  <2> HIDE DEF p
  <2>2. CASE full
    <3> DEFINE n == 4
               s == FixedBytes(x0, n)
    <3>1. ColBytes(u, col) = s
      BY <2>2 DEF ColBytes
    <3>2. n \in FixedLengths
      BY DEF FixedLengths
    <3>3. x0 \in Nat /\ x0 < Power(ByteSize, n)
      <4>1. Power(ByteSize, n) \in Pos
        BY PowersAre DEF BytePowers
      <4>2. x0 \in 0..(Power(ByteSize, n) - 1)
        BY <1>2, <2>2 DEF Numbers
      <4> HIDE DEF n, x0
      <4> QED
        BY <4>1, <4>2 DEF Pos
    <3>4. NextX(from, p) = [val |-> fixed_get(c, p, n), next |-> p + n]
      BY <2>2 DEF NextX, c
    <3> HIDE DEF n, x0, s
    <3>5. Len(s) = n
      BY <3>2, FixedIs DEF s
    <3>6. \A k \in 1..n : c[p + k - 1] = FixedBytes(x0, n)[k]
      BY <2>1, <3>1, <3>5 DEF HasBytes, s
    <3>7. fixed_get(c, p, n) = x0
      BY <2>1, <3>2, <3>3, <3>6, FixedReadsBack
    <3> QED
      BY <3>1, <3>4, <3>5, <3>7 DEF b, p
  <2>3. CASE ~full
    <3>1. ColBytes(u, col) = UL(col)
      BY <2>3 DEF ColBytes
    <3>2. ul_get(c, p) = [val |-> Unsigned(col), next |-> p + b]
      <4>1. HasBytes(c, p, UL(col))
        BY <2>1, <3>1
      <4>2. ul_get(c, p) = [val |-> Unsigned(col), next |-> p + Len(UL(col))]
        BY <1>4, <1>7, <2>1, <4>1, ULReads
      <4> QED
        BY <3>1, <4>2 DEF b
    <3>3. Unsigned(from + Unsigned(col)) = x0
      <4>1. from + col \in 0..(Power(ByteSize, 8) - 1)
        BY <1>2, <1>4 DEF M
      <4>2. Unsigned(from + Unsigned(col)) = from + col
        BY <1>4, <4>1, WrapsAround
      <4> QED
        BY <1>4, <4>2
    <3>4. NextX(from, p) = [val |-> Unsigned(from + ul_get(c, p).val), next |-> ul_get(c, p).next]
      BY <2>3 DEF NextX, c
    <3> QED
      BY <3>2, <3>3, <3>4 DEF p
  <2> QED
    BY <2>2, <2>3
<1>10. at + 2 + j + b = at + Len(HeadOf(u, col))
  BY <1>1, <1>5 DEF Pos
<1> QED
  BY <1>5, <1>6, <1>8, <1>9, <1>10 DEF HeadReads, c, at, col, from, j

\* And the deltas that it put behind.
LEMMA DeltasAreRead ==
  ASSUME NEW u, u.size \in Pos, HasDeltas(u), NEW from \in Pos, NEW to, DataAt(out.ctl.elems, u, from, to)
  PROVE  GetDeltas(from, u.id[2], u.size) = [val |-> u.deltas, next |-> to]
<1> DEFINE c == out.ctl.elems
           n == u.id[2]
           start == DeltasFrom(u, from)
           m == u.size - 1
           d == u.deltas
<1>1. /\ n \in FixedLengths /\ d = [k \in 1..m |-> d[k]] /\ to = start + m * n
      /\ \A k \in 1..m : /\ d[k] \in Numbers(n)
                         /\ HasBytes(c, start + (k - 1) * n, FixedBytes(d[k], n))
  BY DEF DataAt
<1>2. GetDeltas(from, n, u.size)
        = [val |-> [k \in 1..m |-> fixed_get(c, start + (k - 1) * n, n)], next |-> start + m * n]
  BY Zenon DEF GetDeltas, DeltasFrom
<1>3. n \in Pos /\ m \in Nat /\ from - 1 \in Nat
  <2>1. n \in {1, 2, 4, 8}
    BY <1>1 DEF FixedLengths
  <2>2. u.size \in Int /\ u.size > 0 /\ from \in Int /\ from > 0
    BY DEF Pos
  <2> HIDE DEF n
  <2> QED
    BY <2>1, <2>2 DEF Pos
<1>4. start \in Int
  BY <1>3, RoundUpIs DEF DeltasFrom
<1> HIDE DEF c, n, start, m, d
<1>5. ASSUME NEW k \in 1..m PROVE fixed_get(c, start + (k - 1) * n, n) = d[k]
  <2> DEFINE at == start + (k - 1) * n
             val == d[k]
  <2>1. (k - 1) * n \in Int
    BY <1>3 DEF Pos
  <2>2. at \in Int
    BY <1>4, <2>1
  <2>3. HasBytes(c, at, FixedBytes(val, n)) /\ val \in 0..(Power(ByteSize, n) - 1)
    BY <1>1 DEF Numbers
  <2> HIDE DEF at, val
  <2>4. Len(FixedBytes(val, n)) = n
    BY <1>1, FixedIs
  <2>5. \A i \in 1..n : c[at + i - 1] = FixedBytes(val, n)[i]
    BY <2>3, <2>4 DEF HasBytes
  <2>6. val \in Nat /\ val < Power(ByteSize, n)
    <3>1. Power(ByteSize, n) \in Pos
      BY <1>1, PowersAre DEF BytePowers, FixedLengths
    <3> QED
      BY <2>3, <3>1 DEF Pos
  <2>7. fixed_get(c, at, n) = val
    BY <1>1, <2>2, <2>5, <2>6, FixedReadsBack
  <2> QED
    BY <2>7 DEF at, val
<1>6. [k \in 1..m |-> fixed_get(c, start + (k - 1) * n, n)] = d
  <2> DEFINE e == [k \in 1..m |-> fixed_get(c, start + (k - 1) * n, n)]
  <2>1. \A k \in 1..m : e[k] = d[k]
    BY <1>5
  <2>2. e = [k \in 1..m |-> e[k]]
    OBVIOUS
  <2> HIDE DEF e
  <2>3. e = d
    BY <1>1, <2>1, <2>2
  <2> QED
    BY <2>3 DEF e
<1> QED
  BY <1>1, <1>2, <1>6 DEF n, d

-----------------------------------------------------------------------------
(***************************************************************************)
(* Writing unit after unit, as the kernel will read them.                  *)
(***************************************************************************)
\* More was written, and what there was is still in place.
Grown(new, o) ==
  /\ Extends(new.ctl.elems, o.ctl.elems) /\ Extends(new.patterns, o.patterns)
  /\ Extends(new.values, o.values) /\ (o.rowJmps => new.rowJmps)

\* A state of the kernel between two units: its place, row and column, and how many
\* values it has multiplied.
StateIs(a) == a.at \in Pos /\ a.y \in Nat /\ a.x \in Nat /\ a.n \in Nat
StartState == [at |-> 1, y |-> 0, x |-> 0, n |-> 0]

\* So many of the values, behind the first n.
Cells(vals, n, size) == [k \in 1..size |-> vals[n + k]]

\* The values of a unit are on the same side of the thread's first column as the unit's
\* column, and no value of the row's own columns comes before one that is not.
UnitSides(vals, n, u) ==
  input.symmetric =>
    /\ \A k \in 1..u.size : vals[n + k].x > input.rowStart <=> u.x > input.rowStart
    /\ ~u.nr /\ n > 0 /\ vals[n].x > input.rowStart => u.x > input.rowStart

\* The unit u leads the kernel from a to b, multiplying the values it was made for.
UnitOk(o, a, u, b) ==
  /\ StateIs(a) /\ StateIs(b) /\ WrittenAt(o, a, u, b.at) /\ a.at + 2 <= b.at
  /\ b.y = a.y + u.jmp /\ b.n = a.n + u.size /\ b.n <= Len(o.values)
  /\ b.x = LeavesX(u.id, u.size, u.deltas, u.x - 1)
  /\ Multiplies(u.id, u.size, u.deltas, b.y + 1, u.x, Cells(o.values, a.n, u.size))
  /\ UnitSides(o.values, a.n, u)

\* The units us lead the kernel from the start through the states states.
Trace(o, us, states) ==
  /\ IsSeq(us) /\ IsSeq(states) /\ Len(states) = Len(us) + 1
  /\ states[1] = StartState
  /\ \A j \in 1..Len(us) : UnitOk(o, states[j], us[j], states[j + 1])
Traced(o, a) == \E us, states : Trace(o, us, states) /\ states[Len(us) + 1] = a

\* A unit stays what it is when more is written.
LEMMA UnitStays ==
  ASSUME NEW o, NEW new, Grown(new, o), NEW a, NEW u, NEW b, UnitOk(o, a, u, b)
  PROVE  UnitOk(new, a, u, b)
<1> DEFINE c == o.ctl.elems
           d == new.ctl.elems
           col == ColFrom(a, u)
           head == HeadOf(u, col)
           from == a.at + Len(head)
           to == b.at
<1>1. Extends(d, c) /\ Extends(new.patterns, o.patterns) /\ Extends(new.values, o.values)
      /\ (o.rowJmps => new.rowJmps)
  BY Zenon DEF Grown
<1>2. /\ StateIs(a) /\ StateIs(b) /\ WrittenAt(o, a, u, to) /\ a.at + 2 <= b.at
      /\ b.y = a.y + u.jmp /\ b.n = a.n + u.size /\ b.n <= Len(o.values)
      /\ b.x = LeavesX(u.id, u.size, u.deltas, u.x - 1)
      /\ Multiplies(u.id, u.size, u.deltas, b.y + 1, u.x, Cells(o.values, a.n, u.size))
      /\ UnitSides(o.values, a.n, u)
  BY Zenon DEF UnitOk
<1>3. /\ UnitIs(u) /\ a.at \in Pos /\ a.x \in Nat
      /\ HasBytes(c, a.at, head) /\ DataAt(c, u, from, to) /\ to - 1 <= Len(c)
      /\ (u.rj => o.rowJmps)
      /\ u.flag + 1 \in 1..Len(o.patterns) /\ o.patterns[u.flag + 1] = u.id
  BY <1>2, Zenon DEF WrittenAt
<1>4. /\ u.jmp \in Int /\ u.x \in Int /\ u.size \in Pos /\ u.flag \in Nat
  BY <1>3 DEF UnitIs, Numbers, Pos
<1>5. col \in Int
  BY <1>3, <1>4 DEF ColFrom
<1>6. HasBytes(d, a.at, head)
  BY <1>1, <1>3, BytesStay
<1>7. Len(head) \in Nat
  BY <1>4, <1>5, HeadOfIs DEF IsSeq
<1>8. from \in Pos
  BY <1>3, <1>7 DEF Pos
<1> HIDE DEF c, d, col, head, from, to
<1>9. DataAt(d, u, from, to)
  <2>1. CASE ~HasDeltas(u)
    BY <1>3, <2>1 DEF DataAt
  <2>2. CASE HasDeltas(u)
    <3> DEFINE n == u.id[2]
               start == DeltasFrom(u, from)
    <3>1. /\ n \in FixedLengths
          /\ u.deltas = [k \in 1..(u.size - 1) |-> u.deltas[k]]
          /\ to = start + (u.size - 1) * n
          /\ \A k \in 1..(u.size - 1) : /\ u.deltas[k] \in Numbers(n)
                                        /\ HasBytes(c, start + (k - 1) * n, FixedBytes(u.deltas[k], n))
      BY <1>3, <2>2 DEF DataAt
    <3>2. n \in Pos
      BY <3>1 DEF FixedLengths, Pos
    <3>3. start \in Pos
      <4>1. from - 1 \in Nat
        BY <1>8 DEF Pos
      <4>2. RoundUp(from - 1, n) \in Nat
        BY <3>2, <4>1, RoundUpIs
      <4> QED
        BY <4>2 DEF DeltasFrom, Pos
    <3> HIDE DEF n, start
    <3>4. ASSUME NEW k \in 1..(u.size - 1)
          PROVE  HasBytes(d, start + (k - 1) * n, FixedBytes(u.deltas[k], n))
      <4> DEFINE at == start + (k - 1) * n
      <4>1. at \in Pos
        <5>1. k - 1 \in Nat
          OBVIOUS
        <5>2. (k - 1) * n \in Nat
          BY <3>2, <5>1 DEF Pos
        <5> QED
          BY <3>3, <5>2 DEF Pos
      <4>2. HasBytes(c, at, FixedBytes(u.deltas[k], n))
        BY <3>1
      <4> HIDE DEF at
      <4>3. HasBytes(d, at, FixedBytes(u.deltas[k], n))
        BY <1>1, <4>1, <4>2, BytesStay
      <4> QED
        BY <4>3 DEF at
    <3> QED
      BY <2>2, <3>1, <3>4 DEF DataAt, n, start
  <2> QED
    BY <2>1, <2>2
<1>10. to - 1 <= Len(d) /\ Len(o.values) <= Len(new.values)
  BY <1>1, <1>2, <1>3 DEF Extends, IsSeq, StateIs, Pos, to
<1>11. u.flag + 1 \in 1..Len(new.patterns) /\ new.patterns[u.flag + 1] = u.id
  BY <1>1, <1>3 DEF Extends, IsSeq
<1>12. WrittenAt(new, a, u, to)
  BY <1>1, <1>3, <1>6, <1>9, <1>10, <1>11 DEF WrittenAt, c, d, col, head, from
<1>13. \A k \in 1..Len(o.values) : new.values[k] = o.values[k]
  BY <1>1 DEF Extends
<1>14. /\ \A k \in 1..u.size : a.n + k \in 1..Len(o.values)
       /\ a.n > 0 => a.n \in 1..Len(o.values)
  <2> DEFINE n == a.n
             size == u.size
             all == Len(o.values)
  <2>1. n \in Nat /\ size \in Nat /\ size > 0 /\ all \in Nat
    BY <1>1, <1>2, <1>4 DEF StateIs, Pos, Extends, IsSeq
  <2>2. n + size <= all
    BY <1>2
  <2> HIDE DEF n, size, all
  <2>3. (\A k \in 1..size : n + k \in 1..all) /\ (n > 0 => n \in 1..all)
    BY <2>1, <2>2
  <2> QED
    BY <2>3 DEF n, size, all
<1>15. Cells(new.values, a.n, u.size) = Cells(o.values, a.n, u.size)
  BY <1>13, <1>14 DEF Cells
<1>16. UnitSides(new.values, a.n, u)
  BY <1>2, <1>13, <1>14 DEF UnitSides
<1>17. b.n <= Len(new.values)
  BY <1>1, <1>2, <1>10 DEF StateIs, Extends, IsSeq
<1> QED
  BY <1>2, <1>12, <1>15, <1>16, <1>17 DEF UnitOk, to

\* So does a trace of units.
LEMMA TraceStays ==
  ASSUME NEW o, NEW new, Grown(new, o), NEW us, NEW states, Trace(o, us, states)
  PROVE  Trace(new, us, states)
<1>1. \A j \in 1..Len(us) : UnitOk(new, states[j], us[j], states[j + 1])
  BY UnitStays DEF Trace
<1> QED
  BY <1>1 DEF Trace

\* A unit more.
LEMMA TraceGoes ==
  ASSUME NEW o, NEW new, Grown(new, o), NEW a, Traced(o, a), NEW u, NEW b, UnitOk(new, a, u, b)
  PROVE  Traced(new, b)
<1>1. PICK us, states : Trace(o, us, states) /\ states[Len(us) + 1] = a
  BY DEF Traced
<1>2. Trace(new, us, states)
  BY <1>1, TraceStays
<1>3. /\ IsSeq(us) /\ IsSeq(states) /\ Len(states) = Len(us) + 1 /\ Len(us) \in Nat
      /\ states[1] = StartState
      /\ \A j \in 1..Len(us) : UnitOk(new, states[j], us[j], states[j + 1])
  BY <1>2 DEF Trace, IsSeq
<1> DEFINE units == Append(us, u)
           more == Append(states, b)
<1>4. /\ IsSeq(units) /\ Len(units) = Len(us) + 1 /\ units[Len(us) + 1] = u
      /\ \A k \in 1..Len(us) : units[k] = us[k]
  BY <1>3, AppendIs
<1>5. /\ IsSeq(more) /\ Len(more) = Len(us) + 2 /\ more[Len(us) + 2] = b
      /\ \A k \in 1..(Len(us) + 1) : more[k] = states[k]
  <2>1. /\ IsSeq(more) /\ Len(more) = Len(states) + 1 /\ more[Len(states) + 1] = b
        /\ \A k \in 1..Len(states) : more[k] = states[k]
    BY <1>3, AppendIs
  <2>2. Len(states) + 1 = Len(us) + 2
    BY <1>3
  <2> QED
    BY <1>3, <2>1, <2>2
<1> HIDE DEF units, more
<1>6. ASSUME NEW j \in 1..(Len(us) + 1) PROVE UnitOk(new, more[j], units[j], more[j + 1])
  <2>1. CASE j \in 1..Len(us)
    <3>1. more[j] = states[j] /\ units[j] = us[j] /\ more[j + 1] = states[j + 1]
      BY <1>3, <1>4, <1>5, <2>1
    <3> QED
      BY <1>3, <2>1, <3>1
  <2>2. CASE j = Len(us) + 1
    <3>1. more[j] = a /\ units[j] = u /\ more[j + 1] = b
      <4>1. j + 1 = Len(us) + 2 /\ j \in 1..(Len(us) + 1)
        BY <1>3, <2>2
      <4> QED
        BY <1>1, <1>4, <1>5, <2>2, <4>1
    <3> QED
      BY <3>1
  <2> QED
    BY <1>3, <2>1, <2>2
<1>7. more[1] = StartState
  <2>1. 1 \in 1..(Len(us) + 1)
    BY <1>3
  <2> QED
    BY <1>3, <1>5, <2>1
<1>8. Trace(new, units, more)
  BY <1>3, <1>4, <1>5, <1>6, <1>7 DEF Trace
<1>9. more[Len(units) + 1] = b
  BY <1>3, <1>4, <1>5
<1> QED
  BY <1>8, <1>9 DEF Traced

\* And nothing more.
LEMMA TracedStays ==
  ASSUME NEW o, NEW new, Grown(new, o), NEW a, Traced(o, a)
  PROVE  Traced(new, a)
  BY TraceStays DEF Traced

-----------------------------------------------------------------------------
\* Numbers of four bytes are numbers of eight.
LEMMA NumbersGrow == Numbers(4) \subseteq Numbers(8) /\ Numbers(8) \subseteq Nat
<1>1. PICK p : BytePowers(p)
  BY PowersAre
<1> DEFINE B == ByteSize
<1>2. /\ p[5] = B * p[4] /\ p[6] = B * p[5] /\ p[7] = B * p[6] /\ p[8] = B * p[7]
      /\ p[4] \in Pos /\ p[5] \in Pos /\ p[6] \in Pos /\ p[7] \in Pos /\ p[8] \in Pos
      /\ Power(ByteSize, 4) = p[4] /\ Power(ByteSize, 8) = p[8]
  <2>1. 5 \in 1..8 /\ 6 \in 1..8 /\ 7 \in 1..8 /\ 8 \in 1..8
    OBVIOUS
  <2>2. 4 \in 0..8 /\ 5 \in 0..8 /\ 6 \in 0..8 /\ 7 \in 0..8 /\ 8 \in 0..8
    OBVIOUS
  <2>3. 5 - 1 = 4 /\ 6 - 1 = 5 /\ 7 - 1 = 6 /\ 8 - 1 = 7
    OBVIOUS
  <2> QED
    BY <1>1, <2>1, <2>2, <2>3 DEF BytePowers
<1>3. B \in Pos
  BY MoreIs
<1> HIDE DEF B
<1>4. \A m, n \in Pos : n = B * m => m <= n
  BY <1>3 DEF Pos
<1>5. p[4] <= p[5] /\ p[5] <= p[6] /\ p[6] <= p[7] /\ p[7] <= p[8]
  BY <1>2, <1>4
<1>6. p[4] <= p[8]
  BY <1>2, <1>5 DEF Pos
<1> QED
  BY <1>2, <1>6 DEF Numbers, Pos

\* Everything up to a is written, and the next unit is for row r; side says whether its
\* columns are the thread's own ones.
Ready(o, a, r, side) ==
  /\ OutIs(o) /\ Traced(o, a) /\ StateIs(a)
  /\ a.at = Len(o.ctl.elems) + 1 /\ a.n <= Len(o.values)
  /\ r \in Numbers(8)
  /\ r = IF o.newRow THEN a.y + o.emptyRows + 1 ELSE a.y
  /\ o.lastCol = IF o.newRow THEN 1 ELSE a.x + 1
  /\ input.symmetric /\ ~side /\ ~o.newRow /\ a.n > 0 => ~(o.values[a.n].x > input.rowStart)

\* The unit u was added to o: first its head, then what gave new.
UnitMade(o, head, new, u) ==
  /\ HeadPut(o, head, u)
  /\ OutIs(new) /\ ~new.newRow /\ new.patterns = head.patterns /\ new.rowJmps = head.rowJmps
  /\ Extends(new.ctl.elems, head.ctl.elems) /\ Extends(new.values, o.values)
  /\ DataAt(new.ctl.elems, u, Len(head.ctl.elems) + 1, Len(new.ctl.elems) + 1)
  /\ new.lastCol \in Pos /\ LeavesX(u.id, u.size, u.deltas, u.x - 1) = new.lastCol - 1

\* It is for the values that follow the first n.
UnitHolds(vals, n, r, side, u) ==
  /\ n + u.size <= Len(vals)
  /\ Multiplies(u.id, u.size, u.deltas, r + 1, u.x, Cells(vals, n, u.size))
  /\ input.symmetric =>
       /\ u.x > input.rowStart <=> side
       /\ \A k \in 1..u.size : vals[n + k].x > input.rowStart <=> side

\* Where it leads.
StateAfter(new, a, r, size) ==
  [at |-> Len(new.ctl.elems) + 1, y |-> r, x |-> new.lastCol - 1, n |-> a.n + size]

\* A unit that was added for the next values is one that the kernel can go.
LEMMA UnitAdded ==
  ASSUME NEW o, NEW a, NEW r, NEW side \in BOOLEAN, Ready(o, a, r, side),
         NEW id, NEW size \in Pos, NEW x \in Pos, x - 1 \in Numbers(4), NEW deltas,
         NEW u, u = UnitFor(o, id, size, x, deltas),
         NEW head, NEW new, UnitMade(o, head, new, u), UnitHolds(new.values, a.n, r, side, u)
  PROVE  Ready(new, StateAfter(new, a, r, size), r, side)
<1> DEFINE b == StateAfter(new, a, r, size)
           c == o.ctl.elems
           h == head.ctl.elems
           d == new.ctl.elems
           col == u.x - o.lastCol
           to == Len(d) + 1
           N4 == Numbers(4)
           N8 == Numbers(8)
<1>1. /\ OutIs(o) /\ Traced(o, a) /\ StateIs(a)
      /\ a.at = Len(c) + 1 /\ a.n <= Len(o.values) /\ r \in N8
      /\ r = IF o.newRow THEN a.y + o.emptyRows + 1 ELSE a.y
      /\ o.lastCol = IF o.newRow THEN 1 ELSE a.x + 1
      /\ input.symmetric /\ ~side /\ ~o.newRow /\ a.n > 0 => ~(o.values[a.n].x > input.rowStart)
  BY Zenon DEF Ready
<1>2. /\ o.newRow \in BOOLEAN /\ o.emptyRows \in Nat /\ (~o.newRow => o.emptyRows = 0)
      /\ o.lastCol \in Int /\ IsSeq(c)
  BY <1>1 DEF OutIs, DaIs
<1>3. /\ u.nr = o.newRow /\ u.rj = (o.newRow /\ o.emptyRows # 0)
      /\ u.jmp = (IF o.newRow THEN o.emptyRows + 1 ELSE 0)
      /\ u.size = size /\ u.id = id /\ u.x = x /\ u.deltas = deltas
  BY DEF UnitFor
<1>4. HeadPut(o, head, u)
  BY DEF UnitMade
<1>5. /\ h = c \o HeadOf(u, col) /\ Extends(head.patterns, o.patterns)
      /\ u.flag \in Nat /\ u.flag + 1 \in 1..Len(head.patterns) /\ head.patterns[u.flag + 1] = u.id
      /\ (o.rowJmps => head.rowJmps) /\ (u.rj => head.rowJmps)
  BY <1>4 DEF HeadPut
<1>6. /\ OutIs(new) /\ ~new.newRow /\ new.patterns = head.patterns /\ new.rowJmps = head.rowJmps
      /\ Extends(d, h) /\ Extends(new.values, o.values)
      /\ DataAt(d, u, Len(h) + 1, to)
      /\ new.lastCol \in Pos /\ LeavesX(u.id, u.size, u.deltas, u.x - 1) = new.lastCol - 1
  BY DEF UnitMade
<1>7. /\ a.n + u.size <= Len(new.values)
      /\ Multiplies(u.id, u.size, u.deltas, r + 1, u.x, Cells(new.values, a.n, u.size))
      /\ input.symmetric =>
           /\ u.x > input.rowStart <=> side
           /\ \A k \in 1..u.size : new.values[a.n + k].x > input.rowStart <=> side
  BY DEF UnitHolds
<1>8. b.at = to /\ b.y = r /\ b.x = new.lastCol - 1 /\ b.n = a.n + size
  BY DEF StateAfter
<1>9. a.at \in Pos /\ a.y \in Nat /\ a.x \in Nat /\ a.n \in Nat /\ r \in Nat
  BY <1>1, NumbersGrow DEF StateIs
<1> HIDE DEF b, c, h, d, col, to, N4, N8
<1>10. /\ u.nr \in BOOLEAN /\ u.rj \in BOOLEAN /\ (u.rj => u.nr)
       /\ u.jmp \in 0..r /\ (~u.nr => u.jmp = 0) /\ (u.nr /\ ~u.rj => u.jmp = 1)
       /\ a.y + u.jmp = r
  <2> DEFINE new0 == o.newRow
             empty == o.emptyRows
             y == a.y
             jmp == u.jmp
             nr == u.nr
             rj == u.rj
  <2>1. /\ new0 \in BOOLEAN /\ empty \in Nat /\ (~new0 => empty = 0) /\ y \in Nat /\ r \in Nat
        /\ r = (IF new0 THEN y + empty + 1 ELSE y) /\ jmp = (IF new0 THEN empty + 1 ELSE 0)
    BY <1>1, <1>2, <1>3, <1>9
  <2>2. nr = new0 /\ rj = (new0 /\ empty # 0)
    BY <1>3
  <2> HIDE DEF new0, empty, y, jmp, nr, rj
  <2>3. nr \in BOOLEAN /\ rj \in BOOLEAN /\ (rj => nr)
    BY <2>1, <2>2, Zenon
  <2>4. (nr <=> new0) /\ (rj <=> (new0 /\ empty # 0))
    BY <2>2
  <2>5. jmp \in 0..r /\ (~nr => jmp = 0) /\ (nr /\ ~rj => jmp = 1) /\ y + jmp = r
    <3>1. CASE new0
      BY <2>1, <2>4, <3>1
    <3>2. CASE ~new0
      BY <2>1, <2>4, <3>2
    <3> QED
      BY <3>1, <3>2
  <2> QED
    BY <2>3, <2>5, Zenon DEF nr, rj, jmp, y
<1>11. UnitIs(u)
  <2>1. \A i \in N8 : 0..i \subseteq N8
    <3> DEFINE p == Power(ByteSize, 8)
    <3>1. p \in Int
      <4>1. \E f : BytePowers(f)
        BY PowersAre
      <4> QED
        BY <4>1 DEF BytePowers, Pos
    <3>2. N8 = 0..(p - 1)
      BY DEF N8, Numbers
    <3> HIDE DEF p
    <3> QED
      BY <3>1, <3>2
  <2>2. u.jmp \in N8
    BY <1>1, <1>10, <2>1
  <2>3. N4 \subseteq N8
    BY NumbersGrow DEF N4, N8
  <2>4. u.size \in Pos /\ u.x \in Pos /\ u.x - 1 \in N4
    BY <1>3 DEF N4
  <2> QED
    BY <1>5, <1>10, <2>2, <2>3, <2>4 DEF UnitIs, N4, N8
<1>12. ColFrom(a, u) = col
  <2>1. u.nr <=> o.newRow
    BY <1>3
  <2> QED
    BY <1>1, <2>1 DEF ColFrom, col
<1>13. col \in Int /\ u.jmp \in Int /\ u.x \in Int
  BY <1>2, <1>3, <1>10 DEF col, Pos
<1> DEFINE bytes == HeadOf(u, col)
<1>14. IsSeq(bytes) /\ Len(bytes) = 2 + Len(JumpBytes(u)) + Len(ColBytes(u, col))
       /\ IsSeq(JumpBytes(u)) /\ IsSeq(ColBytes(u, col))
  BY <1>13, HeadOfIs
<1>15. h = c \o bytes
  BY <1>5
<1> HIDE DEF bytes
<1>16. Extends(h, c) /\ HasBytes(h, Len(c) + 1, bytes) /\ Len(h) = Len(c) + Len(bytes)
  BY <1>2, <1>14, <1>15, AppendedHas
<1>17. HasBytes(d, a.at, bytes)
  BY <1>1, <1>6, <1>9, <1>16, BytesStay
<1>18. /\ Len(c) \in Nat /\ Len(h) \in Nat /\ Len(d) \in Nat /\ Len(h) <= Len(d)
       /\ Len(bytes) \in Nat /\ Len(bytes) >= 2
  BY <1>2, <1>6, <1>14, <1>16 DEF Extends, IsSeq
<1>19. DataAt(d, u, a.at + Len(bytes), to)
  <2>1. Len(h) + 1 = a.at + Len(bytes)
    BY <1>1, <1>16, <1>18
  <2> QED
    BY <1>6, <2>1
<1>20. WrittenAt(new, a, u, b.at)
  <2>1. to - 1 <= Len(d)
    BY <1>18 DEF to
  <2>2. u.rj => new.rowJmps
    BY <1>5, <1>6
  <2>3. u.flag + 1 \in 1..Len(new.patterns) /\ new.patterns[u.flag + 1] = u.id
    BY <1>5, <1>6
  <2>4. /\ HasBytes(d, a.at, HeadOf(u, ColFrom(a, u)))
        /\ DataAt(d, u, a.at + Len(HeadOf(u, ColFrom(a, u))), to)
    BY <1>12, <1>17, <1>19 DEF bytes
  <2> QED
    BY <1>8, <1>9, <1>11, <2>1, <2>2, <2>3, <2>4 DEF WrittenAt, d
<1>21. StateIs(b)
  <2>1. to \in Pos
    BY <1>18 DEF to, Pos
  <2>2. new.lastCol - 1 \in Nat
    BY <1>6 DEF Pos
  <2>3. a.n + size \in Nat
    BY <1>9 DEF Pos
  <2> QED
    BY <1>8, <1>9, <2>1, <2>2, <2>3 DEF StateIs
<1>22. a.at + 2 <= b.at
  <2>1. to >= a.at + 2
    BY <1>1, <1>16, <1>18 DEF to
  <2> QED
    BY <1>8, <1>9, <1>18, <2>1 DEF to
<1>23. UnitSides(new.values, a.n, u)
  <2>1. ASSUME input.symmetric, ~u.nr, a.n > 0, new.values[a.n].x > input.rowStart
        PROVE  u.x > input.rowStart
    <3>1. new.values[a.n] = o.values[a.n]
      <4> DEFINE n == a.n
                 all == Len(o.values)
      <4>1. n \in Nat /\ n > 0 /\ n <= all /\ all \in Nat
        BY <1>1, <1>6, <1>9, <2>1 DEF Extends, IsSeq
      <4>2. \A k \in 1..all : new.values[k] = o.values[k]
        BY <1>6 DEF Extends
      <4> HIDE DEF n, all
      <4>3. n \in 1..all
        BY <4>1
      <4> QED
        BY <4>2, <4>3 DEF n
    <3>2. ~o.newRow
      BY <1>3, <2>1
    <3>3. side
      BY <1>1, <2>1, <3>1, <3>2
    <3> QED
      BY <1>7, <2>1, <3>3
  <2> QED
    BY <1>7, <2>1 DEF UnitSides
<1>24. UnitOk(new, a, u, b)
  BY <1>1, <1>3, <1>6, <1>7, <1>8, <1>10, <1>20, <1>21, <1>22, <1>23 DEF UnitOk
<1>25. Grown(new, o)
  <2>1. Extends(d, c)
    BY <1>6, <1>16, ExtendsOn
  <2> QED
    BY <1>5, <1>6, <2>1 DEF Grown, c, d
<1>26. Traced(new, b)
  BY <1>1, <1>24, <1>25, TraceGoes
<1>27. b.n <= Len(new.values) /\ b.at = Len(d) + 1
  BY <1>3, <1>7, <1>8 DEF to
<1>28. new.lastCol = b.x + 1
  BY <1>6, <1>8 DEF Pos
<1>29. input.symmetric /\ ~side => ~(new.values[b.n].x > input.rowStart)
  <2>1. size \in 1..u.size
    BY <1>3 DEF Pos
  <2>2. new.values[b.n] = new.values[a.n + size]
    BY <1>8
  <2> QED
    BY <1>7, <2>1, <2>2
<1>30. /\ r = (IF new.newRow THEN b.y + new.emptyRows + 1 ELSE b.y)
       /\ new.lastCol = (IF new.newRow THEN 1 ELSE b.x + 1)
  BY <1>6, <1>8, <1>28
<1>31. Ready(new, b, r, side)
  BY <1>1, <1>6, <1>21, <1>26, <1>27, <1>29, <1>30 DEF Ready, d, N8
<1> QED
  BY <1>31 DEF b

-----------------------------------------------------------------------------
\* A nonempty set of numbers below a bound has its greatest one.
LEMMA MaxIs ==
  ASSUME NEW top \in Nat, NEW S \in SUBSET (0..top), S # {}
  PROVE  Max(S) \in S /\ \A k \in S : k <= Max(S)
<1> DEFINE T == {top - k : k \in S}
<1>1. T \in SUBSET Nat /\ T # {}
  <2>1. \A k \in S : k \in 0..top
    OBVIOUS
  <2>2. \A k \in 0..top : top - k \in Nat
    OBVIOUS
  <2>3. \A n \in T : n \in Nat
    BY <2>1, <2>2
  <2>4. PICK k \in S : TRUE
    OBVIOUS
  <2>5. top - k \in T
    OBVIOUS
  <2> HIDE DEF T
  <2> QED
    BY <2>3, <2>5
<1>2. Min(T) \in T /\ \A k \in T : Min(T) <= k
  BY <1>1, MinIs
<1>3. PICK k \in S : Min(T) = top - k
  BY <1>2
<1>4. ASSUME NEW j \in S PROVE j <= k
  <2>1. top - j \in T
    OBVIOUS
  <2>2. top - k <= top - j
    BY <1>2, <1>3, <2>1
  <2> QED
    BY <2>2
<1>5. \E m \in S : \A j \in S : m >= j
  BY <1>4
<1> QED
  BY <1>5 DEF Max

\* The bytes of the deltas, one after the other.
DataOf(deltas, m, bytes) ==
  [i \in 1..(bytes * m) |->
     FixedBytes(deltas[((i - 1) \div bytes) + 1], bytes)[((i - 1) % bytes) + 1]]

\* The bytes of one of them.
LEMMA DataIs ==
  ASSUME NEW m \in Nat, NEW bytes \in Pos, NEW deltas, NEW k \in 1..m, NEW i \in 1..bytes
  PROVE  /\ (k - 1) * bytes + i \in 1..(bytes * m)
         /\ DataOf(deltas, m, bytes)[(k - 1) * bytes + i] = FixedBytes(deltas[k], bytes)[i]
<1> DEFINE before == (k - 1) * bytes
           all == bytes * m
           n == before + i
           F(q, s) == FixedBytes(deltas[q], bytes)[s]
<1>1. before \in Nat /\ before + bytes <= all /\ all \in Nat
  <2>1. before \in Nat /\ all \in Nat
    BY DEF Pos
  <2>2. before + bytes = k * bytes
    BY DEF Pos
  <2>3. k * bytes <= m * bytes
    <3> DEFINE more == m - k
    <3>1. more \in Nat /\ m = k + more
      OBVIOUS
    <3> HIDE DEF more
    <3>2. m * bytes = k * bytes + more * bytes
      BY <3>1 DEF Pos
    <3>3. more * bytes \in Nat
      BY <3>1 DEF Pos
    <3> QED
      BY <3>2, <3>3 DEF Pos
  <2>4. m * bytes = all
    BY DEF Pos
  <2> QED
    BY <2>1, <2>2, <2>3, <2>4
<1>2. n \in 1..all
  <2> HIDE DEF before, all
  <2> QED
    BY <1>1 DEF Pos
<1>3. n - 1 = before + (i - 1) /\ i - 1 \in 0..(bytes - 1) /\ k - 1 \in Nat
  <2>1. before \in Nat
    BY <1>1
  <2> HIDE DEF before
  <2> QED
    BY <2>1 DEF Pos
<1>4. (n - 1) \div bytes = k - 1 /\ (n - 1) % bytes = i - 1
  <2> DEFINE l == n - 1
             q == k - 1
             s == i - 1
  <2>1. l = q * bytes + s
    BY <1>3
  <2>2. q \in Nat /\ s \in 0..(bytes - 1)
    BY <1>3
  <2> HIDE DEF l, q, s
  <2>3. Divides(l, bytes, q, s)
    BY <2>1, <2>2 DEF Divides
  <2>4. l \div bytes = q /\ l % bytes = s
    BY <2>3, QuotientIs
  <2> QED
    BY <2>4 DEF l, q, s
<1> HIDE DEF n, all
<1>5. DataOf(deltas, m, bytes)[n] = F(((n - 1) \div bytes) + 1, ((n - 1) % bytes) + 1)
  BY <1>2 DEF DataOf, all
<1> HIDE DEF F
<1>6. k - 1 + 1 = k /\ i - 1 + 1 = i
  OBVIOUS
<1>7. DataOf(deltas, m, bytes)[n] = F(k, i)
  BY <1>4, <1>5, <1>6
<1> QED
  BY <1>2, <1>7 DEF F, n, all

\* The deltas of a unit are appended where the kernel will look for them.
DeltasPut(new, da, deltas, m, bytes) ==
  /\ DaIs(new) /\ Extends(new.elems, da.elems)
  /\ Len(new.elems) = RoundUp(Len(da.elems), bytes) + m * bytes
  /\ \A k \in 1..m :
       HasBytes(new.elems, RoundUp(Len(da.elems), bytes) + 1 + (k - 1) * bytes,
                FixedBytes(deltas[k], bytes))

\* Aligned and allocated, they are there.
LEMMA DeltasArePut ==
  ASSUME NEW da, DaIs(da), NEW m \in Nat, NEW bytes \in FixedLengths, NEW deltas
  PROVE  DeltasPut(Alloc(Align(da, bytes), DataOf(deltas, m, bytes)), da, deltas, m, bytes)
<1> DEFINE aligned == Align(da, bytes)
           data == DataOf(deltas, m, bytes)
           new == Alloc(aligned, data)
           l == RoundUp(Len(da.elems), bytes)
           all == bytes * m
<1>1. bytes \in Pos
  BY DEF FixedLengths, Pos
<1>2. DaIs(aligned) /\ Extends(aligned.elems, da.elems) /\ Len(aligned.elems) = l
  BY <1>1, AlignIs
<1>3. all \in Nat
  BY <1>1 DEF Pos
<1>4. IsSeq(data) /\ Len(data) = all
  <2> DEFINE g(i) == FixedBytes(deltas[((i - 1) \div bytes) + 1], bytes)[((i - 1) % bytes) + 1]
  <2>1. data = [i \in 1..all |-> g(i)]
    BY DEF DataOf
  <2> HIDE DEF data, all, g
  <2>2. data = [i \in 1..all |-> data[i]]
    BY <2>1
  <2> QED
    BY <1>3, <2>2, FunctionIs
<1>5. DaIs(new) /\ new.elems = aligned.elems \o data
  <2> HIDE DEF aligned, data
  <2> QED
    BY <1>2, <1>4, AllocIs
<1>6. IsSeq(aligned.elems)
  BY <1>2 DEF DaIs
<1> HIDE DEF aligned, data, new, l, all
<1>7. /\ Extends(new.elems, aligned.elems) /\ HasBytes(new.elems, Len(aligned.elems) + 1, data)
      /\ Len(new.elems) = Len(aligned.elems) + Len(data)
  BY <1>4, <1>5, <1>6, AppendedHas
<1>8. Extends(new.elems, da.elems)
  BY <1>2, <1>7, ExtendsOn
<1>9. l \in Nat
  BY <1>2, <1>6 DEF IsSeq
<1>10. Len(new.elems) = l + m * bytes
  <2>1. all = m * bytes
    BY <1>1 DEF all, Pos
  <2> QED
    BY <1>2, <1>4, <1>7, <2>1
<1>11. ASSUME NEW k \in 1..m
       PROVE  HasBytes(new.elems, l + 1 + (k - 1) * bytes, FixedBytes(deltas[k], bytes))
  <2> DEFINE before == (k - 1) * bytes
             s == FixedBytes(deltas[k], bytes)
             c == new.elems
  <2>1. IsSeq(s) /\ Len(s) = bytes
    BY FixedIs
  <2>2. before \in Nat
    BY <1>1 DEF Pos
  <2>3. \A i \in 1..bytes : before + i \in 1..all /\ data[before + i] = s[i]
    BY <1>1, DataIs DEF data, all
  <2> HIDE DEF before, s, c
  <2>4. \A i \in 1..all : c[l + i] = data[i]
    BY <1>2, <1>4, <1>7, <1>9 DEF HasBytes, c
  <2>5. Len(c) = l + all
    BY <1>2, <1>4, <1>7 DEF c
  <2>6. \A i \in 1..bytes : c[l + 1 + before + i - 1] = s[i]
    <3>1. ASSUME NEW i \in 1..bytes PROVE c[l + 1 + before + i - 1] = s[i]
      <4>1. l + 1 + before + i - 1 = l + (before + i)
        BY <1>9, <2>2
      <4> QED
        BY <2>3, <2>4, <4>1
    <3> QED
      BY <3>1
  <2>7. l + 1 + before + bytes - 1 <= Len(c)
    <3>1. before + bytes \in 1..all
      BY <1>1, <2>3 DEF Pos
    <3> QED
      BY <1>1, <1>3, <1>9, <2>2, <2>5, <3>1 DEF Pos
  <2> QED
    BY <2>1, <2>6, <2>7 DEF HasBytes, before, s, c
<1> QED
  BY <1>5, <1>8, <1>10, <1>11 DEF DeltasPut, l, new, aligned, data

-----------------------------------------------------------------------------
\* The manager's fields with new values for those that a step changes.
OutWith(o, newRow, empty, col, da, vals) ==
  [f \in OutFields |-> IF f = "newRow" THEN newRow ELSE IF f = "emptyRows" THEN empty
                       ELSE IF f = "lastCol" THEN col ELSE IF f = "ctl" THEN da
                       ELSE IF f = "values" THEN vals ELSE o[f]]
WithFields(new, o, newRow, empty, col, da, vals) ==
  /\ OutIs(new) /\ new.newRow = newRow /\ new.emptyRows = empty /\ new.lastCol = col
  /\ new.ctl = da /\ new.values = vals /\ new.patterns = o.patterns /\ new.rowJmps = o.rowJmps

\* So they are after the heads have been added.
LEMMA OutWithIs ==
  ASSUME NEW o, OutIs(o), NEW newRow \in BOOLEAN, NEW empty \in Nat, ~newRow => empty = 0,
         NEW col \in Int, NEW da, DaIs(da), NEW vals, IsSeq(vals)
  PROVE  WithFields(OutWith(o, newRow, empty, col, da, vals), o, newRow, empty, col, da, vals)
<1> DEFINE new == OutWith(o, newRow, empty, col, da, vals)
<1>1. /\ new.newRow = newRow /\ new.emptyRows = empty /\ new.lastCol = col /\ new.ctl = da
      /\ new.values = vals /\ new.patterns = o.patterns /\ new.rowJmps = o.rowJmps
      /\ Has(new, OutFields)
  <2> DEFINE g(f) == IF f = "newRow" THEN newRow ELSE IF f = "emptyRows" THEN empty
                       ELSE IF f = "lastCol" THEN col ELSE IF f = "ctl" THEN da
                       ELSE IF f = "values" THEN vals ELSE o[f]
  <2>1. new = [f \in OutFields |-> g(f)]
    BY DEF OutWith
  <2>2. /\ g("newRow") = newRow /\ g("emptyRows") = empty /\ g("lastCol") = col /\ g("ctl") = da
        /\ g("values") = vals /\ g("patterns") = o.patterns /\ g("rowJmps") = o.rowJmps
    OBVIOUS
  <2> HIDE DEF new, g
  <2> QED
    BY <2>1, <2>2 DEF OutFields, Has
<1> HIDE DEF new
<1>2. /\ IsSeq(o.patterns)
      /\ \A j, k \in 1..Len(o.patterns) : o.patterns[j] = o.patterns[k] => j = k
  BY DEF OutIs
<1>3. OutIs(new)
  BY Zenon, <1>1, <1>2 DEF OutIs
<1> QED
  BY <1>1, <1>3 DEF WithFields, new

\* The updates that the writer makes.
LEMMA UpdatesAre ==
  ASSUME NEW o, OutIs(o), NEW col, NEW da, NEW vals, NEW empty
  PROVE  /\ [o EXCEPT !.lastCol = col, !.ctl = da]
              = OutWith(o, o.newRow, o.emptyRows, col, da, o.values)
         /\ [o EXCEPT !.lastCol = col] = OutWith(o, o.newRow, o.emptyRows, col, o.ctl, o.values)
         /\ [o EXCEPT !.values = vals]
              = OutWith(o, o.newRow, o.emptyRows, o.lastCol, o.ctl, vals)
         /\ [o EXCEPT !.newRow = TRUE] = OutWith(o, TRUE, o.emptyRows, o.lastCol, o.ctl, o.values)
         /\ [o EXCEPT !.emptyRows = empty]
              = OutWith(o, o.newRow, empty, o.lastCol, o.ctl, o.values)
<1>1. o = [f \in OutFields |-> o[f]]
  BY DEF OutIs, Has
<1> QED
  BY <1>1 DEF OutWith, OutFields

\* Single elements that wait for their unit: the last of the values.
Pending(o, n, xs, r, side) ==
  /\ IsSeq(xs) /\ n + Len(xs) = Len(o.values)
  /\ \A k \in 1..Len(xs) :
       /\ xs[k] \in Pos /\ xs[k] - 1 \in Numbers(4)
       /\ o.values[n + k] = Point(r + 1, xs[k])
       /\ input.symmetric => (xs[k] > input.rowStart <=> side)
  /\ \A k \in 1..(Len(xs) - 1) : xs[k] < xs[k + 1]

\* All values are in units.
AllReady(o, r, side, vals) ==
  \E a : Ready(o, a, r, side) /\ a.n = Len(o.values) /\ o.values = vals

\* The deltas of columns that rise.
LEMMA DeltasFit ==
  ASSUME NEW n \in Pos, NEW xs, \A k \in 1..n : xs[k] \in Pos /\ xs[k] - 1 \in Numbers(4),
         \A k \in 1..(n - 1) : xs[k] < xs[k + 1],
         NEW deltas, deltas = [k \in 1..(n - 1) |-> xs[k + 1] - xs[k]],
         NEW most, most = Max(Range(deltas) \cup {0})
  PROVE  /\ DeltaBytes(most) \in FixedLengths
         /\ \A k \in 1..(n - 1) : deltas[k] \in Numbers(DeltaBytes(most))
<1> DEFINE p == Power(ByteSize, 8)
           q == Power(ByteSize, 4)
           bytes == DeltaBytes(most)
           S == Range(deltas) \cup {0}
<1>1. q \in Pos /\ p \in Pos /\ q <= p
  <2>1. q \in Pos /\ p \in Pos
    <3>1. \E f : BytePowers(f)
      BY PowersAre
    <3> QED
      BY <3>1 DEF BytePowers
  <2>2. 0..(q - 1) \subseteq 0..(p - 1)
    BY NumbersGrow DEF Numbers
  <2> HIDE DEF p, q
  <2>3. q - 1 \in 0..(q - 1)
    BY <2>1 DEF Pos
  <2> QED
    BY <2>1, <2>2, <2>3 DEF Pos
<1>2. ASSUME NEW k \in 1..(n - 1) PROVE deltas[k] \in 0..(q - 1)
  <2> DEFINE x == xs[k]
             z == xs[k + 1]
  <2>1. k \in 1..n /\ k + 1 \in 1..n
    BY DEF Pos
  <2>2. x \in Pos /\ z \in Pos /\ x - 1 \in 0..(q - 1) /\ z - 1 \in 0..(q - 1) /\ x < z
    BY <2>1 DEF Numbers
  <2>3. deltas[k] = z - x
    OBVIOUS
  <2> HIDE DEF x, z, q
  <2> QED
    BY <1>1, <2>2, <2>3 DEF Pos
<1>3. S \in SUBSET (0..(q - 1)) /\ S # {}
  <2>1. \A v \in Range(deltas) : \E k \in 1..(n - 1) : v = deltas[k]
    BY DEF Range
  <2>2. 0 \in 0..(q - 1)
    BY <1>1 DEF Pos
  <2> HIDE DEF q
  <2> QED
    BY <1>2, <2>1, <2>2
<1>4. q - 1 \in Nat
  BY <1>1 DEF Pos
<1> HIDE DEF q, S, p
<1>5. Max(S) \in S /\ \A k \in S : k <= Max(S)
  BY <1>3, <1>4, MaxIs
<1>6. most = Max(S)
  BY DEF S
<1>7. most \in Nat /\ most < p
  <2>1. most \in 0..(q - 1)
    BY <1>3, <1>5, <1>6
  <2> QED
    BY <1>1, <2>1 DEF Pos
<1>8. bytes \in FixedLengths /\ most < Power(ByteSize, bytes)
  BY <1>7, DeltaBytesFit DEF p
<1>9. Power(ByteSize, bytes) \in Int
  <2>1. PICK f : BytePowers(f)
    BY PowersAre
  <2>2. /\ f[1] \in Pos /\ f[2] \in Pos /\ f[4] \in Pos /\ f[8] \in Pos
        /\ Power(ByteSize, 1) = f[1] /\ Power(ByteSize, 2) = f[2]
        /\ Power(ByteSize, 4) = f[4] /\ Power(ByteSize, 8) = f[8]
    BY <2>1 DEF BytePowers
  <2>3. bytes = 1 \/ bytes = 2 \/ bytes = 4 \/ bytes = 8
    BY <1>8 DEF FixedLengths
  <2> HIDE DEF bytes
  <2> QED
    BY <2>2, <2>3 DEF Pos
<1> HIDE DEF bytes
<1>10. ASSUME NEW k \in 1..(n - 1) PROVE deltas[k] \in Numbers(bytes)
  <2> DEFINE top == Power(ByteSize, bytes)
             v == deltas[k]
  <2>1. v \in Range(deltas)
    <3>1. k \in DOMAIN deltas
      OBVIOUS
    <3> QED
      BY <3>1 DEF Range
  <2>2. v <= most
    BY <1>5, <1>6, <2>1 DEF S
  <2>3. v \in Nat
    BY <1>2
  <2> HIDE DEF top, v
  <2>4. v \in 0..(top - 1)
    BY <1>7, <1>8, <1>9, <2>2, <2>3 DEF top
  <2> QED
    BY <2>4 DEF Numbers, top, v
<1> QED
  BY <1>8, <1>10 DEF bytes

\* The single elements that waited get their unit.
LEMMA AddXsReady ==
  ASSUME NEW o, NEW a, NEW r, NEW side \in BOOLEAN, Ready(o, a, r, side),
         NEW xs, Pending(o, a.n, xs, r, side)
  PROVE  /\ AllReady(AddXs(o, xs), r, side, o.values)
         /\ xs # <<>> => ~AddXs(o, xs).newRow
         /\ xs = <<>> => AddXs(o, xs) = o
<1> DEFINE n == Len(xs)
           vals == o.values
           x == xs[1]
           last == xs[n]
           gaps == [k \in 1..(n - 1) |-> xs[k + 1] - xs[k]]
           most == Max(Range(gaps) \cup {0})
           bytes == DeltaBytes(most)
           id == DeltaPattern(bytes)
           deltas == IF n > 1 THEN gaps ELSE <<>>
           u == UnitFor(o, id, n, x, deltas)
           head == PutHead(o, id, n, x)
           data == DataOf(gaps, n - 1, bytes)
           more == Alloc(Align(head.ctl, bytes), data)
           da == IF n > 1 THEN more ELSE head.ctl
           new == [head EXCEPT !.lastCol = last, !.ctl = da]
<1>1. /\ OutIs(o) /\ Traced(o, a) /\ StateIs(a) /\ a.n <= Len(vals) /\ r \in Nat
  BY NumbersGrow DEF Ready
<1>2. /\ IsSeq(xs) /\ a.n + n = Len(vals) /\ n \in Nat
      /\ \A k \in 1..n : /\ xs[k] \in Pos /\ xs[k] - 1 \in Numbers(4)
                         /\ vals[a.n + k] = Point(r + 1, xs[k])
                         /\ input.symmetric => (xs[k] > input.rowStart <=> side)
      /\ \A k \in 1..(n - 1) : xs[k] < xs[k + 1]
  BY Zenon DEF Pending, IsSeq
<1>3. CASE xs = <<>>
  <2>1. n = 0
    BY <1>3
  <2>2. AddXs(o, xs) = o
    BY Zenon, <1>3 DEF AddXs
  <2>3. a.n = Len(vals)
    BY <1>1, <1>2, <2>1 DEF StateIs
  <2> QED
    BY <1>1, <1>3, <2>2, <2>3 DEF AllReady
<1>4. CASE xs # <<>>
  <2>1. n \in Pos
    <3>1. n # 0
      <4> DEFINE S == {xs[k] : k \in 1..Len(xs)}
      <4>1. xs \in Seq(S)
        BY <1>2, ElementsIn
      <4> HIDE DEF S
      <4> QED
        BY <1>4, <4>1
    <3> QED
      BY <1>2, <3>1 DEF Pos
  <2>2. AddXs(o, xs) = new
    <3>1. Last(xs) = last
      BY DEF Last
    <3>2. AddXs(o, xs)
            = [head EXCEPT !.lastCol = Last(xs),
                 !.ctl = IF n > 1 THEN Alloc(Align(head.ctl, bytes), data) ELSE head.ctl]
      BY Zenon, <1>4 DEF AddXs, DataOf
    <3> HIDE DEF last, head, data, n, bytes
    <3> QED
      BY Zenon, <3>1, <3>2
  <2>3. x \in Pos /\ x - 1 \in Numbers(4) /\ last \in Pos /\ 1 \in 1..n /\ n \in 1..n
    <3>1. 1 \in 1..n /\ n \in 1..n
      BY <2>1 DEF Pos
    <3> QED
      BY <1>2, <3>1
  <2> HIDE DEF n, x, last
  <2>4. /\ bytes \in FixedLengths
        /\ \A k \in 1..(n - 1) : gaps[k] \in Numbers(bytes)
    BY <1>2, <2>1, DeltasFit
  <2>5. DeltasAre(deltas, xs, n) /\ (n > 1 => gaps = [k \in 1..(n - 1) |-> gaps[k]])
    <3>1. \A k \in 1..n : xs[k] \in Int
      BY <1>2 DEF Pos
    <3>2. \A k \in 1..(n - 1) : deltas[k] = xs[k + 1] - xs[k]
      <4>1. CASE n > 1
        BY <4>1
      <4>2. CASE ~(n > 1)
        BY <2>1, <4>2 DEF Pos
      <4> QED
        BY <4>1, <4>2
    <3> QED
      BY <2>1, <3>1, <3>2 DEF DeltasAre
  <2> HIDE DEF gaps
  <2>6. id[1] = DELTA /\ id[2] = bytes
    BY DEF DeltaPattern
  <2>7. /\ u.size = n /\ u.id = id /\ u.x = x /\ u.deltas = deltas
    BY DEF UnitFor
  <2> HIDE DEF bytes, deltas
  <2>8. HeadPut(o, head, u)
    BY <1>1, <2>3, HeadIsPut DEF Pos
  <2> HIDE DEF id, u, head
  <2>9. OutIs(head) /\ ~head.newRow /\ head.values = vals
    BY <2>8 DEF HeadPut
  <2>10. DaIs(head.ctl) /\ IsSeq(head.ctl.elems)
    BY <2>9 DEF OutIs, DaIs
  <2>11. /\ DaIs(da) /\ Extends(da.elems, head.ctl.elems)
         /\ DataAt(da.elems, u, Len(head.ctl.elems) + 1, Len(da.elems) + 1)
    <3>1. CASE n > 1
      <4>1. da = more
        BY <3>1
      <4>2. n - 1 \in Nat
        BY <2>1 DEF Pos
      <4>3. DeltasPut(more, head.ctl, gaps, n - 1, bytes)
        BY <2>4, <2>10, <4>2, DeltasArePut
      <4> HIDE DEF more, da
      <4>4. /\ DaIs(more) /\ Extends(more.elems, head.ctl.elems)
            /\ Len(more.elems) = RoundUp(Len(head.ctl.elems), bytes) + (n - 1) * bytes
            /\ \A k \in 1..(n - 1) :
                 HasBytes(more.elems, RoundUp(Len(head.ctl.elems), bytes) + 1 + (k - 1) * bytes,
                          FixedBytes(gaps[k], bytes))
        BY <4>3 DEF DeltasPut
      <4> DEFINE from == Len(head.ctl.elems) + 1
      <4>5. DeltasFrom(u, from) = RoundUp(Len(head.ctl.elems), bytes) + 1
        <5>1. Len(head.ctl.elems) + 1 - 1 = Len(head.ctl.elems)
          BY <2>10 DEF IsSeq
        <5> QED
          BY <2>6, <2>7, <5>1 DEF DeltasFrom
      <4>6. RoundUp(Len(head.ctl.elems), bytes) \in Nat /\ (n - 1) * bytes \in Nat
        <5>1. bytes \in Pos
          BY <2>4 DEF FixedLengths, Pos
        <5>2. RoundUp(Len(head.ctl.elems), bytes) \in Nat
          BY <2>10, <5>1, RoundUpIs DEF IsSeq
        <5> QED
          BY <4>2, <5>1, <5>2 DEF Pos
      <4>7. HasDeltas(u)
        BY <2>6, <2>7, <3>1 DEF HasDeltas
      <4>8. u.deltas = gaps
        BY <2>7, <3>1 DEF deltas
      <4>9. Len(more.elems) + 1 = DeltasFrom(u, from) + (u.size - 1) * u.id[2]
        <5> DEFINE s == (n - 1) * bytes
                   e == RoundUp(Len(head.ctl.elems), bytes)
        <5>1. e \in Nat /\ s \in Nat /\ Len(more.elems) = e + s /\ DeltasFrom(u, from) = e + 1
          BY <4>4, <4>5, <4>6
        <5>2. (u.size - 1) * u.id[2] = s
          BY <2>6, <2>7
        <5> HIDE DEF s, e, from
        <5> QED
          BY <5>1, <5>2
      <4>10. \A k \in 1..(n - 1) : HasBytes(more.elems, DeltasFrom(u, from) + (k - 1) * bytes,
                                            FixedBytes(gaps[k], bytes))
        BY <4>4, <4>5
      <4> HIDE DEF from
      <4>11. DataAt(more.elems, u, from, Len(more.elems) + 1)
        <5>1. u.deltas = [k \in 1..(u.size - 1) |-> u.deltas[k]]
          BY <2>5, <2>7, <3>1, <4>8
        <5>2. \A k \in 1..(u.size - 1) :
                 /\ u.deltas[k] \in Numbers(u.id[2])
                 /\ HasBytes(more.elems, DeltasFrom(u, from) + (k - 1) * u.id[2],
                             FixedBytes(u.deltas[k], u.id[2]))
          BY <2>4, <2>6, <2>7, <4>8, <4>10
        <5>3. u.id[2] \in FixedLengths
          BY <2>4, <2>6, <2>7
        <5> QED
          BY <4>7, <4>9, <5>1, <5>2, <5>3, Zenon DEF DataAt
      <4> QED
        BY <4>1, <4>4, <4>11 DEF from
    <3>2. CASE ~(n > 1)
      <4>1. da = head.ctl
        BY <3>2
      <4>2. ~HasDeltas(u)
        BY <2>7, <3>2 DEF HasDeltas
      <4>3. u.deltas = <<>>
        BY <2>7, <3>2 DEF deltas
      <4> HIDE DEF da
      <4>4. Extends(head.ctl.elems, head.ctl.elems)
        BY <2>10, ExtendsSelf
      <4> QED
        BY <2>10, <4>1, <4>2, <4>3, <4>4 DEF DataAt
    <3> QED
      BY <3>1, <3>2
  <2> HIDE DEF da
  <2>12. WithFields(new, head, head.newRow, head.emptyRows, last, da, head.values)
    <3>1. new = OutWith(head, head.newRow, head.emptyRows, last, da, head.values)
      BY <2>9, UpdatesAre
    <3>2. /\ head.newRow \in BOOLEAN /\ head.emptyRows \in Nat
          /\ (~head.newRow => head.emptyRows = 0) /\ IsSeq(head.values)
      BY <2>9 DEF OutIs
    <3>3. last \in Int
      BY <2>3 DEF Pos
    <3> HIDE DEF new
    <3> QED
      BY <2>9, <2>11, <3>1, <3>2, <3>3, OutWithIs
  <2> HIDE DEF new
  <2>13. /\ OutIs(new) /\ ~new.newRow /\ new.lastCol = last /\ new.ctl = da /\ new.values = vals
         /\ new.patterns = head.patterns /\ new.rowJmps = head.rowJmps
    BY <2>9, <2>12 DEF WithFields
  <2>14. UnitMade(o, head, new, u)
    <3>1. LeavesX(u.id, u.size, u.deltas, u.x - 1) = last - 1
      <4> DEFINE x0 == x - 1
      <4>1. x0 = xs[1] - 1
        BY DEF x
      <4> HIDE DEF x0
      <4>2. LeavesX(id, n, deltas, x0) = xs[n] - 1
        BY <2>5, <2>6, <4>1, DeltaUnitLeaves
      <4> QED
        BY <2>7, <4>2 DEF x0, last
    <3>2. Extends(vals, vals)
      BY <1>1, ExtendsSelf DEF OutIs
    <3> QED
      BY <2>3, <2>8, <2>11, <2>13, <3>1, <3>2 DEF UnitMade
  <2>15. UnitHolds(new.values, a.n, r, side, u)
    <3> DEFINE y == r + 1
               cells == [k \in 1..n |-> Point(y, xs[k])]
    <3>1. Cells(vals, a.n, n) = cells
      BY <1>2 DEF Cells
    <3>2. Multiplies(id, n, deltas, y, xs[1], cells)
      <4> HIDE DEF y
      <4> QED
        BY <2>5, <2>6, DeltaUnitMultiplies
    <3>3. Multiplies(u.id, u.size, u.deltas, r + 1, u.x, Cells(vals, a.n, u.size))
      BY <2>7, <3>1, <3>2 DEF x
    <3>4. a.n + u.size <= Len(vals)
      BY <1>1, <1>2, <2>7 DEF StateIs
    <3>5. ASSUME input.symmetric
          PROVE  /\ u.x > input.rowStart <=> side
                 /\ \A k \in 1..u.size : vals[a.n + k].x > input.rowStart <=> side
      <4>1. u.x > input.rowStart <=> side
        BY <1>2, <2>3, <2>7, <3>5 DEF x
      <4>2. ASSUME NEW k \in 1..n PROVE vals[a.n + k].x > input.rowStart <=> side
        <5>1. vals[a.n + k] = Point(r + 1, xs[k]) /\ (xs[k] > input.rowStart <=> side)
          BY <1>2, <3>5
        <5>2. vals[a.n + k].x = xs[k]
          BY <5>1, PointIs
        <5> QED
          BY <5>1, <5>2
      <4> QED
        BY <2>7, <4>1, <4>2
    <3> QED
      BY <2>13, <3>3, <3>4, <3>5 DEF UnitHolds
  <2>16. Ready(new, StateAfter(new, a, r, n), r, side)
    <3>1. u = UnitFor(o, id, n, x, deltas)
      BY DEF u
    <3> QED
      BY <2>1, <2>3, <2>14, <2>15, <3>1, UnitAdded
  <2>17. StateAfter(new, a, r, n).n = Len(new.values)
    BY <1>2, <2>13 DEF StateAfter
  <2> QED
    BY <1>4, <2>2, <2>13, <2>16, <2>17 DEF AllReady
<1> QED
  BY <1>3, <1>4

-----------------------------------------------------------------------------
\* An element of row r that can be written: what it holds is what its pattern reaches
\* from its place, all on one side of the thread's first column.
ElemOk(e, r, side) ==
  /\ e.x \in Pos /\ e.x - 1 \in Numbers(4)
  /\ PatternIs(e.item.pattern) /\ e.item.pattern.size \in Pos
  /\ e.item.vals = Reached(e.item.pattern, Point(r + 1, e.x))
  /\ input.symmetric =>
       /\ e.x > input.rowStart <=> side
       /\ \A j \in 1..e.item.pattern.size : e.item.vals[j].x > input.rowStart <=> side

\* The entries that an element holds.
LEMMA ValsAre ==
  ASSUME NEW r, NEW side, NEW e, ElemOk(e, r, side)
  PROVE  /\ IsSeq(e.item.vals) /\ Len(e.item.vals) = e.item.pattern.size
         /\ ~HasPattern(e) => e.item.vals = <<Point(r + 1, e.x)>>
<1> DEFINE p == e.item.pattern
           n == p.size
           vals == e.item.vals
           pt == Point(r + 1, e.x)
           g(j) == IF p = NoPattern THEN Point(pt.y, pt.x)
                   ELSE Along(p.order, Point(pt.y, pt.x), (j - 1) * p.delta)
<1>1. n \in Nat /\ vals = Reached(p, pt)
  BY DEF ElemOk, Pos
<1>2. vals = [j \in 1..n |-> g(j)]
  BY <1>1 DEF Reached
<1>3. IsSeq(vals) /\ Len(vals) = n
  <2> HIDE DEF g, n, vals
  <2>1. vals = [j \in 1..n |-> vals[j]]
    BY <1>2
  <2> QED
    BY <1>1, <2>1, FunctionIs
<1>4. ASSUME ~HasPattern(e) PROVE vals = <<pt>>
  <2>1. p = NoPattern
    BY <1>4 DEF HasPattern
  <2>2. n = 1
    BY <2>1 DEF NoPattern
  <2>3. \A j \in 1..1 : g(j) = pt
    <3>1. pt.y = r + 1 /\ pt.x = e.x
      BY PointIs
    <3> QED
      BY <2>1, <3>1
  <2> HIDE DEF g, n, vals, pt
  <2>4. vals = [j \in 1..1 |-> pt]
    BY <1>2, <2>2, <2>3
  <2> QED
    BY <2>4
<1> QED
  BY <1>3, <1>4

\* More values do not change what is written.
MoreValues(o, v) == [o EXCEPT !.values = o.values \o v]

\* The manager is as ready as it was for the next unit.
LEMMA ReadyMore ==
  ASSUME NEW o, NEW a, NEW r, NEW side, Ready(o, a, r, side), NEW v, IsSeq(v)
  PROVE  /\ Ready(MoreValues(o, v), a, r, side) /\ MoreValues(o, v).values = o.values \o v
         /\ Extends(o.values \o v, o.values) /\ Len(o.values \o v) = Len(o.values) + Len(v)
<1> DEFINE vals == o.values \o v
           new == MoreValues(o, v)
<1>1. OutIs(o) /\ Traced(o, a) /\ StateIs(a) /\ a.n <= Len(o.values)
  BY DEF Ready
<1>2. /\ IsSeq(o.values) /\ IsSeq(o.patterns) /\ DaIs(o.ctl) /\ o.newRow \in BOOLEAN
      /\ o.emptyRows \in Nat /\ (~o.newRow => o.emptyRows = 0) /\ o.lastCol \in Int
  BY <1>1 DEF OutIs
<1>3. Extends(vals, o.values) /\ Len(vals) = Len(o.values) + Len(v) /\ IsSeq(vals)
  BY <1>2, AppendedHas DEF Extends
<1> HIDE DEF vals
<1>4. WithFields(new, o, o.newRow, o.emptyRows, o.lastCol, o.ctl, vals)
  <2>1. new = OutWith(o, o.newRow, o.emptyRows, o.lastCol, o.ctl, vals)
    BY <1>1, UpdatesAre DEF MoreValues, vals
  <2> HIDE DEF new
  <2> QED
    BY <1>1, <1>2, <1>3, <2>1, OutWithIs
<1> HIDE DEF new
<1>5. /\ OutIs(new) /\ new.newRow = o.newRow /\ new.emptyRows = o.emptyRows
      /\ new.lastCol = o.lastCol /\ new.ctl = o.ctl /\ new.values = vals
      /\ new.patterns = o.patterns /\ new.rowJmps = o.rowJmps
  BY <1>4 DEF WithFields
<1>6. Grown(new, o)
  <2>1. Extends(o.ctl.elems, o.ctl.elems) /\ Extends(o.patterns, o.patterns)
    BY <1>2, ExtendsSelf DEF DaIs
  <2> QED
    BY <1>3, <1>5, <2>1 DEF Grown
<1>7. Traced(new, a)
  BY <1>1, <1>6, TracedStays
<1>8. a.n > 0 => new.values[a.n] = o.values[a.n]
  <2> DEFINE n == a.n
             all == Len(o.values)
  <2>1. n \in Nat /\ n <= all /\ all \in Nat
    BY <1>1, <1>2 DEF StateIs, IsSeq
  <2>2. \A k \in 1..all : vals[k] = o.values[k]
    BY <1>3 DEF Extends
  <2> HIDE DEF n, all
  <2>3. n > 0 => vals[n] = o.values[n]
    BY <2>1, <2>2
  <2> QED
    BY <1>5, <2>3 DEF n
<1>9. a.n <= Len(new.values)
  BY <1>1, <1>2, <1>3, <1>5 DEF StateIs, IsSeq, Extends
<1>10. Ready(new, a, r, side)
  BY <1>5, <1>7, <1>8, <1>9 DEF Ready
<1> QED
  BY <1>3, <1>5, <1>10 DEF vals, new

\* A pattern's unit, with its values.
LEMMA AddPatternReady ==
  ASSUME spm.type = HORIZONTAL, NEW o, NEW r, NEW side \in BOOLEAN, NEW vals,
         AllReady(o, r, side, vals), NEW e, ElemOk(e, r, side), HasPattern(e)
  PROVE  /\ AllReady(MoreValues(AddPattern(o, e), e.item.vals), r, side, vals \o e.item.vals)
         /\ ~MoreValues(AddPattern(o, e), e.item.vals).newRow
<1>1. PICK a : Ready(o, a, r, side) /\ a.n = Len(o.values) /\ o.values = vals
  BY DEF AllReady
<1> DEFINE p == e.item.pattern
           n == p.size
           id == GetPatternId(p)
           x == e.x
           u == UnitFor(o, id, n, x, <<>>)
           head == PutHead(o, id, n, x)
           col == ColIncreaseJmp(p, HORIZONTAL, x)
           mid == [head EXCEPT !.lastCol = col]
           all == vals \o e.item.vals
           new == MoreValues(mid, e.item.vals)
<1>2. /\ OutIs(o) /\ StateIs(a) /\ IsSeq(o.values) /\ r \in Nat
  BY <1>1, NumbersGrow DEF Ready, OutIs
<1>3. /\ x \in Pos /\ x - 1 \in Numbers(4) /\ PatternIs(p) /\ n \in Pos /\ p # NoPattern
      /\ e.item.vals = Reached(p, Point(r + 1, x))
      /\ input.symmetric =>
           /\ x > input.rowStart <=> side
           /\ \A j \in 1..n : e.item.vals[j].x > input.rowStart <=> side
  BY DEF ElemOk, HasPattern
<1>4. IsSeq(e.item.vals) /\ Len(e.item.vals) = n
  BY ValsAre
<1>5. AddPattern(o, e) = mid
  <2>1. spm.type = HORIZONTAL
    OBVIOUS
  <2> QED
    BY Zenon, <2>1 DEF AddPattern
<1>6. /\ LeavesX(id, n, <<>>, x - 1) = col - 1 /\ col \in Int /\ col >= x /\ id[1] # DELTA
  <2>1. x \in Int
    BY <1>3 DEF Pos
  <2> QED
    BY <1>3, <2>1, PatternLeaves
<1>7. col \in Pos
  BY <1>3, <1>6 DEF Pos
<1>8. /\ u.size = n /\ u.id = id /\ u.x = x /\ u.deltas = <<>>
  BY DEF UnitFor
<1>9. u = UnitFor(o, id, n, x, <<>>)
  OBVIOUS
<1> HIDE DEF col, id, n, u, head
<1>10. HeadPut(o, head, u)
  <2>1. x \in Int
    BY <1>3 DEF Pos
  <2> QED
    BY <1>2, <1>9, <2>1, HeadIsPut DEF head
<1> HIDE DEF x, p
<1>11. OutIs(head) /\ ~head.newRow /\ head.values = vals
  BY <1>1, <1>10 DEF HeadPut
<1>12. /\ DaIs(head.ctl) /\ IsSeq(head.ctl.elems) /\ head.newRow \in BOOLEAN
       /\ head.emptyRows \in Nat /\ (~head.newRow => head.emptyRows = 0) /\ IsSeq(head.values)
  BY <1>11 DEF OutIs, DaIs
<1>13. /\ OutIs(mid) /\ mid.newRow = head.newRow /\ mid.emptyRows = head.emptyRows
       /\ mid.lastCol = col /\ mid.ctl = head.ctl /\ mid.values = vals
       /\ mid.patterns = head.patterns /\ mid.rowJmps = head.rowJmps
  <2>1. mid = OutWith(head, head.newRow, head.emptyRows, col, head.ctl, head.values)
    BY <1>11, UpdatesAre
  <2> HIDE DEF mid
  <2>2. WithFields(mid, head, head.newRow, head.emptyRows, col, head.ctl, head.values)
    BY <1>6, <1>11, <1>12, <2>1, OutWithIs
  <2> QED
    BY <1>11, <2>2 DEF WithFields
<1> HIDE DEF mid
<1>14. IsSeq(vals) /\ IsSeq(all) /\ Len(all) = Len(vals) + n /\ Extends(all, vals)
       /\ \A k \in 1..n : all[Len(vals) + k] = e.item.vals[k]
  <2>1. IsSeq(vals)
    BY <1>11, <1>12
  <2> DEFINE v == e.item.vals
  <2>2. IsSeq(v) /\ Len(v) = n
    BY <1>4
  <2> HIDE DEF v
  <2>3. /\ IsSeq(vals \o v) /\ Len(vals \o v) = Len(vals) + n
        /\ \A k \in 1..n : (vals \o v)[Len(vals) + k] = v[k]
    BY <2>1, <2>2, ConcatIs
  <2>4. Extends(vals \o v, vals)
    BY <2>1, <2>2, AppendedHas
  <2> QED
    BY <2>1, <2>3, <2>4 DEF v
<1> HIDE DEF all
<1>15. /\ OutIs(new) /\ ~new.newRow /\ new.lastCol = col /\ new.ctl = head.ctl
       /\ new.values = all /\ new.patterns = head.patterns /\ new.rowJmps = head.rowJmps
  <2>1. new = OutWith(mid, mid.newRow, mid.emptyRows, mid.lastCol, mid.ctl, all)
    <3>1. new = [mid EXCEPT !.values = all]
      BY <1>13 DEF MoreValues, all
    <3>2. OutIs(mid)
      BY <1>13
    <3> HIDE DEF new
    <3> QED
      BY <3>1, <3>2, UpdatesAre
  <2> HIDE DEF new
  <2>2. /\ mid.newRow \in BOOLEAN /\ mid.emptyRows \in Nat /\ (~mid.newRow => mid.emptyRows = 0)
        /\ mid.lastCol \in Int /\ DaIs(mid.ctl)
    BY <1>13 DEF OutIs
  <2>3. WithFields(new, mid, mid.newRow, mid.emptyRows, mid.lastCol, mid.ctl, all)
    BY <1>13, <1>14, <2>1, <2>2, OutWithIs
  <2> QED
    BY <1>11, <1>13, <2>3 DEF WithFields
<1> HIDE DEF new
<1>16. UnitMade(o, head, new, u)
  <2>1. ~HasDeltas(u)
    BY <1>6, <1>8 DEF HasDeltas
  <2>2. DataAt(new.ctl.elems, u, Len(head.ctl.elems) + 1, Len(new.ctl.elems) + 1)
    BY <1>8, <1>15, <2>1 DEF DataAt
  <2>3. Extends(new.ctl.elems, head.ctl.elems)
    BY <1>12, <1>15, ExtendsSelf
  <2>4. LeavesX(u.id, u.size, u.deltas, u.x - 1) = col - 1
    BY <1>6, <1>8
  <2> QED
    BY <1>1, <1>7, <1>10, <1>14, <1>15, <2>2, <2>3, <2>4 DEF UnitMade
<1>17. UnitHolds(new.values, a.n, r, side, u)
  <2> DEFINE y == r + 1
  <2>1. y \in Int /\ x \in Int
    BY <1>2, <1>3 DEF Pos
  <2>2. Multiplies(GetPatternId(p), p.size, <<>>, y, x, Reached(p, Point(y, x)))
    <3> HIDE DEF y
    <3>1. p.size \in Pos
      BY <1>3 DEF n
    <3> QED
      BY <1>3, <2>1, <3>1, TemplatesReach
  <2>3. Multiplies(id, n, <<>>, r + 1, x, e.item.vals)
    BY <1>3, <2>2 DEF id, n
  <2>4. Cells(all, a.n, n) = e.item.vals
    <3>1. \A k \in 1..n : all[a.n + k] = e.item.vals[k]
      BY <1>1, <1>14
    <3>2. e.item.vals = [k \in 1..n |-> e.item.vals[k]]
      BY <1>4 DEF IsSeq
    <3> QED
      BY <3>1, <3>2 DEF Cells
  <2>5. a.n + u.size <= Len(all)
    <3>1. Len(vals) \in Nat
      BY <1>14 DEF IsSeq
    <3> QED
      BY <1>1, <1>3, <1>8, <1>14, <3>1 DEF Pos
  <2>6. ASSUME input.symmetric
        PROVE  /\ u.x > input.rowStart <=> side
               /\ \A k \in 1..u.size : all[a.n + k].x > input.rowStart <=> side
    BY <1>1, <1>3, <1>8, <1>14, <2>6
  <2> QED
    BY <1>8, <1>15, <2>3, <2>4, <2>5, <2>6 DEF UnitHolds
<1>18. Ready(new, StateAfter(new, a, r, n), r, side)
  BY <1>1, <1>3, <1>9, <1>16, <1>17, UnitAdded
<1>19. StateAfter(new, a, r, n).n = Len(new.values)
  BY <1>1, <1>14, <1>15 DEF StateAfter
<1> QED
  BY <1>5, <1>15, <1>18, <1>19 DEF AllReady, all, new

-----------------------------------------------------------------------------
\* f is what has been written after each element.
AfterWritten(f, o, elems) ==
  /\ f[0] = [xs |-> <<>>, o |-> o]
  /\ \A k \in 1..Len(elems) : f[k] = WriteElem(f[k - 1], elems[k])
  /\ DoElems(o, elems) = AddXs(f[Len(elems)].o, f[Len(elems)].xs)

\* DoElems takes the elements one after the other.
LEMMA DoElemsIs ==
  ASSUME NEW elems, Len(elems) \in Nat, NEW o
  PROVE  \E f : AfterWritten(f, o, elems)
<1> DEFINE n == Len(elems)
           base == [xs |-> <<>>, o |-> o]
           step(s, k) == WriteElem(s, elems[k])
           Obeys(f, m) == f = [k \in 0..m |-> IF k = 0 THEN base ELSE step(f[k - 1], k)]
           Exist == {m \in 0..n : \E f : Obeys(f, m)}
           f == CHOOSE f : Obeys(f, n)
<1>1. n \in Nat
  OBVIOUS
<1>2. DoElems(o, elems) = AddXs(f[Len(elems)].o, f[Len(elems)].xs)
  BY DEF DoElems
<1> HIDE DEF n, base, step
<1>3. 0 \in Exist
  <2> DEFINE h == [k \in 0..0 |-> base]
  <2>1. h = [k \in 0..0 |-> IF k = 0 THEN base ELSE step(h[k - 1], k)]
    <3>1. \A k \in 0..0 : k = 0
      OBVIOUS
    <3> QED
      BY <3>1
  <2>2. Obeys(h, 0)
    BY <2>1
  <2> HIDE DEF Obeys
  <2> QED
    BY <1>1, <2>2
<1>4. ASSUME NEW m \in 0..(n - 1), m \in Exist PROVE m + 1 \in Exist
  <2>1. PICK h : Obeys(h, m)
    BY <1>4
  <2> DEFINE u == [k \in 0..(m + 1) |-> IF k = m + 1 THEN step(h[m], m + 1) ELSE h[k]]
  <2>2. /\ h[0] = base /\ \A k \in 1..m : h[k] = step(h[k - 1], k)
    <3>1. h = [k \in 0..m |-> IF k = 0 THEN base ELSE step(h[k - 1], k)]
      BY <2>1
    <3>2. 0 \in 0..m /\ \A k \in 1..m : k \in 0..m /\ k # 0
      OBVIOUS
    <3> QED
      BY <3>1, <3>2
  <2>3. u[m + 1] = step(h[m], m + 1) /\ \A k \in 0..m : u[k] = h[k]
    OBVIOUS
  <2>4. ASSUME NEW k \in 0..(m + 1)
        PROVE  u[k] = IF k = 0 THEN base ELSE step(u[k - 1], k)
    <3> HIDE DEF u
    <3>1. CASE k = 0
      BY <2>2, <2>3, <3>1
    <3>2. CASE k \in 1..m
      BY <2>2, <2>3, <3>2
    <3>3. CASE k = m + 1
      <4>1. k - 1 = m /\ k # 0
        BY <3>3
      <4> QED
        BY <2>3, <3>3, <4>1
    <3> QED
      BY <3>1, <3>2, <3>3
  <2>5. u = [k \in 0..(m + 1) |-> u[k]]
    OBVIOUS
  <2> HIDE DEF u
  <2>6. u = [k \in 0..(m + 1) |-> IF k = 0 THEN base ELSE step(u[k - 1], k)]
    BY <2>4, <2>5
  <2>7. Obeys(u, m + 1)
    BY <2>6
  <2>8. m + 1 \in 0..n
    BY <1>1
  <2> HIDE DEF Obeys
  <2> QED
    BY <2>7, <2>8
<1>5. n \in Exist
  <2> HIDE DEF Exist
  <2>1. 0..n \subseteq Exist
    <3>1. 0 \in Int /\ n \in Int
      BY <1>1
    <3> QED
      BY Zenon, <1>3, <1>4, <3>1, IntervalInduction
  <2> QED
    BY <1>1, <2>1
<1>6. Obeys(f, n)
  <2>1. \E h : Obeys(h, n)
    BY <1>5
  <2> HIDE DEF Obeys
  <2> QED
    BY <2>1
<1> HIDE DEF f
<1>7. f[0] = base /\ \A k \in 1..n : f[k] = step(f[k - 1], k)
  <2>1. f = [k \in 0..n |-> IF k = 0 THEN base ELSE step(f[k - 1], k)]
    BY <1>6
  <2>2. 0 \in 0..n /\ \A k \in 1..n : k \in 0..n /\ k # 0
    BY <1>1
  <2> QED
    BY <2>1, <2>2
<1>8. AfterWritten(f, o, elems)
  BY <1>2, <1>7 DEF AfterWritten, n, base, step
<1> QED
  BY <1>8

\* The values of the first m elements of the matrix, one after the other.
ItemVals == [k \in 1..Len(spm.elems) |-> spm.elems[k].item.vals]
ValuesOf(vals, m) ==
  /\ IsSeq(vals) /\ m \in 0..Len(spm.elems) /\ Len(vals) = RowEnds(ItemVals)[m]
  /\ \A k \in 1..m : HasBytes(vals, RowEnds(ItemVals)[k - 1] + 1, spm.elems[k].item.vals)

\* The values of an element follow those of the elements before it.
LEMMA ValuesGo ==
  ASSUME NEW m, NEW vals, ValuesOf(vals, m), m < Len(spm.elems), Len(spm.elems) \in Nat,
         \A k \in 1..Len(spm.elems) : IsSeq(spm.elems[k].item.vals),
         NEW l, l = m + 1
  PROVE  ValuesOf(vals \o spm.elems[l].item.vals, l)
<1> DEFINE all == Len(spm.elems)
           end == RowEnds(ItemVals)
           v == spm.elems[l].item.vals
           new == vals \o v
<1>1. all \in Nat /\ m \in 0..all /\ IsSeq(vals) /\ Len(vals) = end[m] /\ l = m + 1 /\ l \in 1..all
      /\ \A k \in 1..m : HasBytes(vals, end[k - 1] + 1, spm.elems[k].item.vals)
  <2>1. all \in Nat /\ m \in 0..all /\ m < all /\ l = m + 1
    BY DEF ValuesOf
  <2> HIDE DEF all
  <2>2. l \in 1..all
    BY <2>1
  <2> QED
    BY <2>1, <2>2 DEF ValuesOf, all
<1>2. Len(ItemVals) = all /\ \A k \in 1..all : ItemVals[k] = spm.elems[k].item.vals
  <2>1. ItemVals = [k \in 1..all |-> ItemVals[k]]
    BY DEF ItemVals
  <2>2. Len(ItemVals) = all
    BY <1>1, <2>1, FunctionIs
  <2> QED
    BY <2>2 DEF ItemVals
<1>3. IsSeq(v) /\ ItemVals[l] = v
  BY <1>1, <1>2
<1> HIDE DEF all, v, new
<1>4. EndsOfRows(end, ItemVals)
  <2>1. \A k \in 1..Len(ItemVals) : Len(ItemVals[k]) \in Nat
    BY <1>2 DEF IsSeq, all
  <2> QED
    BY <1>1, <1>2, <2>1, RowEndsAre
<1>5. /\ \A k \in 0..all : end[k] \in Nat
      /\ \A k \in 1..all : end[k] = end[k - 1] + Len(ItemVals[k])
  BY <1>2, <1>4 DEF EndsOfRows
<1> HIDE DEF end
<1>6. end[l] = end[m] + Len(v)
  BY <1>1, <1>3, <1>5
<1>7. Extends(new, vals) /\ HasBytes(new, Len(vals) + 1, v) /\ Len(new) = Len(vals) + Len(v)
  BY <1>1, <1>3, AppendedHas DEF new
<1>8. ASSUME NEW k \in 1..l PROVE HasBytes(new, end[k - 1] + 1, spm.elems[k].item.vals)
  <2>1. CASE k \in 1..m
    <3>1. end[k - 1] + 1 \in Pos
      <4>1. k - 1 \in 0..all
        BY <1>1, <2>1
      <4> QED
        BY <1>5, <4>1 DEF Pos
    <3> QED
      BY <1>1, <1>7, <2>1, <3>1, BytesStay
  <2>2. CASE k = l
    <3>1. k - 1 = m
      BY <1>1, <2>2
    <3> QED
      BY <1>1, <1>7, <2>2, <3>1 DEF v
  <2> QED
    BY <1>1, <2>1, <2>2
<1>9. IsSeq(new) /\ l \in 0..all
  BY <1>1, <1>7 DEF Extends
<1>10. Len(new) = end[l]
  BY <1>1, <1>6, <1>7
<1> QED
  BY <1>8, <1>9, <1>10 DEF ValuesOf, end, new, v, all

\* What has been written after the element m of the matrix, whose column is c: its row's
\* last single elements wait for their unit.
AccOk(acc, r, side, m, c) ==
  /\ \E a : Ready(acc.o, a, r, side) /\ Pending(acc.o, a.n, acc.xs, r, side)
  /\ ValuesOf(acc.o.values, m)
  /\ \A k \in 1..Len(acc.xs) : acc.xs[k] <= c
Begins(acc) == acc.xs # <<>> \/ ~acc.o.newRow

\* Element m + 1 of the matrix comes next.
ComesNext(e, m, r, side, c) ==
  /\ spm.type = HORIZONTAL /\ Len(spm.elems) \in Nat
  /\ \A k \in 1..Len(spm.elems) : IsSeq(spm.elems[k].item.vals)
  /\ m < Len(spm.elems) /\ e = spm.elems[m + 1]
  /\ ElemOk(e, r, side) /\ c \in Int /\ c < e.x

\* How one element is written.
LEMMA WriteElemIs ==
  ASSUME NEW acc, NEW e, NEW new, new = WriteElem(acc, e)
  PROVE  /\ HasPattern(e) =>
              /\ new.xs = <<>>
              /\ new.o = MoreValues(AddPattern(AddXs(acc.o, acc.xs), e), e.item.vals)
         /\ ~HasPattern(e) /\ Len(acc.xs) = SizeMax =>
              new.xs = <<e.x>> /\ new.o = MoreValues(AddXs(acc.o, acc.xs), e.item.vals)
         /\ ~HasPattern(e) /\ Len(acc.xs) # SizeMax =>
              new.xs = Append(acc.xs, e.x) /\ new.o = MoreValues(acc.o, e.item.vals)
<1> DEFINE next == IF HasPattern(e) THEN [xs |-> <<>>, o |-> AddPattern(AddXs(acc.o, acc.xs), e)]
                   ELSE IF Len(acc.xs) = SizeMax
                     THEN [xs |-> <<e.x>>, o |-> AddXs(acc.o, acc.xs)]
                   ELSE [xs |-> Append(acc.xs, e.x), o |-> acc.o]
<1>1. new = [next EXCEPT !.o.values = next.o.values \o e.item.vals]
  BY Zenon DEF WriteElem
<1>2. next = [xs |-> next.xs, o |-> next.o]
  OBVIOUS
<1>3. /\ HasPattern(e) => next.xs = <<>> /\ next.o = AddPattern(AddXs(acc.o, acc.xs), e)
      /\ ~HasPattern(e) /\ Len(acc.xs) = SizeMax => next.xs = <<e.x>> /\ next.o = AddXs(acc.o, acc.xs)
      /\ ~HasPattern(e) /\ Len(acc.xs) # SizeMax => next.xs = Append(acc.xs, e.x) /\ next.o = acc.o
  OBVIOUS
<1> HIDE DEF next
<1>4. new.xs = next.xs /\ new.o = MoreValues(next.o, e.item.vals)
  <2> DEFINE v == next.o.values \o e.item.vals
             xs == next.xs
             o == next.o
  <2>1. new = [[xs |-> xs, o |-> o] EXCEPT !.o.values = v]
    BY Zenon, <1>1, <1>2
  <2>2. MoreValues(o, e.item.vals) = [o EXCEPT !.values = v]
    BY DEF MoreValues
  <2> HIDE DEF v, xs, o
  <2>3. new = [xs |-> xs, o |-> [o EXCEPT !.values = v]]
    BY <2>1
  <2> QED
    BY <2>2, <2>3 DEF xs, o
<1> QED
  BY <1>3, <1>4

\* One element more.
LEMMA WriteElemOk ==
  ASSUME NEW r, NEW side \in BOOLEAN, NEW m, NEW c, NEW acc, AccOk(acc, r, side, m, c),
         NEW e, ComesNext(e, m, r, side, c), NEW l, l = m + 1
  PROVE  AccOk(WriteElem(acc, e), r, side, l, e.x) /\ Begins(WriteElem(acc, e))
<1> DEFINE new == WriteElem(acc, e)
           o == acc.o
           xs == acc.xs
           v == e.item.vals
           x == e.x
           top == c
<1>1. PICK a : Ready(o, a, r, side) /\ Pending(o, a.n, xs, r, side)
  BY DEF AccOk
<1>2. ValuesOf(o.values, m) /\ \A k \in 1..Len(xs) : xs[k] <= top
  BY DEF AccOk
<1>3. /\ spm.type = HORIZONTAL /\ Len(spm.elems) \in Nat /\ m < Len(spm.elems)
      /\ \A k \in 1..Len(spm.elems) : IsSeq(spm.elems[k].item.vals)
      /\ e = spm.elems[m + 1] /\ ElemOk(e, r, side) /\ top \in Int /\ top < x
  BY DEF ComesNext
<1>4. /\ x \in Pos /\ x - 1 \in Numbers(4) /\ IsSeq(v)
      /\ ~HasPattern(e) => v = <<Point(r + 1, x)>>
      /\ input.symmetric => (x > input.rowStart <=> side)
  <2>1. IsSeq(v) /\ (~HasPattern(e) => v = <<Point(r + 1, x)>>)
    BY <1>3, ValsAre
  <2>2. x \in Pos /\ x - 1 \in Numbers(4) /\ (input.symmetric => (x > input.rowStart <=> side))
    BY <1>3 DEF ElemOk
  <2> QED
    BY <2>1, <2>2
<1>5. ValuesOf(o.values \o v, l)
  BY <1>2, <1>3, ValuesGo
<1>6. /\ AllReady(AddXs(o, xs), r, side, o.values) /\ (xs # <<>> => ~AddXs(o, xs).newRow)
  <2> HIDE DEF o, xs
  <2> QED
    BY <1>1, AddXsReady
<1> HIDE DEF new
<1>7. /\ HasPattern(e) => new.xs = <<>> /\ new.o = MoreValues(AddPattern(AddXs(o, xs), e), v)
      /\ ~HasPattern(e) /\ Len(xs) = SizeMax => new.xs = <<x>> /\ new.o = MoreValues(AddXs(o, xs), v)
      /\ ~HasPattern(e) /\ Len(xs) # SizeMax => new.xs = Append(xs, x) /\ new.o = MoreValues(o, v)
  BY WriteElemIs DEF new
<1> HIDE DEF o, xs, x, top
<1>8. CASE HasPattern(e)
  <2> DEFINE n == AddXs(o, xs)
             w == MoreValues(AddPattern(n, e), v)
  <2>1. AllReady(w, r, side, o.values \o v) /\ ~w.newRow
    <3> HIDE DEF n
    <3>1. AllReady(n, r, side, o.values)
      BY <1>6 DEF n
    <3> QED
      BY <1>3, <1>8, <3>1, AddPatternReady DEF v
  <2>2. new.xs = <<>> /\ new.o = w
    BY <1>7, <1>8
  <2> HIDE DEF n, w, v
  <2>3. PICK b : Ready(w, b, r, side) /\ b.n = Len(w.values) /\ w.values = o.values \o v
    BY <2>1 DEF AllReady
  <2>4. Pending(w, b.n, <<>>, r, side)
    <3>1. b.n \in Nat
      BY <2>3 DEF Ready, StateIs
    <3>2. IsSeq(<<>>) /\ Len(<<>>) = 0
      BY DEF IsSeq
    <3> QED
      BY <2>3, <3>1, <3>2 DEF Pending
  <2>5. \A k \in 1..Len(new.xs) : new.xs[k] <= x
    BY <2>2
  <2> QED
    BY <1>5, <2>1, <2>2, <2>3, <2>4, <2>5 DEF AccOk, Begins, new, x
<1>9. CASE ~HasPattern(e) /\ Len(xs) = SizeMax
  <2> DEFINE n == AddXs(o, xs)
             w == MoreValues(n, v)
  <2>1. PICK b : Ready(n, b, r, side) /\ b.n = Len(n.values) /\ n.values = o.values
    BY <1>6 DEF AllReady
  <2>2. new.xs = <<x>> /\ new.o = w
    BY <1>7, <1>9
  <2> HIDE DEF n
  <2>3. /\ Ready(w, b, r, side) /\ w.values = o.values \o v
        /\ Extends(o.values \o v, o.values) /\ Len(o.values \o v) = Len(o.values) + Len(v)
    <3>1. /\ Ready(w, b, r, side) /\ w.values = n.values \o v
          /\ Extends(n.values \o v, n.values) /\ Len(n.values \o v) = Len(n.values) + Len(v)
      BY <1>4, <2>1, ReadyMore
    <3>2. n.values = o.values
      BY <2>1
    <3> HIDE DEF w, v
    <3> QED
      BY <3>1, <3>2
  <2>4. IsSeq(o.values) /\ Len(o.values) \in Nat
    BY <1>2 DEF ValuesOf, IsSeq
  <2>5. Pending(w, b.n, <<x>>, r, side)
    <3>1. v = <<Point(r + 1, x)>>
      BY <1>4, <1>9
    <3>2. Len(v) = 1 /\ v[1] = Point(r + 1, x)
      BY <3>1
    <3>3. w.values[Len(o.values) + 1] = v[1] /\ Len(w.values) = Len(o.values) + 1
      <4> HIDE DEF v, w
      <4>1. \A k \in 1..Len(v) : (o.values \o v)[Len(o.values) + k] = v[k]
        BY <1>4, <2>4, ConcatIs
      <4>2. 1 \in 1..Len(v)
        BY <3>2
      <4> QED
        BY <2>3, <3>2, <4>1, <4>2
    <3>4. IsSeq(<<x>>) /\ Len(<<x>>) = 1 /\ <<x>>[1] = x
      BY DEF IsSeq
    <3> DEFINE s == <<x>>
    <3>5. \A k \in 1..Len(s) : k = 1
      BY <3>4
    <3>6. IsSeq(s) /\ Len(s) = 1 /\ s[1] = x
      BY <3>4
    <3> HIDE DEF s, w
    <3>7. \A k \in 1..Len(s) :
            /\ s[k] \in Pos /\ s[k] - 1 \in Numbers(4)
            /\ w.values[b.n + k] = Point(r + 1, s[k])
            /\ input.symmetric => (s[k] > input.rowStart <=> side)
      BY <1>4, <2>1, <3>2, <3>3, <3>5, <3>6
    <3>8. \A k \in 1..(Len(s) - 1) : s[k] < s[k + 1]
      BY <3>6
    <3> QED
      BY <2>1, <3>3, <3>6, <3>7, <3>8 DEF Pending, s
  <2>6. \A k \in 1..Len(new.xs) : new.xs[k] <= x
    BY <1>4, <2>2 DEF Pos
  <2>7. Begins(new)
    BY <2>2 DEF Begins
  <2> HIDE DEF w
  <2> QED
    BY <1>5, <2>2, <2>3, <2>5, <2>6, <2>7 DEF AccOk, new, x
<1>10. CASE ~HasPattern(e) /\ Len(xs) # SizeMax
  <2> DEFINE w == MoreValues(o, v)
             s == Append(xs, x)
  <2>1. new.xs = s /\ new.o = w
    BY <1>7, <1>10
  <2>2. /\ Ready(w, a, r, side) /\ w.values = o.values \o v
        /\ Extends(o.values \o v, o.values) /\ Len(o.values \o v) = Len(o.values) + Len(v)
    BY <1>1, <1>4, ReadyMore
  <2>3. IsSeq(o.values) /\ Len(o.values) \in Nat
    BY <1>2 DEF ValuesOf, IsSeq
  <2>4. /\ IsSeq(xs) /\ Len(xs) \in Nat /\ a.n + Len(xs) = Len(o.values) /\ a.n \in Nat
        /\ \A k \in 1..Len(xs) :
             /\ xs[k] \in Pos /\ xs[k] - 1 \in Numbers(4)
             /\ o.values[a.n + k] = Point(r + 1, xs[k])
             /\ input.symmetric => (xs[k] > input.rowStart <=> side)
        /\ \A k \in 1..(Len(xs) - 1) : xs[k] < xs[k + 1]
    BY <1>1 DEF Pending, IsSeq, Ready, StateIs
  <2>5. /\ IsSeq(s) /\ Len(s) = Len(xs) + 1 /\ s[Len(xs) + 1] = x
        /\ \A k \in 1..Len(xs) : s[k] = xs[k]
    BY <2>4, AppendIs
  <2>6. v = <<Point(r + 1, x)>>
    BY <1>4, <1>10
  <2>7. Len(v) = 1 /\ v[1] = Point(r + 1, x)
    BY <2>6
  <2> HIDE DEF w, s, v
  <2>8. /\ w.values[Len(o.values) + 1] = v[1] /\ Len(w.values) = Len(o.values) + 1
        /\ \A k \in 1..Len(o.values) : w.values[k] = o.values[k]
    BY <1>4, <2>2, <2>3, <2>7, ConcatIs
  <2>9. ASSUME NEW k \in 1..Len(s)
        PROVE  /\ s[k] \in Pos /\ s[k] - 1 \in Numbers(4)
               /\ w.values[a.n + k] = Point(r + 1, s[k])
               /\ input.symmetric => (s[k] > input.rowStart <=> side)
    <3>1. CASE k \in 1..Len(xs)
      <4>1. a.n + k \in 1..Len(o.values)
        BY <2>3, <2>4, <3>1
      <4> QED
        BY <2>4, <2>5, <2>8, <3>1, <4>1
    <3>2. CASE k = Len(xs) + 1
      <4>1. a.n + k = Len(o.values) + 1
        <5> DEFINE i == a.n
                   j == Len(xs)
                   t == Len(o.values)
        <5>1. i \in Nat /\ j \in Nat /\ t \in Nat /\ i + j = t /\ k = j + 1
          BY <2>3, <2>4, <3>2
        <5> HIDE DEF i, j, t
        <5>2. i + k = t + 1
          BY <5>1
        <5> QED
          BY <5>2 DEF i, t
      <4>2. s[k] = x
        BY <2>5, <3>2
      <4> QED
        BY <1>4, <2>7, <2>8, <4>1, <4>2
    <3> QED
      BY <2>4, <2>5, <3>1, <3>2
  <2>10. ASSUME NEW k \in 1..(Len(s) - 1) PROVE s[k] < s[k + 1]
    <3>1. CASE k \in 1..(Len(xs) - 1)
      <4>1. k \in 1..Len(xs) /\ k + 1 \in 1..Len(xs)
        BY <2>4, <3>1
      <4> QED
        BY <2>4, <2>5, <3>1, <4>1
    <3>2. CASE k = Len(xs)
      <4>1. s[k] = xs[k] /\ s[k + 1] = x /\ k \in 1..Len(xs)
        BY <2>4, <2>5, <3>2
      <4>2. xs[k] <= top /\ xs[k] \in Pos
        BY <1>2, <2>4, <4>1
      <4> QED
        BY <1>3, <1>4, <4>1, <4>2 DEF Pos
    <3>3. k \in 1..(Len(xs) - 1) \/ k = Len(xs)
      <4> DEFINE i == Len(s) - 1
                 j == Len(xs)
      <4>1. i = j /\ j \in Nat /\ k \in 1..i
        BY <2>4, <2>5
      <4> HIDE DEF i, j
      <4>2. k \in 1..(j - 1) \/ k = j
        BY <4>1
      <4> QED
        BY <4>2 DEF j
    <3> QED
      BY <3>1, <3>2, <3>3
  <2>11. Pending(w, a.n, s, r, side)
    <3>1. a.n + Len(s) = Len(w.values)
      <4> DEFINE i == a.n
                 j == Len(xs)
                 t == Len(o.values)
      <4>1. i \in Nat /\ j \in Nat /\ t \in Nat /\ i + j = t
        BY <2>3, <2>4
      <4>2. Len(s) = j + 1 /\ Len(w.values) = t + 1
        BY <2>5, <2>8
      <4> HIDE DEF i, j, t
      <4>3. i + (j + 1) = t + 1
        BY <4>1
      <4> QED
        BY <4>2, <4>3 DEF i
    <3>2. IsSeq(s)
      BY <2>5
    <3> QED
      BY <2>9, <2>10, <3>1, <3>2 DEF Pending
  <2>12. ASSUME NEW k \in 1..Len(s) PROVE s[k] <= x
    <3>1. CASE k \in 1..Len(xs)
      <4>1. s[k] <= top /\ s[k] \in Pos
        BY <1>2, <2>4, <2>5, <3>1
      <4> QED
        BY <1>3, <1>4, <4>1 DEF Pos
    <3>2. CASE k = Len(xs) + 1
      BY <1>4, <2>5, <3>2 DEF Pos
    <3> QED
      BY <2>4, <2>5, <3>1, <3>2
  <2>13. Begins(new)
    <3>1. Len(s) # 0
      BY <2>4, <2>5
    <3>2. s # <<>>
      BY <3>1
    <3> QED
      BY <2>1, <3>2 DEF Begins
  <2> QED
    BY <1>5, <2>1, <2>2, <2>11, <2>12, <2>13 DEF AccOk, new, x, v
<1> QED
  BY <1>8, <1>9, <1>10 DEF new

\* Everything up to element m is written.
DoneTo(o, r, side, m) == AllReady(o, r, side, o.values) /\ ValuesOf(o.values, m)

\* A part of the row r, on one side of the thread's first column.
RowPart(elems, m, r, side) ==
  /\ spm.type = HORIZONTAL /\ Len(spm.elems) \in Nat
  /\ \A k \in 1..Len(spm.elems) : IsSeq(spm.elems[k].item.vals)
  /\ IsSeq(elems) /\ m \in Nat /\ m + Len(elems) <= Len(spm.elems)
  /\ \A k \in 1..Len(elems) : elems[k] = spm.elems[m + k] /\ ElemOk(elems[k], r, side)
  /\ \A k \in 1..(Len(elems) - 1) : elems[k].x < elems[k + 1].x

\* The elements of a row's part are written as units that the kernel can go.
LEMMA DoElemsReady ==
  ASSUME NEW o, NEW r, NEW side \in BOOLEAN, NEW m, DoneTo(o, r, side, m),
         NEW elems, RowPart(elems, m, r, side), NEW l, l = m + Len(elems)
  PROVE  /\ DoneTo(DoElems(o, elems), r, side, l)
         /\ elems # <<>> => ~DoElems(o, elems).newRow
         /\ elems = <<>> => DoElems(o, elems) = o
<1> DEFINE n == Len(elems)
           all == Len(spm.elems)
           col(k) == IF k = 0 THEN 0 ELSE elems[k].x
<1>1. /\ spm.type = HORIZONTAL /\ all \in Nat
      /\ \A k \in 1..all : IsSeq(spm.elems[k].item.vals)
      /\ IsSeq(elems) /\ n \in Nat /\ m \in Nat /\ m + n <= all
      /\ \A k \in 1..n : elems[k] = spm.elems[m + k] /\ ElemOk(elems[k], r, side)
      /\ \A k \in 1..(n - 1) : elems[k].x < elems[k + 1].x
  BY DEF RowPart, IsSeq
<1>2. PICK f : AfterWritten(f, o, elems)
  BY <1>1, DoElemsIs
<1>3. /\ f[0] = [xs |-> <<>>, o |-> o]
      /\ \A k \in 1..n : f[k] = WriteElem(f[k - 1], elems[k])
      /\ DoElems(o, elems) = AddXs(f[n].o, f[n].xs)
  BY <1>2 DEF AfterWritten
<1>4. f[0].xs = <<>> /\ f[0].o = o
  BY <1>3
<1>5. AccOk(f[0], r, side, m + 0, col(0))
  <2>1. PICK a : Ready(o, a, r, side) /\ a.n = Len(o.values)
    BY DEF DoneTo, AllReady
  <2>2. Pending(o, a.n, <<>>, r, side)
    <3>1. a.n \in Nat
      BY <2>1 DEF Ready, StateIs
    <3>2. IsSeq(<<>>) /\ Len(<<>>) = 0
      BY DEF IsSeq
    <3> QED
      BY <2>1, <3>1, <3>2 DEF Pending
  <2>3. ValuesOf(o.values, m) /\ m + 0 = m
    BY <1>1 DEF DoneTo
  <2>4. \A k \in 1..Len(f[0].xs) : f[0].xs[k] <= col(0)
    BY <1>4
  <2> QED
    BY <1>4, <2>1, <2>2, <2>3, <2>4 DEF AccOk
<1> HIDE DEF n, all
<1> DEFINE Good == {k \in 0..n : AccOk(f[k], r, side, m + k, col(k)) /\ (k # 0 => Begins(f[k]))}
<1>6. 0 \in Good
  BY <1>1, <1>5
<1>7. ASSUME NEW k \in 0..(n - 1), k \in Good PROVE k + 1 \in Good
  <2> DEFINE e == elems[k + 1]
             h == m + k
  <2>1. k + 1 \in 1..n /\ k \in Nat /\ h \in Nat /\ h + 1 = m + (k + 1) /\ h < all /\ k + 1 - 1 = k
    BY <1>1
  <2>2. f[k + 1] = WriteElem(f[k], e)
    BY <1>3, <2>1
  <2>3. e = spm.elems[h + 1] /\ ElemOk(e, r, side)
    BY <1>1, <2>1
  <2>4. col(k) \in Int /\ col(k) < e.x
    <3>1. CASE k = 0
      BY <2>3, <3>1 DEF ElemOk, Pos
    <3>2. CASE k # 0
      <4>1. k \in 1..n /\ k \in 1..(n - 1)
        <5>1. n \in Nat /\ k \in Nat /\ k # 0 /\ k <= n - 1
          BY <1>1, <2>1, <3>2
        <5> QED
          BY ONLY <5>1
      <4>2. ElemOk(elems[k], r, side)
        BY <1>1, <4>1
      <4>3. elems[k].x \in Int
        BY <4>2 DEF ElemOk, Pos
      <4> QED
        BY <1>1, <3>2, <4>1, <4>3
    <3> QED
      BY <3>1, <3>2
  <2>5. AccOk(f[k], r, side, h, col(k))
    BY <1>7
  <2> DEFINE c == col(k)
  <2>6. ComesNext(e, h, r, side, c)
    BY <1>1, <2>1, <2>3, <2>4 DEF ComesNext, all
  <2> HIDE DEF h, c, e
  <2>7. AccOk(WriteElem(f[k], e), r, side, h + 1, e.x) /\ Begins(WriteElem(f[k], e))
    BY <2>5, <2>6, WriteElemOk DEF c
  <2>8. k + 1 # 0
    BY <2>1
  <2>9. col(k + 1) = e.x
    BY <2>8 DEF e
  <2>10. k + 1 \in 0..n
    BY <2>1
  <2> HIDE DEF col
  <2> QED
    BY <2>1, <2>2, <2>7, <2>9, <2>10
<1>8. n \in Good
  <2> HIDE DEF Good
  <2>1. 0..n \subseteq Good
    <3>1. 0 \in Int /\ n \in Int
      BY <1>1
    <3> QED
      BY Zenon, <1>6, <1>7, <3>1, IntervalInduction
  <2> QED
    BY <1>1, <2>1
<1> DEFINE w == f[n].o
           xs == f[n].xs
           new == DoElems(o, elems)
<1>9. /\ ValuesOf(w.values, l) /\ \E a : Ready(w, a, r, side) /\ Pending(w, a.n, xs, r, side)
  BY <1>8 DEF AccOk, n
<1>10. PICK a : Ready(w, a, r, side) /\ Pending(w, a.n, xs, r, side)
  BY <1>9
<1>11. new = AddXs(w, xs)
  BY <1>3
<1> HIDE DEF w, xs
<1>12. /\ AllReady(AddXs(w, xs), r, side, w.values)
       /\ xs # <<>> => ~AddXs(w, xs).newRow
       /\ xs = <<>> => AddXs(w, xs) = w
  BY <1>10, AddXsReady
<1> HIDE DEF new
<1>13. new.values = w.values
  BY <1>11, <1>12 DEF AllReady
<1>14. DoneTo(new, r, side, l)
  BY <1>9, <1>11, <1>12, <1>13 DEF DoneTo
<1>15. ASSUME elems # <<>> PROVE ~new.newRow
  <2>1. n # 0
    <3> DEFINE S == {elems[k] : k \in 1..Len(elems)}
    <3>1. elems \in Seq(S)
      BY <1>1, ElementsIn
    <3> HIDE DEF S
    <3> QED
      BY <1>15, <3>1 DEF n
  <2>2. xs # <<>> \/ ~w.newRow
    BY <1>8, <2>1 DEF Begins, xs, w
  <2> QED
    BY <1>11, <1>12, <2>2
<1>16. ASSUME elems = <<>> PROVE new = o
  <2>1. n = 0
    BY <1>16 DEF n
  <2>2. xs = <<>> /\ w = o
    BY <1>4, <2>1 DEF xs, w
  <2> QED
    BY <1>11, <1>12, <2>2
<1> QED
  BY <1>14, <1>15, <1>16 DEF new

-----------------------------------------------------------------------------
(***************************************************************************)
(* Writing row after row.                                                  *)
(***************************************************************************)
\* r rows are written, with the first m elements of the matrix.
Boundary(o, r, m) ==
  \E a : /\ OutIs(o) /\ Traced(o, a) /\ StateIs(a)
         /\ a.at = Len(o.ctl.elems) + 1 /\ a.n = Len(o.values)
         /\ r = IF o.newRow THEN a.y + o.emptyRows + 1 ELSE a.y
         /\ ~o.newRow => a.x = 0 /\ a.n = 0
         /\ ValuesOf(o.values, m)

\* The values of fields that a row begins with.
LEMMA RowBegins ==
  ASSUME NEW o, NEW r \in Numbers(8), NEW m, Boundary(o, r, m)
  PROVE  DoneTo([o EXCEPT !.lastCol = 1], r, FALSE, m)
<1> DEFINE new == [o EXCEPT !.lastCol = 1]
<1>1. PICK a : /\ OutIs(o) /\ Traced(o, a) /\ StateIs(a)
               /\ a.at = Len(o.ctl.elems) + 1 /\ a.n = Len(o.values)
               /\ r = IF o.newRow THEN a.y + o.emptyRows + 1 ELSE a.y
               /\ ~o.newRow => a.x = 0 /\ a.n = 0
               /\ ValuesOf(o.values, m)
  BY Zenon DEF Boundary
<1>2. /\ IsSeq(o.values) /\ IsSeq(o.patterns) /\ DaIs(o.ctl) /\ o.newRow \in BOOLEAN
      /\ o.emptyRows \in Nat /\ (~o.newRow => o.emptyRows = 0)
  BY <1>1 DEF OutIs
<1>3. WithFields(new, o, o.newRow, o.emptyRows, 1, o.ctl, o.values)
  <2> DEFINE one == 1
  <2>1. new = OutWith(o, o.newRow, o.emptyRows, one, o.ctl, o.values)
    BY <1>1, UpdatesAre
  <2>2. one \in Int
    OBVIOUS
  <2> HIDE DEF new, one
  <2>3. WithFields(new, o, o.newRow, o.emptyRows, one, o.ctl, o.values)
    BY <1>1, <1>2, <2>1, <2>2, OutWithIs
  <2> QED
    BY <2>3 DEF one
<1> HIDE DEF new
<1>4. /\ OutIs(new) /\ new.newRow = o.newRow /\ new.emptyRows = o.emptyRows
      /\ new.lastCol = 1 /\ new.ctl = o.ctl /\ new.values = o.values
      /\ new.patterns = o.patterns /\ new.rowJmps = o.rowJmps
  BY <1>3 DEF WithFields
<1>5. Grown(new, o)
  <2>1. /\ Extends(o.ctl.elems, o.ctl.elems) /\ Extends(o.patterns, o.patterns)
        /\ Extends(o.values, o.values)
    BY <1>2, ExtendsSelf DEF DaIs
  <2> QED
    BY <1>4, <2>1 DEF Grown
<1>6. Traced(new, a)
  BY <1>1, <1>5, TracedStays
<1>7. Ready(new, a, r, FALSE)
  <2>1. new.lastCol = IF new.newRow THEN 1 ELSE a.x + 1
    BY <1>1, <1>4
  <2>2. a.n <= Len(new.values)
    BY <1>1, <1>2, <1>4 DEF StateIs
  <2> QED
    BY <1>1, <1>4, <1>6, <2>1, <2>2 DEF Ready
<1> QED
  BY <1>1, <1>4, <1>7 DEF DoneTo, AllReady, new

\* A row that ends is marked; the next one begins.
LEMMA RowEndsMarked ==
  ASSUME NEW w, NEW r, NEW side, NEW m, DoneTo(w, r, side, m), ~w.newRow, NEW l, l = r + 1
  PROVE  Boundary([w EXCEPT !.newRow = TRUE], l, m)
<1> DEFINE new == [w EXCEPT !.newRow = TRUE]
<1>1. PICK a : Ready(w, a, r, side) /\ a.n = Len(w.values)
  BY DEF DoneTo, AllReady
<1>2. /\ OutIs(w) /\ Traced(w, a) /\ StateIs(a) /\ a.at = Len(w.ctl.elems) + 1 /\ r = a.y
      /\ ValuesOf(w.values, m)
  BY <1>1 DEF Ready, DoneTo
<1>3. /\ IsSeq(w.values) /\ IsSeq(w.patterns) /\ DaIs(w.ctl) /\ w.emptyRows = 0 /\ w.lastCol \in Int
  BY <1>2 DEF OutIs
<1>4. WithFields(new, w, TRUE, w.emptyRows, w.lastCol, w.ctl, w.values)
  <2> DEFINE yes == TRUE
             none == w.emptyRows
  <2>1. new = OutWith(w, yes, none, w.lastCol, w.ctl, w.values)
    BY <1>2, UpdatesAre
  <2>2. yes \in BOOLEAN /\ none \in Nat /\ (~yes => none = 0)
    BY <1>3
  <2> HIDE DEF new, yes, none
  <2>3. WithFields(new, w, yes, none, w.lastCol, w.ctl, w.values)
    BY <1>2, <1>3, <2>1, <2>2, OutWithIs
  <2> QED
    BY <2>3 DEF yes, none
<1> HIDE DEF new
<1>5. /\ OutIs(new) /\ new.newRow = TRUE /\ new.emptyRows = 0
      /\ new.ctl = w.ctl /\ new.values = w.values
      /\ new.patterns = w.patterns /\ new.rowJmps = w.rowJmps
  BY <1>3, <1>4 DEF WithFields
<1>6. Grown(new, w)
  <2>1. /\ Extends(w.ctl.elems, w.ctl.elems) /\ Extends(w.patterns, w.patterns)
        /\ Extends(w.values, w.values)
    BY <1>3, ExtendsSelf DEF DaIs
  <2> QED
    BY <1>5, <2>1 DEF Grown
<1>7. Traced(new, a)
  BY <1>2, <1>6, TracedStays
<1>8. l = IF new.newRow THEN a.y + new.emptyRows + 1 ELSE a.y
  <2>1. a.y + 0 + 1 = r + 1
    BY <1>2 DEF StateIs
  <2> QED
    BY <1>5, <2>1
<1>9. Boundary(new, l, m)
  BY <1>1, <1>2, <1>5, <1>7, <1>8 DEF Boundary
<1> QED
  BY <1>9 DEF new

\* An empty row is counted, but the first one is only marked.
LEMMA RowSkipped ==
  ASSUME NEW o, NEW r, NEW m, Boundary(o, r, m), NEW l, l = r + 1,
         NEW new, new = IF o.newRow THEN [o EXCEPT !.emptyRows = o.emptyRows + 1]
                                    ELSE [o EXCEPT !.newRow = TRUE]
  PROVE  Boundary(new, l, m)
<1>1. PICK a : /\ OutIs(o) /\ Traced(o, a) /\ StateIs(a)
               /\ a.at = Len(o.ctl.elems) + 1 /\ a.n = Len(o.values)
               /\ r = IF o.newRow THEN a.y + o.emptyRows + 1 ELSE a.y
               /\ ~o.newRow => a.x = 0 /\ a.n = 0
               /\ ValuesOf(o.values, m)
  BY Zenon DEF Boundary
<1>2. /\ IsSeq(o.values) /\ IsSeq(o.patterns) /\ DaIs(o.ctl) /\ o.newRow \in BOOLEAN
      /\ o.emptyRows \in Nat /\ (~o.newRow => o.emptyRows = 0) /\ o.lastCol \in Int
  BY <1>1 DEF OutIs
<1> DEFINE empty == IF o.newRow THEN o.emptyRows + 1 ELSE 0
           yes == TRUE
<1>3. new = OutWith(o, yes, empty, o.lastCol, o.ctl, o.values)
  <2>1. CASE o.newRow
    <3> DEFINE e == o.emptyRows + 1
    <3>1. new = [o EXCEPT !.emptyRows = e] /\ empty = e /\ o.newRow = TRUE
      BY <1>2, <2>1
    <3> HIDE DEF e, empty
    <3>2. new = OutWith(o, o.newRow, e, o.lastCol, o.ctl, o.values)
      BY <1>1, <3>1, UpdatesAre
    <3> QED
      BY <3>1, <3>2
  <2>2. CASE ~o.newRow
    <3>1. new = [o EXCEPT !.newRow = TRUE] /\ empty = o.emptyRows
      BY <1>2, <2>2
    <3> HIDE DEF empty
    <3>2. new = OutWith(o, TRUE, o.emptyRows, o.lastCol, o.ctl, o.values)
      BY <1>1, <3>1, UpdatesAre
    <3> QED
      BY <3>1, <3>2
  <2> QED
    BY <2>1, <2>2
<1>4. yes \in BOOLEAN /\ empty \in Nat /\ (~yes => empty = 0)
  BY <1>2
<1>5. r + 1 = a.y + empty + 1
  <2> DEFINE y == a.y
             e == o.emptyRows
  <2>1. y \in Nat /\ e \in Nat
    BY <1>1, <1>2 DEF StateIs
  <2>2. CASE o.newRow
    <3>1. r = y + e + 1 /\ empty = e + 1
      BY <1>1, <2>2
    <3> HIDE DEF y, e, empty
    <3>2. r + 1 = y + empty + 1
      BY <2>1, <3>1
    <3> QED
      BY <3>2 DEF y
  <2>3. CASE ~o.newRow
    <3>1. r = y /\ empty = 0
      BY <1>1, <2>3
    <3> HIDE DEF y, e, empty
    <3>2. r + 1 = y + empty + 1
      BY <2>1, <3>1
    <3> QED
      BY <3>2 DEF y
  <2> QED
    BY Zenon, <1>2, <2>2, <2>3
<1> HIDE DEF empty, yes
<1>6. WithFields(new, o, yes, empty, o.lastCol, o.ctl, o.values)
  <2>1. OutIs(o) /\ o.lastCol \in Int /\ DaIs(o.ctl) /\ IsSeq(o.values)
    BY <1>1, <1>2
  <2> QED
    BY ONLY Zenon, <1>3, <1>4, <2>1, OutWithIs
<1>7. /\ OutIs(new) /\ new.newRow = TRUE /\ new.emptyRows = empty
      /\ new.ctl = o.ctl /\ new.values = o.values
      /\ new.patterns = o.patterns /\ new.rowJmps = o.rowJmps
  BY <1>6 DEF WithFields, yes
<1>8. Grown(new, o)
  <2>1. /\ Extends(o.ctl.elems, o.ctl.elems) /\ Extends(o.patterns, o.patterns)
        /\ Extends(o.values, o.values)
    BY <1>2, ExtendsSelf DEF DaIs
  <2> QED
    BY <1>7, <2>1 DEF Grown
<1>9. Traced(new, a)
  BY <1>1, <1>8, TracedStays
<1>10. l = IF new.newRow THEN a.y + new.emptyRows + 1 ELSE a.y
  BY <1>5, <1>7
<1> QED
  BY <1>1, <1>7, <1>9, <1>10 DEF Boundary

\* Before the first row nothing is written.
LEMMA NothingWritten ==
  ASSUME Len(spm.elems) \in Nat, \A k \in 1..Len(spm.elems) : IsSeq(spm.elems[k].item.vals), NEW n,
         NEW new, new = [NewOut EXCEPT !.ctl = Create(n)]
  PROVE  Boundary(new, 0, 0) /\ new.patterns = <<>>
<1> DEFINE a == StartState
           da == Create(n)
<1>1. DaIs(da) /\ da.elems = <<>>
  <2> DEFINE room == IF n <= Grain THEN Grain ELSE RoundUp(n, Grain)
  <2>1. da = [elems |-> <<>>, room |-> room, moves |-> 0]
    BY DEF Create
  <2> HIDE DEF room, da
  <2>2. IsSeq(<<>>)
    BY DEF IsSeq
  <2> QED
    BY <2>1, <2>2 DEF DaIs, DaFields, Has
<1> HIDE DEF da
<1>2. /\ new.newRow = FALSE /\ new.emptyRows = 0 /\ new.lastCol = 1 /\ new.rowJmps = FALSE
      /\ new.patterns = <<>> /\ new.ctl = da /\ new.values = <<>> /\ Has(new, OutFields)
  BY DEF NewOut, OutFields, Has, da
<1>3. IsSeq(<<>>) /\ Len(<<>>) = 0
  BY DEF IsSeq
<1>4. OutIs(new)
  <2>1. IsSeq(new.patterns) /\ IsSeq(new.values) /\ DaIs(new.ctl)
    BY <1>1, <1>2, <1>3
  <2>2. \A j, k \in 1..Len(new.patterns) : new.patterns[j] = new.patterns[k] => j = k
    BY <1>2, <1>3
  <2>3. FALSE \in BOOLEAN /\ 0 \in Nat /\ 1 \in Int
    OBVIOUS
  <2>4. new.newRow \in BOOLEAN /\ new.emptyRows \in Nat /\ new.lastCol \in Int
    BY ONLY Zenon, <1>2, <2>3
  <2> QED
    BY ONLY Zenon, <1>2, <2>1, <2>2, <2>4 DEF OutIs
<1>5. a.at = 1 /\ a.y = 0 /\ a.x = 0 /\ a.n = 0
  BY DEF StartState
<1>6. StateIs(a)
  BY <1>5 DEF StateIs, Pos
<1>7. Traced(new, a)
  <2> DEFINE states == <<a>>
  <2>1. IsSeq(states) /\ Len(states) = 1 /\ states[1] = a
    BY DEF IsSeq
  <2> HIDE DEF states
  <2>2. Trace(new, <<>>, states)
    BY <1>3, <2>1 DEF Trace
  <2>3. states[Len(<<>>) + 1] = a
    BY <1>3, <2>1
  <2> QED
    BY <2>2, <2>3 DEF Traced
<1>8. ValuesOf(new.values, 0)
  <2>1. Len(ItemVals) = Len(spm.elems) /\ \A k \in 1..Len(spm.elems) : ItemVals[k] = spm.elems[k].item.vals
    <3>1. ItemVals = [k \in 1..Len(spm.elems) |-> ItemVals[k]]
      BY DEF ItemVals
    <3>2. Len(ItemVals) = Len(spm.elems)
      BY <3>1, FunctionIs
    <3> QED
      BY <3>2 DEF ItemVals
  <2>2. EndsOfRows(RowEnds(ItemVals), ItemVals)
    <3>1. \A k \in 1..Len(ItemVals) : Len(ItemVals[k]) \in Nat
      BY <2>1 DEF IsSeq
    <3> QED
      BY <2>1, <3>1, RowEndsAre
  <2>3. RowEnds(ItemVals)[0] = 0
    BY <2>2 DEF EndsOfRows
  <2>4. 0 \in 0..Len(spm.elems)
    OBVIOUS
  <2> QED
    BY <1>2, <1>3, <2>3, <2>4 DEF ValuesOf
<1> HIDE DEF a
<1>9. a.at = Len(new.ctl.elems) + 1 /\ a.n = Len(new.values)
  BY <1>1, <1>2, <1>3, <1>5
<1>10. 0 = IF new.newRow THEN a.y + new.emptyRows + 1 ELSE a.y
  BY <1>2, <1>5
<1> QED
  BY <1>2, <1>4, <1>5, <1>6, <1>7, <1>8, <1>9, <1>10 DEF Boundary

-----------------------------------------------------------------------------
\* The elements of row i: they can be written, and their columns rise.
RowGood(i) ==
  \A k \in (spm.rowptr[i] + 1)..spm.rowptr[i + 1] :
    /\ i - 1 \in Numbers(8)
    /\ ElemOk(spm.elems[k], i - 1, spm.elems[k].x > input.rowStart)
    /\ \A j \in (spm.rowptr[i] + 1)..(k - 1) : spm.elems[j].x < spm.elems[k].x

\* The matrix can be written row by row.
Writable ==
  /\ spm.type = HORIZONTAL /\ IsSeq(spm.elems) /\ GetNrRows(spm) \in Nat
  /\ \A k \in 1..Len(spm.elems) : IsSeq(spm.elems[k].item.vals)
  /\ spm.rowptr[1] = 0 /\ spm.rowptr[GetNrRows(spm) + 1] = Len(spm.elems)
  /\ \A i \in 1..GetNrRows(spm) :
       /\ spm.rowptr[i] \in Nat /\ spm.rowptr[i + 1] \in Nat
       /\ spm.rowptr[i] <= spm.rowptr[i + 1] /\ spm.rowptr[i + 1] <= Len(spm.elems)
       /\ RowGood(i)

\* A stretch of a row's elements on one side is a part of the row.
LEMMA StretchIsPart ==
  ASSUME Writable, NEW i \in 1..GetNrRows(spm), NEW side \in BOOLEAN,
         NEW elems, IsSeq(elems), NEW m \in Nat, spm.rowptr[i] <= m,
         m + Len(elems) <= spm.rowptr[i + 1],
         \A k \in 1..Len(elems) :
           /\ elems[k] = spm.elems[m + k]
           /\ input.symmetric => (elems[k].x > input.rowStart <=> side)
  PROVE  RowPart(elems, m, i - 1, side)
<1> DEFINE p == spm.rowptr[i]
           q == spm.rowptr[i + 1]
           n == Len(elems)
           r == i - 1
<1>1. /\ p \in Nat /\ q \in Nat /\ q <= Len(spm.elems) /\ Len(spm.elems) \in Nat
      /\ RowGood(i) /\ spm.type = HORIZONTAL
      /\ \A k \in 1..Len(spm.elems) : IsSeq(spm.elems[k].item.vals)
  BY DEF Writable, IsSeq
<1>2. n \in Nat /\ p <= m /\ m + n <= q
  BY DEF IsSeq
<1>3. ASSUME NEW k \in 1..n
      PROVE  /\ ElemOk(spm.elems[m + k], r, spm.elems[m + k].x > input.rowStart)
             /\ \A j \in (p + 1)..(m + k - 1) : spm.elems[j].x < spm.elems[m + k].x
  <2>1. m + k \in (p + 1)..q
    BY <1>1, <1>2
  <2> QED
    BY <1>1, <2>1 DEF RowGood
<1> HIDE DEF p, q, n, r
<1>4. ASSUME NEW k \in 1..n
      PROVE  elems[k] = spm.elems[m + k] /\ ElemOk(elems[k], r, side)
  <2>1. /\ elems[k] = spm.elems[m + k]
        /\ input.symmetric => (elems[k].x > input.rowStart <=> side)
    BY DEF n
  <2>2. ElemOk(elems[k], r, elems[k].x > input.rowStart)
    BY <1>3, <2>1
  <2> QED
    BY <2>1, <2>2 DEF ElemOk
<1>5. ASSUME NEW k \in 1..(n - 1)
      PROVE  elems[k].x < elems[k + 1].x
  <2>1. k \in 1..n /\ k + 1 \in 1..n /\ m + k \in (p + 1)..(m + (k + 1) - 1)
    BY <1>1, <1>2
  <2>2. elems[k] = spm.elems[m + k] /\ elems[k + 1] = spm.elems[m + (k + 1)]
    BY <1>4, <2>1
  <2> DEFINE l == k + 1
  <2> HIDE DEF l
  <2>3. spm.elems[m + k].x < spm.elems[m + l].x
    BY <1>3, <2>1 DEF l
  <2> QED
    BY <2>2, <2>3 DEF l
<1>6. m + n <= Len(spm.elems)
  BY <1>1, <1>2
<1> QED
  BY <1>1, <1>4, <1>5, <1>6 DEF RowPart, n, r

\* The row i of the matrix.
LEMMA RowIn ==
  ASSUME Writable, NEW i \in 1..GetNrRows(spm), NEW elems, elems = Row(spm, i)
  PROVE  /\ IsSeq(elems) /\ spm.rowptr[i] + Len(elems) = spm.rowptr[i + 1]
         /\ \A k \in 1..Len(elems) : elems[k] = spm.elems[spm.rowptr[i] + k]
<1> DEFINE p == spm.rowptr[i]
           q == spm.rowptr[i + 1]
           whole == spm.elems
           from == p + 1
<1>1. /\ p \in Nat /\ q \in Nat /\ p <= q /\ q <= Len(whole) /\ Len(whole) \in Nat /\ IsSeq(whole)
  BY DEF Writable, IsSeq
<1>2. elems = SubSeq(whole, from, q)
  BY DEF Row
<1> HIDE DEF p, q, whole, from
<1>3. from \in 1..(Len(whole) + 1) /\ q \in (from - 1)..Len(whole) /\ q - from + 1 = q - p
  BY <1>1 DEF from
<1>4. /\ IsSeq(elems) /\ Len(elems) = q - from + 1
      /\ \A k \in 1..(q - from + 1) : elems[k] = whole[from + k - 1]
  BY <1>1, <1>2, <1>3, StretchIs
<1>5. p + Len(elems) = q
  BY <1>1, <1>3, <1>4
<1>6. ASSUME NEW k \in 1..Len(elems) PROVE elems[k] = whole[p + k]
  <2>1. elems[k] = whole[from + k - 1]
    BY <1>4
  <2>2. from + k - 1 = p + k
    BY <1>1, <1>4, <1>3 DEF from
  <2> QED
    BY <2>1, <2>2
<1> QED
  BY <1>4, <1>5, <1>6 DEF p, q, whole

\* What is ready for columns before the thread's own is ready for those as well.
LEMMA ReadyForOwn ==
  ASSUME NEW o, NEW r, NEW m, DoneTo(o, r, FALSE, m)
  PROVE  DoneTo(o, r, TRUE, m)
BY DEF DoneTo, AllReady, Ready

\* A row that is not empty is written, in one run or in two.
RowWritten(o, elems) == IF input.symmetric THEN DoSymRow(o, elems) ELSE DoRow(o, elems)

\* The two parts of a row of a symmetric matrix.
InParts(o, elems, first, second) ==
  /\ DoSymRow(o, elems) = DoElems(DoRow(o, first), second)
  /\ IsSeq(first) /\ IsSeq(second) /\ Len(first) + Len(second) = Len(elems)
  /\ \A k \in 1..Len(first) : first[k] = elems[k] /\ ~(elems[k].x > input.rowStart)
  /\ \A k \in 1..Len(second) :
       second[k] = elems[Len(first) + k] /\ elems[Len(first) + k].x > input.rowStart

\* DoSymRow writes the elements left of the thread's rows, then the others.
LEMMA SymRowIs ==
  ASSUME input \in Inputs, NEW o, NEW elems, IsSeq(elems),
         \A k \in 1..Len(elems) : elems[k].x \in Pos,
         \A j, k \in 1..Len(elems) : j < k => elems[j].x < elems[k].x
  PROVE  \E first, second : InParts(o, elems, first, second)
<1> DEFINE start == input.rowStart
           I == {k \in 1..Len(elems) : elems[k].x >= start + 1}
           n == IF I # {} THEN Min(I) ELSE 0
           first == IF n = 0 THEN elems ELSE SubSeq(elems, 1, n - 1)
           second == IF n = 0 THEN <<>> ELSE SubSeq(elems, n, Len(elems))
<1>1. DoSymRow(o, elems) = DoElems(DoRow(o, first), second)
  BY DEF DoSymRow, SelectInSeq
<1>2. start \in Nat /\ Len(elems) \in Nat
  BY InputsAssumption DEF IsSeq
<1>3. I \in SUBSET Nat /\ \A k \in 1..Len(elems) : k \in I <=> elems[k].x >= start + 1
  BY <1>2
<1>4. I \subseteq 1..Len(elems)
  OBVIOUS
<1>5. \A k \in 1..Len(elems) : elems[k].x \in Int
  BY DEF Pos
<1> HIDE DEF start, I
<1>6. ASSUME I = {} PROVE InParts(o, elems, elems, <<>>)
  <2>1. first = elems /\ second = <<>>
    BY <1>6
  <2> HIDE DEF first, second
  <2>2. \A k \in 1..Len(elems) : ~(elems[k].x > start)
    BY <1>2, <1>3, <1>5, <1>6
  <2>3. IsSeq(<<>>) /\ Len(<<>>) = 0
    BY DEF IsSeq
  <2> QED
    BY <1>1, <1>2, <2>1, <2>2, <2>3 DEF InParts, start
<1>7. ASSUME I # {}
      PROVE  \E f, s : InParts(o, elems, f, s)
  <2>1. n \in I /\ \A k \in I : n <= k
    BY <1>3, <1>7, MinIs
  <2>2. n \in 1..Len(elems)
    BY <1>4, <2>1
  <2> HIDE DEF n
  <2>3. first = SubSeq(elems, 1, n - 1) /\ second = SubSeq(elems, n, Len(elems))
    BY <2>2
  <2> DEFINE m == n - 1
             len == Len(elems)
  <2>4. m \in 0..(len - 1) /\ n = m + 1 /\ 1 \in 1..(len + 1) /\ m \in (1 - 1)..len
        /\ n \in 1..(len + 1) /\ len \in (n - 1)..len /\ len - n + 1 = len - m /\ m - 1 + 1 = m
        /\ len \in Nat
    BY <1>2, <2>2
  <2> HIDE DEF first, second
  <2>5. IsSeq(first) /\ Len(first) = m /\ \A k \in 1..m : first[k] = elems[1 + k - 1]
    <3>1. first = SubSeq(elems, 1, m)
      BY <2>3
    <3> HIDE DEF m, len
    <3>2. 1 \in 1..(Len(elems) + 1) /\ m \in (1 - 1)..Len(elems)
      BY <2>4 DEF len
    <3>3. IsSeq(SubSeq(elems, 1, m)) /\ Len(SubSeq(elems, 1, m)) = m - 1 + 1
          /\ \A k \in 1..(m - 1 + 1) : SubSeq(elems, 1, m)[k] = elems[1 + k - 1]
      BY <3>2, StretchIs
    <3> QED
      BY <3>1, <3>3, <2>4
  <2>6. IsSeq(second) /\ Len(second) = len - m /\ \A k \in 1..(len - m) : second[k] = elems[n + k - 1]
    <3>1. n \in 1..(Len(elems) + 1) /\ Len(elems) \in (n - 1)..Len(elems)
      BY <2>4
    <3> HIDE DEF m
    <3>3. /\ IsSeq(SubSeq(elems, n, len)) /\ Len(SubSeq(elems, n, len)) = len - n + 1
          /\ \A k \in 1..(len - n + 1) : SubSeq(elems, n, len)[k] = elems[n + k - 1]
      BY <3>1, StretchIs
    <3> QED
      BY <2>3, <3>3, <2>4
  <2> HIDE DEF m, len
  <2>7. ASSUME NEW k \in 1..m PROVE first[k] = elems[k] /\ ~(elems[k].x > start)
    <3>1. 1 + k - 1 = k /\ k \in 1..len /\ ~(n <= k)
      BY <2>4
    <3>2. first[k] = elems[k]
      BY <2>5, <3>1
    <3>3. k \notin I /\ k \in 1..Len(elems)
      BY <2>1, <3>1 DEF len
    <3> QED
      BY <1>2, <1>3, <1>5, <3>2, <3>3
  <2>8. ASSUME NEW k \in 1..(len - m) PROVE second[k] = elems[m + k] /\ elems[m + k].x > start
    <3> DEFINE l == m + k
    <3>1. n + k - 1 = l /\ l \in 1..len /\ n \in 1..len /\ (l = n \/ n < l)
      BY <2>4
    <3> HIDE DEF l
    <3>2. second[k] = elems[l]
      BY <2>6, <3>1
    <3>3. elems[n].x >= start + 1 /\ elems[n].x \in Int
      BY <1>3, <1>5, <2>1, <2>2
    <3>4. elems[l].x \in Int /\ (l = n \/ elems[n].x < elems[l].x)
      BY <1>5, <3>1 DEF len
    <3>5. elems[l].x > start
      BY <1>2, <3>3, <3>4
    <3> QED
      BY <3>2, <3>5 DEF l
  <2>9. Len(first) + Len(second) = Len(elems)
    BY <2>4, <2>5, <2>6 DEF len
  <2>10. InParts(o, elems, first, second)
    BY <1>1, <2>5, <2>6, <2>7, <2>8, <2>9 DEF InParts, start
  <2> QED
    BY <2>10
<1> QED
  BY <1>6, <1>7

\* A row's elements are written as units that the kernel can go.
LEMMA RowElemsWritten ==
  ASSUME Writable, input \in Inputs, NEW i \in 1..GetNrRows(spm),
         NEW r, r = i - 1, r \in Numbers(8), NEW m, m = spm.rowptr[i],
         NEW elems, elems = Row(spm, i), elems # <<>>,
         NEW o, NEW start, \A s : DoRow(o, s) = DoElems(start, s), DoneTo(start, r, FALSE, m),
         NEW l, l = spm.rowptr[i + 1], NEW w, w = RowWritten(o, elems)
  PROVE  \E side : DoneTo(w, r, side, l) /\ ~w.newRow
<1> DEFINE no == FALSE
           yes == TRUE
           k1 == spm.rowptr[i]
<1>1. /\ IsSeq(elems) /\ m + Len(elems) = l /\ m \in Nat /\ l \in Nat
      /\ \A k \in 1..Len(elems) : elems[k] = spm.elems[m + k]
      /\ spm.type = HORIZONTAL /\ RowGood(i) /\ GetNrRows(spm) \in Nat
  BY RowIn DEF Writable
<1>0. \A k \in (m + 1)..l :
        /\ ElemOk(spm.elems[k], r, spm.elems[k].x > input.rowStart)
        /\ \A j \in (m + 1)..(k - 1) : spm.elems[j].x < spm.elems[k].x
  BY Zenon, <1>1 DEF RowGood
<1> DEFINE len == Len(elems)
<1>00. len \in Nat /\ m + len = l /\ m \in Nat /\ l \in Nat
  BY <1>1 DEF IsSeq
<1>2. DoneTo(start, r, no, m) /\ no \in BOOLEAN /\ yes \in BOOLEAN
  OBVIOUS
<1>3. \A s : DoRow(o, s) = DoElems(start, s)
  OBVIOUS
<1> HIDE DEF len
<1>4. ASSUME NEW k \in 1..len
      PROVE  /\ ElemOk(elems[k], r, elems[k].x > input.rowStart)
             /\ \A j \in 1..len : j < k => elems[j].x < elems[k].x
  <2> DEFINE h == m + k
  <2>0. elems[k] = spm.elems[h]
    BY <1>1 DEF len
  <2>1. h \in (m + 1)..l
    BY <1>00
  <2>2. ASSUME NEW j \in 1..len, j < k PROVE m + j \in (m + 1)..(h - 1)
    BY ONLY <1>00, <2>2, j \in 1..len, k \in 1..len
  <2> HIDE DEF h
  <2>3. /\ ElemOk(spm.elems[h], r, spm.elems[h].x > input.rowStart)
        /\ \A j \in (m + 1)..(h - 1) : spm.elems[j].x < spm.elems[h].x
    BY Zenon, <1>0, <2>1
  <2>4. ASSUME NEW j \in 1..len, j < k PROVE elems[j].x < elems[k].x
    <3>1. m + j \in (m + 1)..(h - 1)
      BY <2>2, <2>4
    <3>2. spm.elems[m + j].x < spm.elems[h].x
      BY ONLY Zenon, <2>3, <3>1
    <3>3. elems[j] = spm.elems[m + j]
      BY <1>1 DEF len
    <3> QED
      BY ONLY Zenon, <2>0, <3>2, <3>3
  <2> QED
    BY ONLY Zenon, <2>0, <2>3, <2>4
<1>5. CASE ~input.symmetric
  <2>1. RowPart(elems, m, i - 1, no)
    <3>0. m <= m /\ m + len <= l
      BY <1>00
    <3>1. /\ spm.rowptr[i] <= m /\ m + Len(elems) <= spm.rowptr[i + 1]
          /\ \A k \in 1..Len(elems) :
               /\ elems[k] = spm.elems[m + k]
               /\ input.symmetric => (elems[k].x > input.rowStart <=> no)
      BY Zenon, <1>1, <1>5, <3>0 DEF len
    <3> QED
      BY <1>1, <1>2, <3>1, StretchIsPart
  <2>2. w = DoElems(start, elems)
    BY <1>3, <1>5 DEF RowWritten
  <2>3. /\ DoneTo(DoElems(start, elems), r, no, l)
        /\ elems # <<>> => ~DoElems(start, elems).newRow
    BY <1>1, <1>2, <2>1, DoElemsReady
  <2> QED
    BY <2>2, <2>3
<1>6. CASE input.symmetric
  <2>1. w = DoSymRow(o, elems)
    BY <1>6 DEF RowWritten
  <2>2. \A k \in 1..Len(elems) : elems[k].x \in Pos
    BY Zenon, <1>4 DEF ElemOk, len
  <2>3. \A j, k \in 1..Len(elems) : j < k => elems[j].x < elems[k].x
    BY Zenon, <1>4 DEF len
  <2>4. PICK first, second : InParts(o, elems, first, second)
    BY <1>1, <2>2, <2>3, SymRowIs
  <2>5. /\ DoSymRow(o, elems) = DoElems(DoRow(o, first), second)
        /\ IsSeq(first) /\ IsSeq(second) /\ Len(first) + Len(second) = Len(elems)
        /\ \A k \in 1..Len(first) : first[k] = elems[k] /\ ~(elems[k].x > input.rowStart)
        /\ \A k \in 1..Len(second) :
             second[k] = elems[Len(first) + k] /\ elems[Len(first) + k].x > input.rowStart
    BY Zenon, <2>4 DEF InParts
  <2> DEFINE n == Len(first)
             nn == Len(second)
             from == m + n
             w1 == DoElems(start, first)
             w2 == DoElems(w1, second)
  <2>6. n \in Nat /\ nn \in Nat /\ n + nn = len /\ from \in Nat /\ from + nn = l
        /\ m <= m /\ m + n <= l /\ m <= from /\ from + nn <= l
    <3>1. n \in Nat /\ nn \in Nat /\ n + nn = len
      BY <2>5 DEF IsSeq, len
    <3> HIDE DEF n, nn
    <3> QED
      BY ONLY <1>00, <3>1
  <2>7. RowPart(first, m, i - 1, no)
    <3>1. /\ spm.rowptr[i] <= m /\ m + n <= spm.rowptr[i + 1]
      BY Zenon, <2>6
    <3>2. ASSUME NEW k \in 1..n
          PROVE  /\ first[k] = spm.elems[m + k]
                 /\ input.symmetric => (first[k].x > input.rowStart <=> no)
      <4> HIDE DEF n, nn
      <4>1. k \in 1..len
        BY <2>6
      <4>2. elems[k] = spm.elems[m + k]
        BY <1>1, <4>1 DEF len
      <4>3. first[k] = elems[k] /\ ~(elems[k].x > input.rowStart)
        BY <2>5 DEF n
      <4> QED
        BY <4>2, <4>3 DEF no
    <3>3. m \in Nat
      BY <1>1
    <3> QED
      BY ONLY Writable, i \in 1..GetNrRows(spm), <1>2, <2>5, <3>1, <3>2, <3>3, StretchIsPart
  <2>8. RowPart(second, from, i - 1, yes)
    <3>1. /\ spm.rowptr[i] <= from /\ from + nn <= spm.rowptr[i + 1]
      BY Zenon, <2>6
    <3>2. ASSUME NEW k \in 1..nn
          PROVE  /\ second[k] = spm.elems[from + k]
                 /\ input.symmetric => (second[k].x > input.rowStart <=> yes)
      <4>2. second[k] = elems[n + k] /\ elems[n + k].x > input.rowStart
        BY <2>5
      <4> HIDE DEF n, nn
      <4>1. n + k \in 1..len /\ m + (n + k) = from + k
        BY <1>00, <2>6
      <4>3. elems[n + k] = spm.elems[m + (n + k)]
        BY <1>1, <4>1 DEF len
      <4> HIDE DEF from, n
      <4>4. second[k] = spm.elems[from + k]
        BY <4>1, <4>2, <4>3
      <4> QED
        BY <4>2, <4>4 DEF yes
    <3> HIDE DEF from
    <3> QED
      BY <1>2, <2>5, <2>6, <3>1, <3>2, StretchIsPart
  <2> HIDE DEF from, w1, w2
  <2>9. /\ DoneTo(w1, r, no, from) /\ (first # <<>> => ~w1.newRow)
    BY <1>1, <1>2, <2>7, DoElemsReady DEF from, w1
  <2>10. DoneTo(w1, r, yes, from)
    BY <2>9, ReadyForOwn DEF no, yes
  <2>100. l = from + Len(second) /\ RowPart(second, from, r, yes)
    BY <2>6, <2>8
  <2>11. /\ DoneTo(w2, r, yes, l) /\ (second # <<>> => ~w2.newRow) /\ (second = <<>> => w2 = w1)
    BY ONLY <1>2, <2>100, <2>10, DoElemsReady DEF w2
  <2>12. w = w2
    BY <1>3, <2>1, <2>5 DEF w1, w2
  <2>13. ~w.newRow
    <3>1. CASE second # <<>>
      BY <2>11, <2>12, <3>1
    <3>2. CASE second = <<>>
      <4>1. nn = 0
        BY <3>2
      <4>2. first # <<>>
        <5>1. SUFFICES ASSUME first = <<>> PROVE FALSE
          OBVIOUS
        <5>2. Len(elems) = 0
          BY <2>6, <4>1, <5>1 DEF len
        <5>3. elems = <<>>
          BY <1>1, <5>2 DEF IsSeq
        <5> QED
          BY <5>3
      <4> QED
        BY <2>9, <2>11, <2>12, <3>2, <4>2
    <3> QED
      BY <3>1, <3>2
  <2> QED
    BY <2>11, <2>12, <2>13
<1> QED
  BY <1>5, <1>6

\* A row is written.
LEMMA RowDone ==
  ASSUME Writable, input \in Inputs, NEW i \in 1..GetNrRows(spm), NEW r, r = i - 1,
         NEW o, Boundary(o, r, spm.rowptr[i]),
         NEW elems, elems = Row(spm, i), elems # <<>>,
         NEW w, w = RowWritten(o, elems)
  PROVE  Boundary([w EXCEPT !.newRow = TRUE], i, spm.rowptr[i + 1])
<1> DEFINE m == spm.rowptr[i]
           l == spm.rowptr[i + 1]
<1>1. /\ IsSeq(elems) /\ m + Len(elems) = l /\ m \in Nat /\ l \in Nat
      /\ RowGood(i) /\ GetNrRows(spm) \in Nat
  BY RowIn DEF Writable
<1>2. r \in Numbers(8)
  <2>1. Len(elems) \in Nat /\ Len(elems) # 0
    <3>1. Len(elems) = 0 => elems = <<>>
      BY <1>1 DEF IsSeq
    <3> QED
      BY <1>1, <3>1 DEF IsSeq
  <2>2. m + 1 \in (m + 1)..l
    BY <1>1, <2>1
  <2>3. \A k \in (m + 1)..l : i - 1 \in Numbers(8)
    BY Zenon, <1>1 DEF RowGood
  <2> QED
    BY <2>2, <2>3
<1> DEFINE start == [o EXCEPT !.lastCol = 1]
<1> HIDE DEF m, l
<1>3. /\ DoneTo(start, r, FALSE, m)
      /\ \A s : DoRow(o, s) = DoElems(start, s)
  BY <1>2, RowBegins DEF m, DoRow
<1> HIDE DEF start
<1>4. \E side : DoneTo(w, r, side, l) /\ ~w.newRow
  BY ONLY Writable, input \in Inputs, i \in 1..GetNrRows(spm), r = i - 1, <1>2, <1>3,
     elems = Row(spm, i), elems # <<>>, w = RowWritten(o, elems), RowElemsWritten DEF m, l
<1>5. PICK side : DoneTo(w, r, side, l) /\ ~w.newRow
  BY <1>4
<1>6. i = r + 1
  BY <1>1
<1>7. Boundary([w EXCEPT !.newRow = TRUE], i, l)
  BY <1>5, <1>6, RowEndsMarked
<1> QED
  BY <1>7 DEF l

-----------------------------------------------------------------------------
(***************************************************************************)
(* The matrix that is written holds the entries of its parts.              *)
(***************************************************************************)
\* The rows hold the items, each in the row and column of its first entry.
RowHolds(r, i, items) ==
  /\ IsSeq(r)
  /\ \A k \in 1..Len(r) : /\ r[k].item \in items /\ r[k].x = r[k].item.vals[1].x
                          /\ r[k].item.vals[1].y = i /\ r[k].x \in Int
  /\ \A j, k \in 1..Len(r) : j < k => r[j].x < r[k].x
RowsHold(rows, items) ==
  /\ Len(rows) \in Nat
  /\ \A i \in 1..Len(rows) : RowHolds(rows[i], i, items)
  /\ \A it \in items : \E i \in 1..Len(rows) : \E k \in 1..Len(rows[i]) : rows[i][k].item = it

\* The rows of the matrix m are those.
MadeOf(m, rows) ==
  /\ m.type = HORIZONTAL /\ IsSeq(m.elems)
  /\ Len(rows) \in Nat /\ GetNrRows(m) = Len(rows)
  /\ m.rowptr[1] = 0 /\ m.rowptr[GetNrRows(m) + 1] = Len(m.elems)
  /\ \A i \in 1..Len(rows) :
       /\ Len(rows[i]) \in Nat /\ m.rowptr[i] \in Nat
       /\ m.rowptr[i + 1] = m.rowptr[i] + Len(rows[i]) /\ m.rowptr[i + 1] <= Len(m.elems)
       /\ \A k \in 1..Len(rows[i]) : m.elems[m.rowptr[i] + k] = rows[i][k]
  /\ \A h \in 1..Len(m.elems) : \E i \in 1..Len(rows) : \E k \in 1..Len(rows[i]) :
       h = m.rowptr[i] + k

\* The rows of a part.
RowsOfPart(m) == [i \in 1..GetNrRows(m) |-> Row(m, i)]

\* The row of the points s holds the items that lie in it.
LEMMA RowOfPoints ==
  ASSUME NEW s, Rising(s), NEW i \in Int, NEW r, RowIs(r, s, i), NEW items,
         \A k \in 1..Len(s) : /\ s[k].item \in items
                              /\ s[k].y = s[k].item.vals[1].y /\ s[k].x = s[k].item.vals[1].x
  PROVE  RowHolds(r, i, items)
<1> DEFINE c == Count(s, i)
           n == Len(s)
           nr == Len(r)
<1>1. /\ c \in Nat /\ n \in Nat /\ nr \in Nat
      /\ \A j \in 1..nr :
           /\ c + j \in 1..n /\ s[c + j].y = i
           /\ r[j] = [x |-> s[c + j].x, item |-> s[c + j].item]
      /\ \A k \in 1..n : s[k].x \in Int /\ s[k].y \in Int
      /\ \A j, k \in 1..n : j < k => CooLess(s[j], s[k])
  BY DEF RowIs, Rising, IsSeq
<1> HIDE DEF c, n, nr
<1>2. ASSUME NEW j \in 1..nr PROVE r[j].x = s[c + j].x /\ r[j].item = s[c + j].item
  <2>1. r[j] = [x |-> s[c + j].x, item |-> s[c + j].item]
    BY Zenon, <1>1
  <2> QED
    BY ONLY <2>1
<1>3. ASSUME NEW k \in 1..nr
      PROVE  /\ r[k].item \in items /\ r[k].x = r[k].item.vals[1].x
             /\ r[k].item.vals[1].y = i /\ r[k].x \in Int
  <2> DEFINE h == c + k
  <2>1. h \in 1..n /\ s[h].y = i /\ r[k].x = s[h].x /\ r[k].item = s[h].item
    BY <1>1, <1>2
  <2> HIDE DEF h
  <2>2. s[h].item \in items /\ s[h].y = s[h].item.vals[1].y /\ s[h].x = s[h].item.vals[1].x
        /\ s[h].x \in Int
    BY <1>1, <2>1 DEF n
  <2> QED
    BY Zenon, <2>1, <2>2
<1>4. ASSUME NEW j \in 1..nr, NEW k \in 1..nr, j < k
      PROVE  r[j].x < r[k].x
  <2> DEFINE g == c + j
             h == c + k
  <2>0. c \in Nat /\ nr \in Nat
    BY <1>1
  <2>01. g < h
    BY ONLY <2>0, <1>4, j \in 1..nr, k \in 1..nr
  <2>1. g \in 1..n /\ h \in 1..n /\ g < h /\ s[g].y = i /\ s[h].y = i
        /\ r[j].x = s[g].x /\ r[k].x = s[h].x
    BY Zenon, <1>1, <1>2, <2>01
  <2> HIDE DEF g, h
  <2>2. CooLess(s[g], s[h])
    BY <1>1, <2>1
  <2>3. s[g].x < s[h].x
    BY <2>1, <2>2 DEF CooLess
  <2> QED
    BY Zenon, <2>1, <2>3
<1> QED
  BY Zenon, <1>3, <1>4 DEF RowHolds, RowIs, nr

\* The row pointers rise from zero to the number of points, and each point lies between
\* two of them.
LEMMA CountsRise ==
  ASSUME NEW s, Rising(s), NEW n \in Pos, \A k \in 1..Len(s) : s[k].y \in 1..(n - 1)
  PROVE  /\ Count(s, 1) = 0 /\ Count(s, n) = Len(s)
         /\ \A i \in 1..(n - 1) :
              /\ Count(s, i) \in Nat /\ Count(s, i + 1) \in Nat
              /\ Count(s, i) <= Count(s, i + 1) /\ Count(s, i + 1) <= Len(s)
         /\ \A h \in 1..Len(s) : \E i \in 1..(n - 1) : Count(s, i) < h /\ h <= Count(s, i + 1)
<1> DEFINE c(i) == Count(s, i)
           y(k) == s[k].y
           len == Len(s)
<1>1. /\ \A i \in Int : /\ c(i) \in 0..len
                        /\ \A k \in 1..len : k <= c(i) <=> y(k) < i
      /\ len \in Nat /\ n \in Nat /\ n >= 1 /\ \A k \in 1..len : y(k) \in 1..(n - 1)
  BY CountIs DEF Rising, Pos
<1> HIDE DEF c, y, len
<1>2. c(1) = 0
  <2> DEFINE one == 1
             a == c(one)
  <2>0. one \in Int /\ len \in Nat
    BY <1>1
  <2> HIDE DEF one
  <2>1. a \in 0..len /\ \A k \in 1..len : k <= a <=> y(k) < one
    BY Zenon, <1>1, <2>0
  <2> HIDE DEF a
  <2>2. \A k \in 1..len : ~(y(k) < one)
    BY <1>1 DEF one
  <2>3. \A k \in 1..len : ~(k <= a)
    BY Zenon, <2>1, <2>2
  <2>4. a \in 0..len
    BY <2>1
  <2>5. a \in 1..len => a <= a
    BY <2>0
  <2>6. a \notin 1..len
    BY Zenon, <2>3, <2>5
  <2>7. a = 0
    BY ONLY <2>0, <2>4, <2>6
  <2> QED
    BY <2>7 DEF a, one
<1>3. c(n) = len
  <2> DEFINE a == c(n)
  <2>1. a \in 0..len /\ \A k \in 1..len : k <= a
    <3>1. c(n) \in 0..len /\ \A k \in 1..len : k <= c(n) <=> y(k) < n
      BY <1>1
    <3>2. \A k \in 1..len : y(k) < n
      BY <1>1
    <3> QED
      BY Zenon, <3>1, <3>2
  <2> HIDE DEF a
  <2>0. len \in Nat
    BY <1>1
  <2>2. len # 0 => len \in 1..len
    BY ONLY <2>0
  <2>4. a \in 0..len /\ (len # 0 => len <= a)
    BY Zenon, <2>1, <2>2
  <2>3. a = len
    BY ONLY <2>0, <2>4
  <2> QED
    BY <2>3 DEF a
<1>4. ASSUME NEW i \in 1..(n - 1)
      PROVE  c(i) \in Nat /\ c(i + 1) \in Nat /\ c(i) <= c(i + 1) /\ c(i + 1) <= len
  <2> DEFINE l == i + 1
  <2>1. i \in Int /\ l \in Int /\ i < l
    BY <1>1
  <2> HIDE DEF l
  <2>2. /\ c(i) \in 0..len /\ c(l) \in 0..len
        /\ \A k \in 1..len : k <= c(i) <=> y(k) < i
        /\ \A k \in 1..len : k <= c(l) <=> y(k) < l
    BY <1>1, <2>1
  <2>3. \A k \in 1..len : k <= c(i) => k <= c(l)
    BY <1>1, <2>1, <2>2
  <2>4. c(i) <= c(l)
    BY <1>1, <2>2, <2>3
  <2> QED
    BY <1>1, <2>2, <2>4 DEF l
<1>5. ASSUME NEW h \in 1..len
      PROVE  \E i \in 1..(n - 1) : c(i) < h /\ h <= c(i + 1)
  <2> DEFINE i == y(h)
             l == i + 1
  <2>1. i \in 1..(n - 1) /\ i \in Int /\ l \in Int /\ i < l
    BY <1>1
  <2> HIDE DEF l
  <2>2. c(i) \in 0..len /\ c(l) \in 0..len /\ (h <= c(i) <=> y(h) < i) /\ (h <= c(l) <=> y(h) < l)
    BY <1>1, <2>1
  <2>3. c(i) < h /\ h <= c(l)
    BY <1>1, <2>1, <2>2
  <2> QED
    BY <2>1, <2>3 DEF l
<1> QED
  BY Zenon, <1>2, <1>3, <1>4, <1>5 DEF c, len

\* A part is made of its rows, and they hold its items.
LEMMA PartRows ==
  ASSUME NEW m, NEW entries, NEW items, m.type = HORIZONTAL,
         ItemsHold(items, entries), Keeps(m, items, FirstVals(items))
  PROVE  MadeOf(m, RowsOfPart(m)) /\ RowsHold(RowsOfPart(m), items)
<1> DEFINE at == FirstVals(items)
           s == InRows(HORIZONTAL, items, at, m.nrRows, m.nrCols)
           rows == RowsOfPart(m)
<1>1. HORIZONTAL \in IterOrders /\ Lie(items, at, m.nrRows, m.nrCols)
  BY DEF Keeps
<1>2. PICK n : Holds(m, s, n)
  BY DEF Keeps
<1>3. /\ Stream(s) /\ \A k \in 1..Len(s) : s[k].item \in items
      /\ \A it \in items : \E k \in 1..Len(s) : s[k].item = it
      /\ \A k \in 1..Len(s) : s[k].y = at[s[k].item].y /\ s[k].x = at[s[k].item].x
  <2> HIDE DEF at
  <2> QED
    BY <1>1, InRowsIs
<1> HIDE DEF s
<1>4. \A k \in 1..Len(s) : /\ s[k].item \in items
                           /\ s[k].y = s[k].item.vals[1].y /\ s[k].x = s[k].item.vals[1].x
  <2>1. \A it \in items : at[it] = it.vals[1]
    BY DEF FirstVals
  <2> HIDE DEF at
  <2> QED
    BY Zenon, <1>3, <2>1
<1>5. /\ GetNrRows(m) = n - 1 /\ n \in Pos
      /\ \A i \in 1..(n - 1) : RowIs(Row(m, i), s, i)
  BY <1>2, <1>3, RowOfHeld
<1>6. Rising(s)
  BY <1>3 DEF Stream
<1> DEFINE N == n - 1
<1>7. N \in Nat /\ GetNrRows(m) = N /\ n = N + 1 /\ n \in Pos /\ N + 1 = n
  BY <1>5 DEF Pos
<1> HIDE DEF N, at
<1>8. Len(rows) = N /\ \A i \in 1..N : rows[i] = Row(m, i) /\ RowIs(rows[i], s, i) /\ i \in Int
  <2>1. rows = [i \in 1..N |-> Row(m, i)]
    BY Zenon, <1>7 DEF RowsOfPart
  <2> HIDE DEF rows
  <2>2. Len(rows) = N /\ \A i \in 1..N : rows[i] = Row(m, i)
    BY <1>7, <2>1
  <2>3. \A i \in 1..N : RowIs(Row(m, i), s, i)
    BY <1>5 DEF N
  <2>4. \A i \in 1..N : i \in Int
    BY <1>7
  <2> QED
    BY Zenon, <2>2, <2>3, <2>4
<1> HIDE DEF rows
<1>9. /\ Len(s) \in Nat /\ m.elems = [k \in 1..Len(s) |-> [x |-> s[k].x, item |-> s[k].item]]
      /\ m.rowptr = [i \in 1..n |-> Count(s, i)]
      /\ \A k \in 1..Len(s) : s[k].y \in 1..(n - 1)
  BY <1>2, <1>6 DEF Holds, Pointers, Rising
<1>10. RowsHold(rows, items)
  <2>1. \A i \in 1..Len(rows) : RowHolds(rows[i], i, items)
    BY <1>4, <1>6, <1>8, RowOfPoints
  <2>2. ASSUME NEW it \in items
        PROVE  \E i \in 1..Len(rows) : \E k \in 1..Len(rows[i]) : rows[i][k].item = it
    <3>1. PICK h \in 1..Len(s) : s[h].item = it
      BY <1>3
    <3> DEFINE i == s[h].y
               c == Count(s, i)
               k == h - c
    <3>2. i \in 1..N
      BY <1>9, <3>1 DEF N
    <3> HIDE DEF i
    <3>3. RowIs(rows[i], s, i)
      BY <1>8, <3>2
    <3>4. k \in 1..Len(rows[i]) /\ rows[i][k] = [x |-> s[c + k].x, item |-> s[c + k].item]
          /\ c \in Nat
      <4> HIDE DEF c, k
      <4>1. k \in 1..Len(rows[i])
        BY Zenon, <3>3 DEF RowIs, i, c, k
      <4>2. c \in 0..Len(s)
        BY <3>3 DEF RowIs, c
      <4>3. rows[i][k] = [x |-> s[c + k].x, item |-> s[c + k].item]
        BY Zenon, <3>3, <4>1 DEF RowIs, c
      <4> QED
        BY <4>1, <4>2, <4>3
    <3> HIDE DEF c
    <3>5. c + k = h
      BY <3>4
    <3> HIDE DEF k
    <3>6. rows[i][k].item = it
      BY <3>1, <3>4, <3>5
    <3> QED
      BY <1>8, <3>2, <3>4, <3>6
  <2> QED
    BY Zenon, <1>7, <1>8, <2>1, <2>2 DEF RowsHold
<1>11. MadeOf(m, rows)
  <2> DEFINE ptr == m.rowptr
             whole == m.elems
  <2>1. IsSeq(whole) /\ Len(whole) = Len(s)
    <3>1. whole = [k \in 1..Len(s) |-> whole[k]]
      BY <1>9
    <3> HIDE DEF whole
    <3> QED
      BY <1>9, <3>1, FunctionIs
  <2>2. \A i \in 1..n : ptr[i] = Count(s, i)
    BY <1>9
  <2> HIDE DEF ptr, whole
  <2>3. /\ Count(s, 1) = 0 /\ Count(s, n) = Len(s)
        /\ \A i \in 1..(n - 1) :
              /\ Count(s, i) \in Nat /\ Count(s, i + 1) \in Nat
              /\ Count(s, i) <= Count(s, i + 1) /\ Count(s, i + 1) <= Len(s)
        /\ \A h \in 1..Len(s) : \E i \in 1..(n - 1) : Count(s, i) < h /\ h <= Count(s, i + 1)
    BY <1>6, <1>7, <1>9, CountsRise
  <2>4. ptr[1] = 0 /\ ptr[N + 1] = Len(whole)
    <3>1. 1 \in 1..n /\ n \in 1..n
      BY <1>7
    <3> QED
      BY <1>7, <2>1, <2>2, <2>3, <3>1
  <2>5. \A i \in 1..N : i \in 1..n /\ i + 1 \in 1..n
    BY <1>7
  <2>6. ASSUME NEW i \in 1..N
        PROVE  /\ Len(rows[i]) \in Nat /\ ptr[i] \in Nat
               /\ ptr[i + 1] = ptr[i] + Len(rows[i]) /\ ptr[i + 1] <= Len(whole)
               /\ \A k \in 1..Len(rows[i]) : whole[ptr[i] + k] = rows[i][k]
    <3> DEFINE p == ptr[i]
               q == ptr[i + 1]
               from == p + 1
               r == rows[i]
    <3>1. p \in Nat /\ q \in Nat /\ p <= q /\ q <= Len(whole)
      <4>1. p = Count(s, i) /\ q = Count(s, i + 1)
        BY <2>2, <2>5
      <4> HIDE DEF p, q
      <4>2. i \in 1..(n - 1)
        BY DEF N
      <4> QED
        BY <2>1, <2>3, <4>1, <4>2
    <3>2. r = SubSeq(whole, from, q)
      BY <1>8 DEF Row, whole, ptr
    <3> HIDE DEF p, q, r, from
    <3>3. Len(whole) \in Nat
      BY <2>1 DEF IsSeq
    <3>4. from \in 1..(Len(whole) + 1) /\ q \in (from - 1)..Len(whole) /\ q - from + 1 = q - p
      BY <3>1, <3>3 DEF from
    <3>5. /\ IsSeq(r) /\ Len(r) = q - from + 1
          /\ \A k \in 1..(q - from + 1) : r[k] = whole[from + k - 1]
      BY <2>1, <3>2, <3>4, StretchIs
    <3>6. Len(r) \in Nat /\ q = p + Len(r)
      BY <3>1, <3>4, <3>5
    <3>7. ASSUME NEW k \in 1..Len(r) PROVE whole[p + k] = r[k]
      <4>1. r[k] = whole[from + k - 1]
        BY <3>5
      <4>2. from + k - 1 = p + k
        BY <3>1, <3>6 DEF from
      <4> QED
        BY <4>1, <4>2
    <3> QED
      BY Zenon, <3>1, <3>6, <3>7 DEF p, q, r
  <2>7. ASSUME NEW h \in 1..Len(whole)
        PROVE  \E i \in 1..N : \E k \in 1..Len(rows[i]) : h = ptr[i] + k
    <3>1. PICK i \in 1..N : Count(s, i) < h /\ h <= Count(s, i + 1)
      BY <2>1, <2>3 DEF N
    <3>2. ptr[i] < h /\ h <= ptr[i + 1]
      BY <2>2, <2>5, <3>1
    <3> DEFINE p == ptr[i]
               q == ptr[i + 1]
               k == h - p
               l == Len(rows[i])
    <3>3. p \in Nat /\ l \in Nat /\ q = p + l /\ p < h /\ h <= q /\ h \in Int
      BY <2>6, <3>2
    <3> HIDE DEF p, q, l
    <3>4. k \in 1..l /\ h = p + k
      BY <3>3
    <3> QED
      BY <3>4 DEF p, l
  <2>8. Len(rows) = N
    BY <1>8
  <2> HIDE DEF rows
  <2>9. /\ \A i \in 1..Len(rows) :
            /\ Len(rows[i]) \in Nat /\ ptr[i] \in Nat
            /\ ptr[i + 1] = ptr[i] + Len(rows[i]) /\ ptr[i + 1] <= Len(whole)
            /\ \A k \in 1..Len(rows[i]) : whole[ptr[i] + k] = rows[i][k]
        /\ \A h \in 1..Len(whole) : \E i \in 1..Len(rows) : \E k \in 1..Len(rows[i]) :
             h = ptr[i] + k
    BY Zenon, <2>6, <2>7, <2>8
  <2>10. ptr[1] = 0 /\ ptr[GetNrRows(m) + 1] = Len(whole) /\ GetNrRows(m) = Len(rows)
         /\ Len(rows) \in Nat
    BY Zenon, <1>7, <2>4, <2>8
  <2> QED
    BY Zenon, <2>1, <2>9, <2>10 DEF MadeOf, ptr, whole
<1> QED
  BY <1>10, <1>11 DEF rows

\* The items of such a matrix are in one element each.
LEMMA MadeHolds ==
  ASSUME NEW m, NEW rows, MadeOf(m, rows), NEW items, RowsHold(rows, items),
         NEW entries, ItemsHold(items, entries)
  PROVE  NewHold(m.elems, entries) /\ \A h \in 1..Len(m.elems) : m.elems[h].item \in items
<1> DEFINE ptr == m.rowptr
           whole == m.elems
           n == Len(rows)
           len == Len(whole)
           it(h) == whole[h].item
<1>1. /\ n \in Nat
      /\ \A i \in 1..n :
           /\ Len(rows[i]) \in Nat /\ ptr[i] \in Nat
           /\ ptr[i + 1] = ptr[i] + Len(rows[i]) /\ ptr[i + 1] <= len
           /\ \A k \in 1..Len(rows[i]) : whole[ptr[i] + k] = rows[i][k]
      /\ \A h \in 1..len : \E i \in 1..n : \E k \in 1..Len(rows[i]) : h = ptr[i] + k
      /\ len \in Nat
  BY DEF MadeOf, IsSeq
<1>2. /\ \A i \in 1..n : RowHolds(rows[i], i, items)
      /\ \A a \in items : \E i \in 1..n : \E k \in 1..Len(rows[i]) : rows[i][k].item = a
  BY Zenon DEF RowsHold
<1>3. \A i \in 1..n : \A k \in 1..Len(rows[i]) :
        /\ rows[i][k].item \in items /\ rows[i][k].x = rows[i][k].item.vals[1].x
        /\ rows[i][k].item.vals[1].y = i
  BY Zenon, <1>2 DEF RowHolds
<1>4. \A i \in 1..n : \A j, k \in 1..Len(rows[i]) :
        j < k => rows[i][j].x < rows[i][k].x /\ rows[i][j].x \in Int /\ rows[i][k].x \in Int
  BY Zenon, <1>2 DEF RowHolds
<1> HIDE DEF ptr, whole, n, len
<1>5. ASSUME NEW h \in 1..len
      PROVE  \E i \in 1..n : \E k \in 1..Len(rows[i]) : h = ptr[i] + k /\ whole[h] = rows[i][k]
  <2>1. PICK i \in 1..n : \E k \in 1..Len(rows[i]) : h = ptr[i] + k
    BY Zenon, <1>1
  <2>2. PICK k \in 1..Len(rows[i]) : h = ptr[i] + k
    BY Zenon, <2>1
  <2>3. whole[ptr[i] + k] = rows[i][k]
    BY Zenon, <1>1
  <2>4. whole[h] = rows[i][k]
    BY Zenon, <2>2, <2>3
  <2> QED
    BY Zenon, <2>2, <2>4
<1>6. \A h \in 1..len : it(h) \in items
  BY Zenon, <1>3, <1>5
<1>7. ASSUME NEW a \in items PROVE \E h \in 1..len : it(h) = a
  <2>1. PICK i \in 1..n : \E k \in 1..Len(rows[i]) : rows[i][k].item = a
    BY Zenon, <1>2
  <2>2. PICK k \in 1..Len(rows[i]) : rows[i][k].item = a
    BY Zenon, <2>1
  <2> DEFINE p == ptr[i]
             q == ptr[i + 1]
             l == Len(rows[i])
             h == p + k
  <2>3. p \in Nat /\ l \in Nat /\ q = p + l /\ q <= len /\ k \in 1..l /\ whole[h] = rows[i][k]
    BY Zenon, <1>1
  <2> HIDE DEF p, q, l
  <2>4. h \in 1..len
    BY ONLY <2>3, <1>1
  <2> QED
    BY Zenon, <2>2, <2>3, <2>4
<1>8. ASSUME NEW g \in 1..len, NEW h \in 1..len, it(g) = it(h) PROVE g = h
  <2>1. PICK i \in 1..n : \E k \in 1..Len(rows[i]) : g = ptr[i] + k /\ whole[g] = rows[i][k]
    BY Zenon, <1>5
  <2>2. PICK j \in 1..Len(rows[i]) : g = ptr[i] + j /\ whole[g] = rows[i][j]
    BY Zenon, <2>1
  <2>3. PICK i2 \in 1..n : \E k \in 1..Len(rows[i2]) : h = ptr[i2] + k /\ whole[h] = rows[i2][k]
    BY Zenon, <1>5
  <2>4. PICK k \in 1..Len(rows[i2]) : h = ptr[i2] + k /\ whole[h] = rows[i2][k]
    BY Zenon, <2>3
  <2>50. rows[i][j].item = rows[i2][k].item
    BY Zenon, <1>8, <2>2, <2>4
  <2>51. rows[i][j].item.vals[1].y = i /\ rows[i2][k].item.vals[1].y = i2
    BY Zenon, <1>3
  <2>5. i = i2
    BY Zenon, <2>50, <2>51
  <2>6. k \in 1..Len(rows[i]) /\ h = ptr[i] + k /\ whole[h] = rows[i][k]
    BY Zenon, <2>4, <2>5
  <2>70. rows[i][j].item = rows[i][k].item
    BY Zenon, <2>5, <2>50
  <2>71. /\ rows[i][j].x = rows[i][j].item.vals[1].x /\ rows[i][k].x = rows[i][k].item.vals[1].x
    BY Zenon, <1>3, <2>6
  <2>7. rows[i][j].x = rows[i][k].x
    BY Zenon, <2>70, <2>71
  <2> DEFINE a == rows[i][j].x
             b == rows[i][k].x
             l == Len(rows[i])
  <2>8. (j < k => a < b /\ a \in Int /\ b \in Int) /\ (k < j => b < a /\ a \in Int /\ b \in Int)
        /\ a = b /\ l \in Nat /\ j \in 1..l /\ k \in 1..l
    BY Zenon, <1>1, <1>4, <2>6, <2>7
  <2> HIDE DEF a, b, l
  <2>9. j = k
    BY ONLY <2>8
  <2> QED
    BY Zenon, <2>2, <2>6, <2>9
<1>9. {it(h) : h \in 1..len} = items
  <2> HIDE DEF it
  <2> QED
    BY <1>6, <1>7
<1> QED
  BY Zenon, <1>6, <1>8, <1>9 DEF NewHold, it, whole, len

\* The place of an entry can be written.
LEMMA EntryFits ==
  ASSUME input \in Inputs, NEW e \in input.entries
  PROVE  /\ e.y \in Pos /\ e.x \in Pos /\ e.y - 1 \in Numbers(8) /\ e.x - 1 \in Numbers(4)
         /\ e = Point(e.y, e.x)
<1> DEFINE four == Power(ByteSize, 4)
           eight == Power(ByteSize, 8)
           c == input.cols
<1>1. c \in 0..four /\ input.entries \subseteq [y : 1..eight, x : 1..c]
  BY InputsAssumption
<1>2. four \in Nat /\ eight \in Nat
  BY PowersAre, ByteAssumption DEF BytePowers
<1> HIDE DEF four, eight, c
<1>3. e \in [y : 1..eight, x : 1..c]
  BY <1>1
<1>4. e.y \in 1..eight /\ e.x \in 1..c /\ e = [y |-> e.y, x |-> e.x]
  BY <1>3
<1>5. e.y \in Pos /\ e.x \in Pos /\ e.y - 1 \in 0..(eight - 1) /\ e.x - 1 \in 0..(four - 1)
  BY <1>1, <1>2, <1>4 DEF Pos
<1> QED
  BY <1>4, <1>5 DEF Numbers, Point, four, eight

\* No item holds entries on both sides of the thread's first column.
OneSided(items) ==
  input.symmetric =>
    \A it \in items : \A j \in 1..it.pattern.size :
      it.vals[j].x > input.rowStart <=> it.vals[1].x > input.rowStart

\* An element that holds such an item can be written in the row of its first entry.
LEMMA ItemFits ==
  ASSUME input \in Inputs, NEW items, ItemsHold(items, input.entries), OneSided(items),
         NEW e, e.item \in items, e.x = e.item.vals[1].x,
         NEW i, e.item.vals[1].y = i, NEW r, r = i - 1
  PROVE  r \in Numbers(8) /\ ElemOk(e, r, e.x > input.rowStart) /\ IsSeq(e.item.vals)
<1> DEFINE it == e.item
           first == it.vals[1]
           p == it.pattern
           n == p.size
           vals == it.vals
<1>1. /\ ItemIs(it) /\ n \in Pos /\ PatternIs(p) /\ vals = Reached(p, first)
      /\ \A j \in 1..n : vals[j] \in input.entries
  BY DEF ItemsHold, ItemIs
<1>2. e.x = first.x /\ first.y = i /\ first = vals[1]
  OBVIOUS
<1>3. input.symmetric => \A j \in 1..n : vals[j].x > input.rowStart <=> first.x > input.rowStart
  BY Zenon DEF OneSided
<1> HIDE DEF it, first, p, n, vals
<1>4. first \in input.entries
  <2>1. 1 \in 1..n
    BY <1>1 DEF Pos
  <2> QED
    BY Zenon, <1>1, <1>2, <2>1
<1>5. /\ first.y \in Pos /\ first.x \in Pos /\ first.y - 1 \in Numbers(8)
      /\ first.x - 1 \in Numbers(4)
  BY <1>4, EntryFits
<1>6. r \in Numbers(8) /\ r + 1 = first.y
  BY <1>2, <1>5 DEF Pos
<1>7. vals = Reached(p, Point(r + 1, e.x))
  <2> DEFINE b == Point(r + 1, e.x)
  <2>1. b.y = first.y /\ b.x = first.x
    BY <1>2, <1>6 DEF Point
  <2> HIDE DEF b
  <2>2. Reached(p, first) = Reached(p, b)
    BY <2>1, ReachedFrom
  <2> QED
    BY Zenon, <1>1, <2>2 DEF b
<1>8. IsSeq(vals)
  <2>1. vals = [j \in 1..n |-> vals[j]]
    <3>1. Reached(p, first) = [j \in 1..n |-> Reached(p, first)[j]]
      <4> DEFINE R(j) == IF p = NoPattern THEN Point(first.y, first.x)
                         ELSE Along(p.order, Point(first.y, first.x), (j - 1) * p.delta)
      <4>1. Reached(p, first) = [j \in 1..n |-> R(j)]
        BY DEF Reached, n
      <4> HIDE DEF R
      <4> QED
        BY <4>1
    <3> QED
      BY Zenon, <1>1, <3>1
  <2> QED
    BY <1>1, <2>1, FunctionIs DEF Pos
<1>9. ElemOk(e, r, e.x > input.rowStart)
  <2>1. e.x \in Pos /\ e.x - 1 \in Numbers(4)
    BY <1>2, <1>5
  <2>2. input.symmetric =>
          \A j \in 1..n : vals[j].x > input.rowStart <=> e.x > input.rowStart
    BY Zenon, <1>2, <1>3
  <2> QED
    BY Zenon, <1>1, <1>7, <2>1, <2>2 DEF ElemOk, it, p, n, vals
<1> QED
  BY <1>6, <1>8, <1>9 DEF vals, it

\* So the matrix can be written.
LEMMA MadeWritable ==
  ASSUME input \in Inputs, NEW rows, MadeOf(spm, rows), NEW items, RowsHold(rows, items),
         ItemsHold(items, input.entries), OneSided(items)
  PROVE  Writable
<1> DEFINE ptr == spm.rowptr
           whole == spm.elems
           n == Len(rows)
<1>1. /\ n \in Nat /\ GetNrRows(spm) = n /\ spm.type = HORIZONTAL /\ IsSeq(whole)
      /\ ptr[1] = 0 /\ ptr[n + 1] = Len(whole)
      /\ \A i \in 1..n :
           /\ Len(rows[i]) \in Nat /\ ptr[i] \in Nat
           /\ ptr[i + 1] = ptr[i] + Len(rows[i]) /\ ptr[i + 1] <= Len(whole)
           /\ \A k \in 1..Len(rows[i]) : whole[ptr[i] + k] = rows[i][k]
  BY Zenon DEF MadeOf
<1>2. \A h \in 1..Len(whole) : whole[h].item \in items
  BY MadeHolds
<1>3. /\ \A i \in 1..n : \A k \in 1..Len(rows[i]) :
           /\ rows[i][k].item \in items /\ rows[i][k].x = rows[i][k].item.vals[1].x
           /\ rows[i][k].item.vals[1].y = i
      /\ \A i \in 1..n : \A j, k \in 1..Len(rows[i]) : j < k => rows[i][j].x < rows[i][k].x
  BY Zenon DEF RowsHold, RowHolds
<1> HIDE DEF ptr, whole, n
<1>4. ASSUME NEW h \in 1..Len(whole) PROVE IsSeq(whole[h].item.vals)
  <2> DEFINE it == whole[h].item
             first == it.vals[1]
             e == [x |-> first.x, item |-> it]
             i == first.y
             r == i - 1
  <2>1. it \in items
    BY <1>2
  <2>2. e.item = it /\ e.x = first.x
    OBVIOUS
  <2> HIDE DEF it, e
  <2>3. e.item \in items /\ e.x = e.item.vals[1].x /\ e.item.vals[1].y = i
    BY <2>1, <2>2
  <2> HIDE DEF first, i, r
  <2>4. IsSeq(e.item.vals)
    BY <2>3, ItemFits DEF r
  <2> QED
    BY <2>2, <2>4 DEF it
<1>5. ASSUME NEW i \in 1..n
      PROVE  /\ ptr[i] \in Nat /\ ptr[i + 1] \in Nat
             /\ ptr[i] <= ptr[i + 1] /\ ptr[i + 1] <= Len(whole) /\ RowGood(i)
  <2> DEFINE p == ptr[i]
             q == ptr[i + 1]
             l == Len(rows[i])
             r == i - 1
  <2>1. /\ p \in Nat /\ l \in Nat /\ q = p + l /\ q <= Len(whole)
        /\ \A k \in 1..l : whole[p + k] = rows[i][k]
    BY Zenon, <1>1
  <2> HIDE DEF p, q, l
  <2>2. q \in Nat /\ p <= q
    BY <2>1
  <2>3. ASSUME NEW k \in (p + 1)..q
        PROVE  /\ r \in Numbers(8)
               /\ ElemOk(whole[k], r, whole[k].x > input.rowStart)
               /\ \A j \in (p + 1)..(k - 1) : whole[j].x < whole[k].x
    <3> DEFINE kk == k - p
    <3>1. kk \in 1..l /\ p + kk = k
      BY ONLY <2>1, k \in (p + 1)..q
    <3> HIDE DEF kk
    <3>2. whole[k] = rows[i][kk]
      BY Zenon, <2>1, <3>1
    <3> DEFINE e == rows[i][kk]
    <3>3. e.item \in items /\ e.x = e.item.vals[1].x /\ e.item.vals[1].y = i
      BY Zenon, <1>3, <3>1 DEF l
    <3> HIDE DEF e
    <3>4. r \in Numbers(8) /\ ElemOk(e, r, e.x > input.rowStart)
      BY <3>3, ItemFits
    <3>5. ASSUME NEW j \in (p + 1)..(k - 1) PROVE whole[j].x < whole[k].x
      <4> DEFINE jj == j - p
      <4>1. jj \in 1..l /\ p + jj = j /\ jj < kk
        BY ONLY <2>1, <3>1, k \in (p + 1)..q, j \in (p + 1)..(k - 1)
      <4> HIDE DEF jj
      <4>2. whole[j] = rows[i][jj]
        BY Zenon, <2>1, <4>1
      <4>3. rows[i][jj].x < rows[i][kk].x
        BY Zenon, <1>3, <3>1, <4>1 DEF l
      <4> QED
        BY Zenon, <3>2, <4>2, <4>3
    <3> QED
      BY Zenon, <3>2, <3>4, <3>5 DEF e
  <2> HIDE DEF r
  <2>4. RowGood(i)
    BY Zenon, <2>3 DEF RowGood, p, q, r, ptr, whole
  <2> QED
    BY Zenon, <2>1, <2>2, <2>4 DEF p, q
<1> QED
  BY Zenon, <1>1, <1>4, <1>5 DEF Writable, ptr, whole

-----------------------------------------------------------------------------
\* A matrix built from rows is made of them.
LEMMA BuiltMade ==
  ASSUME NEW rows, Len(rows) \in Nat, \A i \in 1..Len(rows) : Len(rows[i]) \in Nat,
         NEW m, Has(m, MatrixFields), m.type = HORIZONTAL, NEW new, new = Rebuilt(m, rows)
  PROVE  MadeOf(new, rows) /\ new.nrRows = m.nrRows
<1> DEFINE end == RowEnds(rows)
           n == Len(rows)
           whole == new.elems
           ptr == new.rowptr
           len == Len(whole)
<1>1. /\ EndsOfRows(end, rows) /\ \E y : BuiltFrom(new, rows, end, y)
      /\ \A f \in MatrixFields \ {"elems", "rowptr"} : new[f] = m[f]
  BY RebuiltIs
<1>2. PICK y : BuiltFrom(new, rows, end, y)
  BY <1>1
<1>3. new.type = HORIZONTAL /\ new.nrRows = m.nrRows
  BY <1>1 DEF MatrixFields
<1> HIDE DEF end
<1>4. /\ end[0] = 0 /\ \A i \in 0..n : end[i] \in Nat
      /\ \A i \in 1..n : end[i] = end[i - 1] + Len(rows[i])
      /\ \A i, j \in 0..n : i <= j => end[i] <= end[j]
      /\ \A k \in 1..end[n] : \E i \in 1..n : end[i - 1] < k /\ k <= end[i]
      /\ \A k \in 1..end[n] : \A i, j \in 1..n :
           end[i - 1] < k /\ k <= end[i] /\ end[j - 1] < k /\ k <= end[j] => i = j
  BY <1>1 DEF EndsOfRows
<1>5. /\ IsSeq(whole) /\ len = end[n] /\ ptr = [i \in 1..(n + 1) |-> end[i - 1]]
      /\ \A k \in 1..end[n] :
           /\ y[k] \in 1..n /\ end[y[k] - 1] < k /\ k <= end[y[k]]
           /\ whole[k] = rows[y[k]][k - end[y[k] - 1]]
  BY <1>2 DEF BuiltFrom
<1>6. n \in Nat /\ \A i \in 1..n : Len(rows[i]) \in Nat
  OBVIOUS
<1>7. GetNrRows(new) = n
  BY <1>5, <1>6 DEF GetNrRows
<1> HIDE DEF n, whole, ptr, len
<1>8. \A i \in 1..n : i \in 0..n /\ i - 1 \in 0..n /\ i - 1 <= i /\ i <= n /\ n \in 0..n
  BY <1>6
<1>9. \A i \in 1..n : ptr[i] = end[i - 1] /\ ptr[i + 1] = end[i]
  <2> TAKE i \in 1..n
  <2>1. i \in 1..(n + 1) /\ i + 1 \in 1..(n + 1) /\ i + 1 - 1 = i
    BY <1>6
  <2> QED
    BY <1>5, <2>1
<1>10. ptr[1] = 0 /\ ptr[n + 1] = len
  <2> DEFINE a == n + 1
             b == a - 1
             c == 1 - 1
  <2>1. 1 \in 1..a /\ a \in 1..a /\ c = 0 /\ b = n
    BY <1>6
  <2> HIDE DEF a
  <2>2. ptr[1] = end[c] /\ ptr[a] = end[b]
    BY Zenon, <1>5, <2>1 DEF a
  <2> HIDE DEF b, c
  <2> QED
    BY Zenon, <1>4, <1>5, <2>1, <2>2 DEF a
<1>11. ASSUME NEW i \in 1..n
       PROVE  /\ ptr[i] \in Nat /\ ptr[i + 1] = ptr[i] + Len(rows[i]) /\ ptr[i + 1] <= len
              /\ \A k \in 1..Len(rows[i]) : whole[ptr[i] + k] = rows[i][k] /\ ptr[i] + k \in 1..len
  <2> DEFINE b == i - 1
             p == end[b]
             q == end[i]
             l == Len(rows[i])
  <2>1. p \in Nat /\ q \in Nat /\ l \in Nat /\ q = p + l /\ q <= len /\ len \in Nat
        /\ ptr[i] = p /\ ptr[i + 1] = q
    <3>1. p \in Nat /\ q \in Nat /\ l \in Nat /\ q = p + l /\ len = end[n] /\ end[n] \in Nat
      BY Zenon, <1>4, <1>5, <1>6, <1>8
    <3>2. q <= end[n]
      BY Zenon, <1>4, <1>8
    <3> QED
      BY Zenon, <1>9, <3>1, <3>2
  <2> HIDE DEF p, q, l
  <2>2. ASSUME NEW k \in 1..l PROVE whole[p + k] = rows[i][k] /\ p + k \in 1..len
    <3> DEFINE h == p + k
    <3>1. h \in 1..len /\ p < h /\ h <= q /\ h - p = k
      BY <2>1
    <3> HIDE DEF h
    <3>2. h \in 1..end[n] /\ end[i - 1] < h /\ h <= end[i]
      BY Zenon, <1>5, <3>1 DEF p, q, b
    <3> DEFINE j == y[h]
    <3>3. j \in 1..n /\ end[j - 1] < h /\ h <= end[j] /\ whole[h] = rows[j][h - end[j - 1]]
      BY Zenon, <1>5, <3>2
    <3> HIDE DEF j
    <3>4. j = i
      BY Zenon, <1>4, <3>2, <3>3
    <3>5. whole[h] = rows[i][h - p]
      BY Zenon, <3>3, <3>4 DEF p, b
    <3> QED
      BY Zenon, <3>1, <3>5 DEF h
  <2> QED
    BY Zenon, <2>1, <2>2 DEF l
<1>12. ASSUME NEW h \in 1..len
       PROVE  \E i \in 1..n : \E k \in 1..Len(rows[i]) : h = ptr[i] + k
  <2>1. PICK i \in 1..n : end[i - 1] < h /\ h <= end[i]
    BY Zenon, <1>4, <1>5
  <2> DEFINE p == ptr[i]
             q == ptr[i + 1]
             l == Len(rows[i])
             k == h - p
  <2>2. p < h /\ h <= q /\ p \in Nat /\ q = p + l /\ l \in Nat
    BY Zenon, <1>6, <1>9, <1>11, <2>1
  <2>3. len \in Nat
    BY <1>5 DEF IsSeq, len
  <2> HIDE DEF p, q, l
  <2>4. k \in 1..l /\ h = p + k
    BY ONLY <2>2, <2>3, h \in 1..len
  <2> QED
    BY <2>4 DEF p, l
<1> QED
  BY Zenon, <1>3, <1>5, <1>6, <1>7, <1>10, <1>11, <1>12 DEF MadeOf, n, whole, ptr, len

\* The items of both parts.
LEMMA BothHold ==
  ASSUME NEW A, NEW B, NEW entries, A \subseteq entries, B \subseteq entries,
         \A e \in entries : e \in A \/ e \in B, \A e \in A : e \notin B,
         NEW I, ItemsHold(I, A), NEW J, ItemsHold(J, B)
  PROVE  ItemsHold(I \cup J, entries)
<1>1. /\ \A it \in I : ItemIs(it) /\ \A j \in 1..it.pattern.size : it.vals[j] \in A
      /\ \A e \in A : \E it \in I : \E j \in 1..it.pattern.size : it.vals[j] = e
      /\ \A a, b \in I : \A i \in 1..a.pattern.size, j \in 1..b.pattern.size :
           a.vals[i] = b.vals[j] => a = b /\ i = j
  BY Zenon DEF ItemsHold
<1>2. /\ \A it \in J : ItemIs(it) /\ \A j \in 1..it.pattern.size : it.vals[j] \in B
      /\ \A e \in B : \E it \in J : \E j \in 1..it.pattern.size : it.vals[j] = e
      /\ \A a, b \in J : \A i \in 1..a.pattern.size, j \in 1..b.pattern.size :
           a.vals[i] = b.vals[j] => a = b /\ i = j
  BY Zenon DEF ItemsHold
<1> DEFINE U == I \cup J
<1>3. \A it : it \in U <=> it \in I \/ it \in J
  OBVIOUS
<1> HIDE DEF U
<1>4. \A it \in U : ItemIs(it)
  BY Zenon, <1>1, <1>2, <1>3
<1>5. \A it \in U : \A j \in 1..it.pattern.size : it.vals[j] \in entries
  <2>1. \A e \in A : e \in entries
    OBVIOUS
  <2>2. \A e \in B : e \in entries
    OBVIOUS
  <2> QED
    BY Zenon, <1>1, <1>2, <1>3, <2>1, <2>2
<1>6. \A e \in entries : \E it \in U : \E j \in 1..it.pattern.size : it.vals[j] = e
  BY Zenon, <1>1, <1>2, <1>3
<1>7. ASSUME NEW a \in U, NEW b \in U, NEW i \in 1..a.pattern.size, NEW j \in 1..b.pattern.size,
             a.vals[i] = b.vals[j]
      PROVE  a = b /\ i = j
  <2>1. CASE a \in I /\ b \in I
    BY <1>1, <1>7, <2>1
  <2>2. CASE a \in J /\ b \in J
    BY <1>2, <1>7, <2>2
  <2>3. CASE a \in I /\ b \in J
    BY Zenon, <1>1, <1>2, <1>7, <2>3
  <2>4. CASE a \in J /\ b \in I
    BY Zenon, <1>1, <1>2, <1>7, <2>4
  <2> QED
    BY Zenon, <1>3, <2>1, <2>2, <2>3, <2>4
<1> QED
  BY Zenon, <1>4, <1>5, <1>6, <1>7 DEF ItemsHold, U

\* A row of the first part, and the same row of the second.
LeftOf(I, J) == \A a \in I, b \in J : a.vals[1].x < b.vals[1].x
HoldsBoth(u, r, s, i, items) ==
  /\ RowHolds(u, i, items)
  /\ \A k \in 1..Len(r) : k \in 1..Len(u) /\ u[k] = r[k]
  /\ \A k \in 1..Len(s) : Len(r) + k \in 1..Len(u) /\ u[Len(r) + k] = s[k]

\* Appended to each other they are a row of the merged matrix.
LEMMA BothRow ==
  ASSUME NEW i, NEW I, NEW J, LeftOf(I, J),
         NEW r, RowHolds(r, i, I), NEW s, RowHolds(s, i, J), NEW u, u = r \o s
  PROVE  HoldsBoth(u, r, s, i, I \cup J)
<1> DEFINE m == Len(r)
           n == Len(s)
           len == Len(u)
           U == I \cup J
<1>1. /\ IsSeq(r) /\ \A k \in 1..m : /\ r[k].item \in I /\ r[k].x = r[k].item.vals[1].x
                                     /\ r[k].item.vals[1].y = i /\ r[k].x \in Int
      /\ \A j, k \in 1..m : j < k => r[j].x < r[k].x
  BY DEF RowHolds
<1>2. /\ IsSeq(s) /\ \A k \in 1..n : /\ s[k].item \in J /\ s[k].x = s[k].item.vals[1].x
                                     /\ s[k].item.vals[1].y = i /\ s[k].x \in Int
      /\ \A j, k \in 1..n : j < k => s[j].x < s[k].x
  BY DEF RowHolds
<1>3. /\ IsSeq(u) /\ len = m + n /\ \A k \in 1..m : u[k] = r[k]
      /\ \A k \in 1..n : u[m + k] = s[k]
  BY <1>1, <1>2, ConcatIs
<1>4. m \in Nat /\ n \in Nat
  BY <1>1, <1>2 DEF IsSeq
<1>5. \A a : a \in I \/ a \in J => a \in U
  OBVIOUS
<1> HIDE DEF m, n, len, U
<1>6. \A k \in 1..m : k \in 1..len
  BY <1>3, <1>4
<1>7. \A k \in 1..n : m + k \in 1..len
  BY <1>3, <1>4
<1>8. \A k \in 1..len : k \in 1..m \/ \E j \in 1..n : k = m + j
  <2> TAKE k \in 1..len
  <2>1. k \in 1..m \/ (k - m \in 1..n /\ k = m + (k - m))
    BY <1>3, <1>4
  <2> QED
    BY Zenon, <2>1
<1>9. ASSUME NEW k \in 1..len
      PROVE  /\ u[k].item \in U /\ u[k].x = u[k].item.vals[1].x
             /\ u[k].item.vals[1].y = i /\ u[k].x \in Int
  <2>1. CASE k \in 1..m
    BY Zenon, <1>1, <1>3, <1>5, <2>1
  <2>2. ASSUME NEW j \in 1..n, k = m + j
        PROVE  /\ u[k].item \in U /\ u[k].x = u[k].item.vals[1].x
               /\ u[k].item.vals[1].y = i /\ u[k].x \in Int
    <3>1. u[k] = s[j]
      BY Zenon, <1>3, <2>2
    <3> QED
      BY Zenon, <1>2, <1>5, <3>1
  <2> QED
    BY Zenon, <1>8, <2>1, <2>2
<1>10. ASSUME NEW j \in 1..len, NEW k \in 1..len, j < k PROVE u[j].x < u[k].x
  <2>1. CASE j \in 1..m /\ k \in 1..m
    BY Zenon, <1>1, <1>3, <1>10, <2>1
  <2>2. ASSUME j \in 1..m, NEW h \in 1..n, k = m + h PROVE u[j].x < u[k].x
    <3>1. u[j] = r[j] /\ u[k] = s[h]
      BY Zenon, <1>3, <2>2
    <3>2. r[j].item.vals[1].x < s[h].item.vals[1].x
      BY Zenon, <1>1, <1>2, <2>2 DEF LeftOf
    <3> QED
      BY Zenon, <1>1, <1>2, <2>2, <3>1, <3>2
  <2>3. ASSUME NEW g \in 1..n, j = m + g, NEW h \in 1..n, k = m + h PROVE u[j].x < u[k].x
    <3>1. u[j] = s[g] /\ u[k] = s[h]
      BY Zenon, <1>3, <2>3
    <3>2. g < h
      BY ONLY <1>4, <1>10, <2>3, g \in 1..n, h \in 1..n
    <3> QED
      BY Zenon, <1>2, <3>1, <3>2
  <2>4. ASSUME NEW g \in 1..n, j = m + g, k \in 1..m PROVE FALSE
    BY ONLY <1>4, <1>10, <2>4, g \in 1..n
  <2> QED
    BY Zenon, <1>8, <2>1, <2>2, <2>3, <2>4
<1>11. RowHolds(u, i, U)
  BY Zenon, <1>3, <1>9, <1>10 DEF RowHolds, len
<1> QED
  BY Zenon, <1>3, <1>6, <1>7, <1>11 DEF HoldsBoth, m, n, len, U

\* Row by row, the rows of the one and of the other.
RowOr(rows, i) == IF Len(rows) >= i THEN rows[i] ELSE <<>>
Merged(rows, R, S, n) == rows = [i \in 1..n |-> RowOr(R, i) \o RowOr(S, i)]
WithinRows(items, n) == \A a \in items : a.vals[1].y \in 1..n

\* So it is for all rows.
LEMMA BothRows ==
  ASSUME NEW I, NEW J, LeftOf(I, J), NEW n \in Nat, WithinRows(I \cup J, n),
         NEW R, RowsHold(R, I), NEW S, RowsHold(S, J), NEW rows, Merged(rows, R, S, n)
  PROVE  RowsHold(rows, I \cup J) /\ Len(rows) = n /\ \A i \in 1..n : Len(rows[i]) \in Nat
<1>1. ASSUME NEW Q, NEW K, RowsHold(Q, K), NEW i \in 1..n
      PROVE  RowHolds(RowOr(Q, i), i, K)
  <2>1. CASE Len(Q) >= i
    <3>1. i \in 1..Len(Q)
      BY <1>1, <2>1 DEF RowsHold
    <3> QED
      BY Zenon, <1>1, <2>1, <3>1 DEF RowsHold, RowOr
  <2>2. CASE ~(Len(Q) >= i)
    <3>1. RowOr(Q, i) = <<>>
      BY Zenon, <2>2 DEF RowOr
    <3>2. IsSeq(<<>>) /\ \A k : k \notin 1..Len(<<>>)
      BY DEF IsSeq
    <3>3. RowHolds(<<>>, i, K)
      BY Zenon, <3>2 DEF RowHolds
    <3> QED
      BY Zenon, <3>1, <3>3
  <2> QED
    BY Zenon, <2>1, <2>2
<1> DEFINE r(i) == RowOr(R, i)
           s(i) == RowOr(S, i)
<1>2. Len(rows) = n /\ \A i \in 1..n : rows[i] = r(i) \o s(i)
  BY DEF Merged
<1>3. \A i \in 1..n : RowHolds(r(i), i, I) /\ RowHolds(s(i), i, J)
  BY <1>1
<1>4. \A i \in 1..n : i <= Len(R) => r(i) = R[i]
  BY DEF RowOr, RowsHold
<1>5. \A i \in 1..n : i <= Len(S) => s(i) = S[i]
  BY DEF RowOr, RowsHold
<1> HIDE DEF r, s
<1>6. ASSUME NEW i \in 1..n
      PROVE  /\ RowHolds(rows[i], i, I \cup J)
             /\ \A k \in 1..Len(r(i)) : k \in 1..Len(rows[i]) /\ rows[i][k] = r(i)[k]
             /\ \A k \in 1..Len(s(i)) : \E h \in 1..Len(rows[i]) : rows[i][h] = s(i)[k]
  <2> DEFINE u == rows[i]
             a == r(i)
             b == s(i)
  <2>1. u = a \o b /\ RowHolds(a, i, I) /\ RowHolds(b, i, J)
    BY <1>2, <1>3
  <2> HIDE DEF u, a, b
  <2>2. /\ RowHolds(u, i, I \cup J)
        /\ \A k \in 1..Len(a) : k \in 1..Len(u) /\ u[k] = a[k]
        /\ \A k \in 1..Len(b) : Len(a) + k \in 1..Len(u) /\ u[Len(a) + k] = b[k]
    <3>1. HoldsBoth(u, a, b, i, I \cup J)
      BY <2>1, BothRow
    <3> QED
      BY Zenon, <3>1 DEF HoldsBoth
  <2> QED
    BY Zenon, <2>2 DEF u, a, b
<1>7. ASSUME NEW it \in I PROVE \E i \in 1..n : \E k \in 1..Len(rows[i]) : rows[i][k].item = it
  <2>1. PICK i \in 1..Len(R) : \E k \in 1..Len(R[i]) : R[i][k].item = it
    BY Zenon DEF RowsHold
  <2>2. PICK k \in 1..Len(R[i]) : R[i][k].item = it
    BY Zenon, <2>1
  <2>3. i = it.vals[1].y
    BY Zenon, <2>2 DEF RowsHold, RowHolds
  <2>4. i \in 1..n
    BY <2>3 DEF WithinRows
  <2>5. i <= Len(R)
    BY DEF RowsHold
  <2>6. r(i) = R[i]
    BY Zenon, <1>4, <2>4, <2>5
  <2>70. k \in 1..Len(r(i)) /\ r(i)[k] = R[i][k]
    BY Zenon, <2>2, <2>6
  <2>71. k \in 1..Len(rows[i]) /\ rows[i][k] = r(i)[k]
    BY Zenon, <1>6, <2>4, <2>70
  <2>7. k \in 1..Len(rows[i]) /\ rows[i][k].item = it
    BY Zenon, <2>2, <2>70, <2>71
  <2> QED
    BY Zenon, <2>4, <2>7
<1>8. ASSUME NEW it \in J PROVE \E i \in 1..n : \E k \in 1..Len(rows[i]) : rows[i][k].item = it
  <2>1. PICK i \in 1..Len(S) : \E k \in 1..Len(S[i]) : S[i][k].item = it
    BY Zenon DEF RowsHold
  <2>2. PICK k \in 1..Len(S[i]) : S[i][k].item = it
    BY Zenon, <2>1
  <2>3. i = it.vals[1].y
    BY Zenon, <2>2 DEF RowsHold, RowHolds
  <2>4. i \in 1..n
    BY <2>3 DEF WithinRows
  <2>5. i <= Len(S)
    BY DEF RowsHold
  <2>6. s(i) = S[i]
    BY Zenon, <1>5, <2>4, <2>5
  <2>7. \E h \in 1..Len(rows[i]) : rows[i][h] = s(i)[k]
    BY Zenon, <1>6, <2>4, <2>6
  <2>8. \E h \in 1..Len(rows[i]) : rows[i][h].item = it
    BY Zenon, <2>2, <2>6, <2>7
  <2> QED
    BY Zenon, <2>4, <2>8
<1>9. \A it \in I \cup J : it \in I \/ it \in J
  OBVIOUS
<1>10. \A i \in 1..n : Len(rows[i]) \in Nat
  BY Zenon, <1>6 DEF RowHolds, IsSeq
<1>11. RowsHold(rows, I \cup J)
  <2> DEFINE U == I \cup J
  <2>1. \A i \in 1..n : RowHolds(rows[i], i, U)
    BY Zenon, <1>6
  <2>2. \A it \in U : it \in I \/ it \in J
    BY Zenon, <1>9
  <2> HIDE DEF U
  <2>3. \A it \in U : \E i \in 1..n : \E k \in 1..Len(rows[i]) : rows[i][k].item = it
    BY Zenon, <1>7, <1>8, <2>2
  <2>4. Len(rows) = n /\ Len(rows) \in Nat
    BY <1>2
  <2>5. /\ \A i \in 1..Len(rows) : RowHolds(rows[i], i, U)
        /\ \A it \in U : \E i \in 1..Len(rows) : \E k \in 1..Len(rows[i]) : rows[i][k].item = it
    BY Zenon, <2>1, <2>3, <2>4
  <2> QED
    BY Zenon, <2>4, <2>5 DEF RowsHold, U
<1> QED
  BY Zenon, <1>2, <1>10, <1>11

\* The matrix that MakeCsx writes, once it is made.
MadeSpm == spm = IF input.symmetric THEN MergeMatrix(parts[1], parts[2]) ELSE parts[1]

SpmIs ==
  /\ Writable /\ NewHold(spm.elems, input.entries)
  /\ input.symmetric => spm.nrRows = GetNrRows(spm)

\* The matrix that is written is the one part there is.
LEMMA OnePartMade ==
  ASSUME PartsInv, MadeSpm, ~input.symmetric
  PROVE  SpmIs
<1>1. input \in Inputs /\ spm = parts[1]
  BY DEF PartsInv, MadeSpm
<1>2. 1 \in DOMAIN SharesOf(input) /\ SharesOf(input)[1] = input.entries
  BY DEF SharesOf
<1>3. PartIs(spm, input.entries)
  BY <1>1, <1>2 DEF PartsInv
<1>4. PICK items : ItemsHold(items, input.entries) /\ Keeps(spm, items, FirstVals(items))
  BY <1>3 DEF PartIs
<1>5. spm.type = HORIZONTAL
  BY <1>3 DEF PartIs
<1> DEFINE rows == RowsOfPart(spm)
           entries == input.entries
           s == spm
<1>6. MadeOf(s, rows) /\ RowsHold(rows, items)
  BY ONLY <1>4, <1>5, PartRows
<1>7. OneSided(items)
  BY DEF OneSided
<1> HIDE DEF rows
<1>8. NewHold(spm.elems, input.entries)
  BY ONLY <1>4, <1>6, MadeHolds
<1>9. Writable
  BY ONLY <1>1, <1>4, <1>6, <1>7, MadeWritable
<1> QED
  BY <1>8, <1>9 DEF SpmIs

\* The rows of a part, as many as it has.
LEMMA RowsAre ==
  ASSUME NEW m, GetNrRows(m) \in Nat, NEW i \in Pos
  PROVE  /\ Len(RowsOfPart(m)) = GetNrRows(m)
         /\ RowOr(RowsOfPart(m), i) = IF GetNrRows(m) >= i THEN Row(m, i) ELSE <<>>
<1> DEFINE n == GetNrRows(m)
           R(k) == Row(m, k)
           rows == [k \in 1..n |-> R(k)]
<1>1. RowsOfPart(m) = rows
  BY Zenon DEF RowsOfPart
<1>2. n \in Nat
  OBVIOUS
<1> HIDE DEF n, R
<1>3. Len(rows) = n /\ (n >= i => rows[i] = R(i))
  BY <1>2 DEF Pos
<1> HIDE DEF rows
<1>4. RowOr(rows, i) = IF n >= i THEN R(i) ELSE <<>>
  BY <1>3 DEF RowOr
<1> QED
  BY Zenon, <1>1, <1>3, <1>4 DEF n, R

\* The shares of the two parts of a symmetric matrix.
LEMMA SharesSplit ==
  ASSUME input \in Inputs, input.symmetric,
         NEW A, A = SharesOf(input)[1], NEW B, B = SharesOf(input)[2]
  PROVE  /\ 1 \in DOMAIN SharesOf(input) /\ 2 \in DOMAIN SharesOf(input)
         /\ A \subseteq input.entries /\ B \subseteq input.entries
         /\ \A e \in input.entries : e \in A \/ e \in B
         /\ \A e \in A : e \notin B
         /\ \A e \in A : e.x \in Nat /\ ~(e.x > input.rowStart)
         /\ \A e \in B : e.x \in Nat /\ e.x > input.rowStart
         /\ input.rowStart \in Nat
<1>1. input.rowStart \in Nat /\ \A e \in input.entries : e.x \in Nat
  BY InputsAssumption, SharesAre
<1> DEFINE r == input.rowStart
           E == input.entries
           P == {e \in E : e.x < r + 1}
           Q == {e \in E : e.x >= r + 1}
           in == input
<1>2. SharesOf(in) = <<P, Q>>
  BY DEF SharesOf
<1>3. \A e \in E : (e \in P <=> e.x < r + 1) /\ (e \in Q <=> e.x >= r + 1)
  OBVIOUS
<1>4. P \subseteq E /\ Q \subseteq E
  OBVIOUS
<1> HIDE DEF P, Q
<1>5. A = P /\ B = Q /\ DOMAIN SharesOf(in) = 1..2
  BY <1>2
<1>6. r \in Nat /\ \A e \in E : e.x \in Nat
  BY <1>1
<1> HIDE DEF r, E
<1>7. \A e \in E : (e \in P <=> ~(e.x > r)) /\ (e \in Q <=> e.x > r)
  BY ONLY <1>3, <1>6
<1> QED
  BY ONLY <1>4, <1>5, <1>6, <1>7 DEF r, E, in

\* The first entries of items that hold entries.
LEMMA FirstEntries ==
  ASSUME NEW items, NEW entries, ItemsHold(items, entries), NEW it \in items
  PROVE  /\ 1 \in 1..it.pattern.size /\ it.vals[1] \in entries
         /\ \A j \in 1..it.pattern.size : it.vals[j] \in entries
<1>1. it.pattern.size \in Pos /\ \A j \in 1..it.pattern.size : it.vals[j] \in entries
  BY Zenon DEF ItemsHold, ItemIs
<1> DEFINE n == it.pattern.size
<1>2. n \in Pos
  BY <1>1
<1> HIDE DEF n
<1>3. 1 \in 1..n
  BY <1>2 DEF Pos
<1> QED
  BY Zenon, <1>1, <1>3 DEF n

\* The matrix loaded has the rows of the entries.
LEMMA OriginalIs ==
  ASSUME input \in Inputs
  PROVE  /\ Has(Original, MatrixFields) /\ Original.type = HORIZONTAL
         /\ AsTall(Original, input.entries)
<1>1. /\ input.cols \in Nat /\ IsFiniteSet(input.entries)
      /\ \A e \in input.entries : e = [y |-> e.y, x |-> e.x] /\ e.y \in Pos /\ e.x \in 1..input.cols
  BY SharesAre
<1>2. PartIs(Original, input.entries) /\ AsTall(Original, input.entries)
  BY ONLY <1>1, LoadedIs DEF LoadedPart, Original
<1> QED
  BY <1>2 DEF PartIs

\* The matrix that is written is that of both parts, row by row.
LEMMA BothPartsMade ==
  ASSUME PartsInv, MadeSpm, input.symmetric
  PROVE  SpmIs
<1> DEFINE A == SharesOf(input)[1]
           B == SharesOf(input)[2]
           E == input.entries
           L == Original
           m1 == parts[1]
           m2 == parts[2]
<1>1. input \in Inputs
  BY DEF PartsInv
<1>2. /\ 1 \in DOMAIN SharesOf(input) /\ 2 \in DOMAIN SharesOf(input)
      /\ A \subseteq E /\ B \subseteq E
      /\ \A e \in E : e \in A \/ e \in B
      /\ \A e \in A : e \notin B
      /\ \A e \in A : e.x \in Nat /\ ~(e.x > input.rowStart)
      /\ \A e \in B : e.x \in Nat /\ e.x > input.rowStart
      /\ input.rowStart \in Nat
  BY <1>1, SharesSplit
<1>3. PartIs(m1, A) /\ PartIs(m2, B)
  BY <1>2 DEF PartsInv
<1> HIDE DEF A, B, E
<1>4. PICK I : ItemsHold(I, A) /\ Keeps(m1, I, FirstVals(I))
  BY <1>3 DEF PartIs
<1>5. PICK J : ItemsHold(J, B) /\ Keeps(m2, J, FirstVals(J))
  BY <1>3 DEF PartIs
<1>6. m1.type = HORIZONTAL /\ m2.type = HORIZONTAL
  BY <1>3 DEF PartIs
<1> DEFINE R == RowsOfPart(m1)
           S == RowsOfPart(m2)
<1>7. MadeOf(m1, R) /\ RowsHold(R, I) /\ MadeOf(m2, S) /\ RowsHold(S, J)
  BY ONLY <1>4, <1>5, <1>6, PartRows
<1>8. GetNrRows(m1) \in Nat /\ GetNrRows(m2) \in Nat
  BY <1>7 DEF MadeOf
<1> DEFINE n == GetNrRows(L)
           rows == [i \in 1..n |-> RowOr(R, i) \o RowOr(S, i)]
<1>9. /\ Has(L, MatrixFields) /\ L.type = HORIZONTAL /\ n \in Nat /\ L.nrRows = n
      /\ \A e \in E : e.y \in 1..n
  BY <1>1, OriginalIs DEF AsTall, E
<1> DEFINE K == I \cup J
<1>10. \A a \in I : a.vals[1] \in A /\ \A j \in 1..a.pattern.size : a.vals[j] \in A
  BY <1>4, FirstEntries
<1>11. \A a \in J : a.vals[1] \in B /\ \A j \in 1..a.pattern.size : a.vals[j] \in B
  BY <1>5, FirstEntries
<1>12. LeftOf(I, J)
  <2> SUFFICES ASSUME NEW a \in I, NEW b \in J PROVE a.vals[1].x < b.vals[1].x
    BY DEF LeftOf
  <2>1. a.vals[1] \in A /\ b.vals[1] \in B
    BY <1>10, <1>11
  <2> DEFINE x == a.vals[1].x
             z == b.vals[1].x
             c == input.rowStart
  <2>2. x \in Nat /\ z \in Nat /\ c \in Nat /\ ~(x > c) /\ z > c
    BY <1>2, <2>1
  <2> HIDE DEF x, z, c
  <2>3. x < z
    BY ONLY <2>2
  <2> QED
    BY <2>3 DEF x, z
<1>13. \A a \in K : a.vals[1].y \in 1..n
  BY <1>2, <1>9, <1>10, <1>11
<1>14. ItemsHold(K, E)
  BY ONLY <1>2, <1>4, <1>5, BothHold
<1>15. OneSided(K)
  <2> SUFFICES ASSUME NEW a \in K, NEW j \in 1..a.pattern.size
               PROVE  a.vals[j].x > input.rowStart <=> a.vals[1].x > input.rowStart
    BY DEF OneSided
  <2>1. (a.vals[1] \in A /\ a.vals[j] \in A) \/ (a.vals[1] \in B /\ a.vals[j] \in B)
    BY <1>10, <1>11
  <2> QED
    BY <1>2, <2>1
<1>16. spm = Rebuilt(L, rows)
  <2> DEFINE r1(i) == IF GetNrRows(m1) >= i THEN Row(m1, i) ELSE <<>>
             r2(i) == IF GetNrRows(m2) >= i THEN Row(m2, i) ELSE <<>>
             made == [i \in 1..n |-> r1(i) \o r2(i)]
  <2>1. spm = Rebuilt(L, made)
    BY Zenon DEF MadeSpm, MergeMatrix
  <2>2. ASSUME NEW i \in 1..n PROVE RowOr(R, i) = r1(i) /\ RowOr(S, i) = r2(i)
    <3>1. i \in Pos
      BY <1>9 DEF Pos
    <3> QED
      BY ONLY <3>1, <1>8, RowsAre
  <2> HIDE DEF r1, r2, R, S, n, L
  <2>3. made = rows
    BY <2>2
  <2> QED
    BY <2>1, <2>3
<1> HIDE DEF R, S, n, m1, m2, L, K
<1>17. RowsHold(rows, K) /\ Len(rows) = n /\ \A i \in 1..n : Len(rows[i]) \in Nat
  <2>1. Merged(rows, R, S, n)
    BY DEF Merged
  <2>2. n \in Nat /\ WithinRows(I \cup J, n)
    BY <1>9, <1>13 DEF K, WithinRows
  <2> HIDE DEF rows
  <2>3. RowsHold(R, I) /\ RowsHold(S, J)
    BY ONLY <1>7
  <2>4. RowsHold(rows, I \cup J) /\ Len(rows) = n /\ \A i \in 1..n : Len(rows[i]) \in Nat
    BY ONLY <1>12, <2>1, <2>2, <2>3, BothRows
  <2> QED
    BY Zenon, <2>4 DEF K
<1> HIDE DEF rows
<1>18. Len(rows) \in Nat /\ \A i \in 1..Len(rows) : Len(rows[i]) \in Nat
  BY <1>9, <1>17
<1> DEFINE s == spm
<1>19. MadeOf(s, rows) /\ s.nrRows = L.nrRows
  BY ONLY <1>9, <1>16, <1>18, BuiltMade
<1>20. NewHold(s.elems, E)
  BY ONLY <1>14, <1>17, <1>19, MadeHolds
<1>21. Writable
  <2>1. ItemsHold(K, input.entries)
    BY Zenon, <1>14 DEF E
  <2> QED
    BY ONLY <1>1, <1>15, <1>17, <1>19, <2>1, MadeWritable
<1>22. spm.nrRows = GetNrRows(spm)
  BY <1>9, <1>17, <1>19 DEF MadeOf
<1> QED
  BY Zenon, <1>20, <1>21, <1>22 DEF SpmIs, E

\* So the matrix that is written has an element for each item of the parts.
LEMMA SpmMade ==
  ASSUME PartsInv, MadeSpm
  PROVE  SpmIs
<1>1. input.symmetric \in BOOLEAN
  BY SharesAre DEF PartsInv
<1> QED
  BY <1>1, OnePartMade, BothPartsMade

-----------------------------------------------------------------------------
(***************************************************************************)
(* The kernel goes from unit to unit.                                      *)
(***************************************************************************)

\* What the kernel of a symmetric matrix does with the value v of the cell it is for.
MirrorOf(in, v) ==
  [to |-> IF v.x > in.rowStart THEN "y" ELSE "temp", at |-> Point(v.x, v.y)]

RunFields == {"at", "y", "x", "touched", "mirrored", "diagonal"}

\* The kernel with the locals r is in the state a: it has multiplied the first a.n values.
RanTo(r, in, vals, a) ==
  /\ r.at = a.at /\ r.y = a.y /\ r.x = a.x
  /\ IsSeq(r.touched) /\ Len(r.touched) = a.n /\ \A k \in 1..a.n : r.touched[k] = vals[k]
  /\ ~in.symmetric => r.mirrored = <<>>
  /\ in.symmetric =>
       /\ IsSeq(r.mirrored) /\ Len(r.mirrored) = a.n
       /\ \A k \in 1..a.n : r.mirrored[k] = MirrorOf(in, vals[k])
       /\ IsSeq(r.diagonal) /\ Len(r.diagonal) = a.y /\ \A k \in 1..a.y : r.diagonal[k] = k

\* Where the products of a unit's cells are mirrored.
MirrorsOf(cells, size, side) ==
  [k \in 1..size |-> [to |-> side, at |-> Point(cells[k].x, cells[k].y)]]

\* What the unit u, which leads to b, does.
UnitRun(u, b, cells, target) ==
  [at |-> b.at, y |-> b.y, x |-> b.x, touched |-> run.touched \o cells,
   mirrored |-> IF input.symmetric THEN run.mirrored \o MirrorsOf(cells, u.size, target) ELSE <<>>,
   diagonal |-> IF input.symmetric THEN run.diagonal \o Diagonals(run.y, u.jmp) ELSE <<>>]

\* The kernel does with the bytes of a unit what the writer made it for.
LEMMA UnitDoes ==
  ASSUME ExecUnit, IsSeq(out.ctl.elems), NEW a, NEW u, NEW b, UnitOk(out, a, u, b),
         u.flag <= PatternsMax, RanTo(run, input, out.values, a),
         NEW cells, cells = Cells(out.values, a.n, u.size)
  PROVE  run' = UnitRun(u, b, cells, MirrorTarget(~u.nr, u.x - 1))
<1> DEFINE c == out.ctl.elems
           flags == c[run.at]
           size == c[run.at + 1]
           sameRow == ~test_bit(flags, CTL_NR_BIT)
           jump == NewRowHook(flags, run.at + 2)
           col == NextX(IF sameRow THEN run.x ELSE 0, jump.next)
           id == out.patterns[PatternOf(flags) + 1]
           deltas == IF id[1] = DELTA /\ size > 1 THEN GetDeltas(col.next, id[2], size)
                     ELSE [val |-> <<>>, next |-> col.next]
           y == run.y + jump.val
           general == Mult(id, size, deltas.val, y + 1, col.val + 1)
           symmetric == SymMult(id, size, deltas.val, y + 1, col.val + 1)
           target == MirrorTarget(sameRow, col.val)
           new == [at |-> deltas.next, y |-> y, x |-> LeavesX(id, size, deltas.val, col.val),
                   touched |-> run.touched \o
                     (IF input.symmetric THEN [k \in DOMAIN symmetric |-> symmetric[k].product]
                                         ELSE general),
                   mirrored |-> IF input.symmetric
                     THEN run.mirrored \o [k \in DOMAIN symmetric |->
                                             [to |-> target, at |-> symmetric[k].mirror]]
                     ELSE <<>>,
                   diagonal |-> IF input.symmetric
                                  THEN run.diagonal \o Diagonals(run.y, jump.val)
                                  ELSE <<>>]
<1>1. run' = new
  BY Zenon DEF ExecUnit
<1> DEFINE next == a.at + 2 + Len(JumpBytes(u))
           from == a.at + Len(HeadOf(u, ColFrom(a, u)))
<1>2. run.at = a.at /\ run.y = a.y /\ run.x = a.x
  BY DEF RanTo
<1>3. HeadReads(a, u)
  <2> DEFINE to == b.at
  <2>1. WrittenAt(out, a, u, to)
    BY DEF UnitOk
  <2> QED
    BY ONLY IsSeq(out.ctl.elems), u.flag <= PatternsMax, <2>1, HeadIsRead
<1>4. /\ UnitIs(u) /\ u.flag + 1 \in 1..Len(out.patterns) /\ out.patterns[u.flag + 1] = u.id
      /\ DataAt(c, u, from, b.at)
      /\ b.y = a.y + u.jmp /\ b.x = LeavesX(u.id, u.size, u.deltas, u.x - 1)
      /\ Multiplies(u.id, u.size, u.deltas, b.y + 1, u.x, cells)
      /\ a.at \in Pos
  BY DEF UnitOk, WrittenAt
<1> HIDE DEF c
<1>5. /\ flags = c[a.at] /\ PatternOf(flags) = u.flag /\ size = u.size /\ (sameRow <=> ~u.nr)
      /\ jump = [val |-> u.jmp, next |-> next]
      /\ NextX(IF u.nr THEN 0 ELSE a.x, next) = [val |-> u.x - 1, next |-> from]
  <2>1. /\ PatternOf(c[a.at]) = u.flag /\ c[a.at + 1] = u.size
        /\ test_bit(c[a.at], CTL_NR_BIT) <=> u.nr
        /\ NewRowHook(c[a.at], a.at + 2) = [val |-> u.jmp, next |-> next]
        /\ NextX(IF u.nr THEN 0 ELSE a.x, next) = [val |-> u.x - 1, next |-> from]
    BY Zenon, <1>3 DEF HeadReads, c
  <2> QED
    BY Zenon, <1>2, <2>1
<1>6. col = [val |-> u.x - 1, next |-> from]
  <2>1. CASE u.nr
    <3>1. ~sameRow /\ jump.next = next
      BY <1>5, <2>1
    <3> QED
      BY Zenon, <1>5, <2>1, <3>1
  <2>2. CASE ~u.nr
    <3>1. sameRow /\ jump.next = next
      BY <1>5, <2>2
    <3> QED
      BY Zenon, <1>2, <1>5, <2>2, <3>1
  <2> QED
    BY <2>1, <2>2
<1>7. id = u.id
  BY Zenon, <1>4, <1>5
<1> HIDE DEF flags, size, sameRow, jump, col, id, next
<1>8. jump.val = u.jmp /\ col.val = u.x - 1 /\ col.next = from
  BY <1>5, <1>6
<1>9. from \in Pos
  <2>1. u.jmp \in Int /\ u.x \in Int /\ a.x \in Nat
    BY <1>4 DEF UnitIs, Numbers, Pos, UnitOk, WrittenAt
  <2> DEFINE d == ColFrom(a, u)
  <2>2. d \in Int
    BY <2>1 DEF ColFrom
  <2> HIDE DEF d
  <2>3. Len(HeadOf(u, d)) \in Nat
    BY <2>1, <2>2, HeadOfIs DEF IsSeq
  <2> DEFINE l == Len(HeadOf(u, d))
  <2>4. l \in Nat
    BY <2>3
  <2> HIDE DEF l
  <2>5. a.at + l \in Pos
    BY <1>4, <2>4 DEF Pos
  <2> QED
    BY Zenon, <2>5 DEF l, d
<1> HIDE DEF from
<1>10. deltas = [val |-> u.deltas, next |-> b.at]
  <2>1. CASE HasDeltas(u)
    <3>1. id[1] = DELTA /\ size > 1
      BY <1>5, <1>7, <2>1 DEF HasDeltas
    <3>2. deltas = GetDeltas(from, u.id[2], u.size)
      BY Zenon, <1>5, <1>7, <1>8, <3>1
    <3>3. u.size \in Pos
      BY <1>4 DEF UnitIs
    <3> DEFINE to == b.at
    <3>4. DataAt(out.ctl.elems, u, from, to)
      BY Zenon, <1>4 DEF c
    <3>5. GetDeltas(from, u.id[2], u.size) = [val |-> u.deltas, next |-> to]
      BY ONLY <1>9, <2>1, <3>3, <3>4, DeltasAreRead
    <3> QED
      BY Zenon, <3>2, <3>5
  <2>2. CASE ~HasDeltas(u)
    <3>1. ~(id[1] = DELTA /\ size > 1)
      BY Zenon, <1>5, <1>7, <2>2 DEF HasDeltas
    <3>2. deltas = [val |-> <<>>, next |-> from]
      BY Zenon, <1>8, <3>1
    <3>3. b.at = from /\ u.deltas = <<>>
      BY Zenon, <1>4, <2>2 DEF DataAt
    <3> QED
      BY Zenon, <3>2, <3>3
  <2> QED
    BY <2>1, <2>2
<1> HIDE DEF deltas
<1>11. deltas.val = u.deltas /\ deltas.next = b.at
  BY <1>10
<1>12. col.val + 1 = u.x
  BY <1>4, <1>8 DEF UnitIs, Pos
<1>13. y = b.y
  BY Zenon, <1>2, <1>4, <1>8
<1>14. /\ general = cells
       /\ symmetric = [k \in 1..u.size |->
                         [product |-> cells[k], mirror |-> Point(cells[k].x, cells[k].y)]]
       /\ IsSeq(cells) /\ Len(cells) = u.size
  BY Zenon, <1>4, <1>5, <1>7, <1>11, <1>12, <1>13 DEF Multiplies
<1>15. target = MirrorTarget(~u.nr, u.x - 1)
  BY Zenon, <1>5, <1>8
<1> HIDE DEF y, general, symmetric, target
<1>16. (IF input.symmetric THEN [k \in DOMAIN symmetric |-> symmetric[k].product] ELSE general)
         = cells
  <2> DEFINE n == u.size
  <2>1. /\ DOMAIN symmetric = 1..n /\ \A k \in 1..n : symmetric[k].product = cells[k]
        /\ cells = [k \in 1..n |-> cells[k]]
    BY <1>14 DEF IsSeq
  <2> QED
    BY <1>14, <2>1
<1>17. [k \in DOMAIN symmetric |-> [to |-> target, at |-> symmetric[k].mirror]]
         = MirrorsOf(cells, u.size, target)
  <2> DEFINE n == u.size
             m(k) == Point(cells[k].x, cells[k].y)
  <2>1. DOMAIN symmetric = 1..n /\ \A k \in 1..n : symmetric[k].mirror = m(k)
    BY <1>14
  <2> HIDE DEF m
  <2>2. [k \in DOMAIN symmetric |-> [to |-> target, at |-> symmetric[k].mirror]]
          = [k \in 1..n |-> [to |-> target, at |-> m(k)]]
    BY <2>1
  <2> QED
    BY Zenon, <2>2 DEF m, MirrorsOf
<1>18. LeavesX(id, size, deltas.val, col.val) = b.x
  BY Zenon, <1>4, <1>5, <1>7, <1>8, <1>11
<1> QED
  BY Zenon, <1>1, <1>8, <1>11, <1>13, <1>15, <1>16, <1>17, <1>18 DEF UnitRun

\* The mirrored products of a unit go to the side that its column is on: an earlier
\* unit of the row that was on the thread's own side does not change that.
LEMMA TargetIs ==
  ASSUME input \in Inputs, input.symmetric, NEW a, NEW u, NEW b, UnitOk(out, a, u, b),
         RanTo(run, input, out.values, a), NEW cells, cells = Cells(out.values, a.n, u.size)
  PROVE  \A k \in 1..u.size :
           [to |-> MirrorTarget(~u.nr, u.x - 1), at |-> Point(cells[k].x, cells[k].y)]
             = MirrorOf(input, out.values[a.n + k])
<1> DEFINE r == input.rowStart
           v == out.values
           m == run.mirrored
           own == u.x > r
           target == MirrorTarget(~u.nr, u.x - 1)
<1>1. /\ \A k \in 1..u.size : v[a.n + k].x > r <=> own
      /\ ~u.nr /\ a.n > 0 /\ v[a.n].x > r => own
  BY DEF UnitOk, UnitSides
<1>2. IsSeq(m) /\ Len(m) = a.n /\ \A k \in 1..a.n : m[k] = MirrorOf(input, v[k])
  BY DEF RanTo
<1>3. u.x - 1 >= r <=> own
  <2> DEFINE x == u.x
  <2>1. x \in Pos /\ r \in Nat
    BY InputsAssumption DEF UnitOk, WrittenAt, UnitIs
  <2> HIDE DEF x, r
  <2>2. x - 1 >= r <=> x > r
    BY ONLY <2>1 DEF Pos
  <2> QED
    BY Zenon, <2>2 DEF x
<1>4. a.n \in Nat
  BY DEF UnitOk, StateIs
<1>5. target = IF own THEN "y" ELSE "temp"
  <2> DEFINE before == ~u.nr /\ m # <<>> /\ Last(m).to = "y"
  <2>1. target = IF before \/ u.x - 1 >= r THEN "y" ELSE "temp"
    BY DEF MirrorTarget
  <2>2. ASSUME before PROVE own
    <3> DEFINE n == a.n
    <3>1. n > 0 /\ Last(m) = m[n] /\ n \in 1..n
      <4>1. Len(m) = n /\ n \in Nat /\ m # <<>> /\ IsSeq(m)
        BY <1>2, <1>4, <2>2
      <4> HIDE DEF n, m
      <4>2. n # 0
        <5> SUFFICES ASSUME n = 0 PROVE FALSE
          OBVIOUS
        <5>1. m = [k \in 1..0 |-> m[k]]
          BY <4>1 DEF IsSeq
        <5>2. m = <<>>
          BY <5>1
        <5> QED
          BY <4>1, <5>2
      <4> QED
        BY <4>1, <4>2 DEF Last
    <3> HIDE DEF n
    <3>2. m[n].to = "y"
      BY <2>2, <3>1
    <3>3. m[n] = MirrorOf(input, v[n])
      BY Zenon, <1>2, <3>1 DEF n
    <3>4. v[n].x > r
      BY <3>2, <3>3 DEF MirrorOf
    <3>5. ~u.nr
      BY <2>2
    <3> QED
      BY Zenon, <1>1, <3>1, <3>4, <3>5 DEF n
  <2> HIDE DEF before, target, own
  <2> QED
    BY Zenon, <1>3, <2>1, <2>2
<1> SUFFICES ASSUME NEW k \in 1..u.size
             PROVE  [to |-> target, at |-> Point(cells[k].x, cells[k].y)]
                      = MirrorOf(input, out.values[a.n + k])
  OBVIOUS
<1>6. cells[k] = v[a.n + k]
  BY DEF Cells
<1> DEFINE w == v[a.n + k]
<1>7. w.x > r <=> own
  BY <1>1
<1> HIDE DEF target, own, w
<1>8. MirrorOf(input, w) = [to |-> target, at |-> Point(w.x, w.y)]
  BY Zenon, <1>5, <1>7 DEF MirrorOf, r
<1> QED
  BY Zenon, <1>6, <1>8 DEF w

\* The sequence s is the values of f from m + 1 to m + n.
Gives(s, f, m, n) ==
  m \in Nat /\ IsSeq(s) /\ Len(s) = n /\ \A k \in 1..n : s[k] = f[m + k]
\* One behind the other.
LEMMA GivesOn ==
  ASSUME NEW s, NEW t, NEW f, NEW m, NEW n, NEW l, Gives(s, f, 0, m), Gives(t, f, m, n), l = m + n
  PROVE  Gives(s \o t, f, 0, l)
<1> DEFINE st == s \o t
<1>1. /\ IsSeq(s) /\ IsSeq(t) /\ Len(s) = m /\ Len(t) = n /\ m \in Nat /\ n \in Nat
      /\ \A k \in 1..m : s[k] = f[0 + k]
      /\ \A k \in 1..n : t[k] = f[m + k]
  BY DEF Gives, IsSeq
<1>2. IsSeq(st) /\ Len(st) = m + n /\ (\A k \in 1..m : st[k] = s[k])
      /\ \A k \in 1..n : st[m + k] = t[k]
  <2>1. /\ IsSeq(st) /\ Len(st) = Len(s) + Len(t)
        /\ \A k \in 1..Len(s) : st[k] = s[k]
        /\ \A k \in 1..Len(t) : st[Len(s) + k] = t[k]
    <3>1. IsSeq(s) /\ IsSeq(t)
      BY <1>1
    <3> QED
      BY ONLY <3>1, ConcatIs
  <2> QED
    BY Zenon, <1>1, <2>1
<1> HIDE DEF st
<1>3. ASSUME NEW k \in 1..l PROVE st[k] = f[0 + k]
  <2>1. CASE k <= m
    <3>1. k \in 1..m
      BY ONLY <2>1, <1>1, k \in 1..l
    <3> QED
      BY Zenon, <1>1, <1>2, <3>1
  <2>2. CASE ~(k <= m)
    <3> DEFINE j == k - m
    <3>1. j \in 1..n /\ m + j = k /\ 0 + k = k
      BY ONLY <2>2, <1>1, k \in 1..l, l = m + n
    <3> HIDE DEF j
    <3> QED
      BY Zenon, <1>1, <1>2, <3>1
  <2> QED
    BY <2>1, <2>2
<1> QED
  BY <1>1, <1>2, <1>3 DEF Gives, st

\* So the kernel goes on as the writer meant it to.
LEMMA UnitRuns ==
  ASSUME ExecUnit, input \in Inputs, IsSeq(out.ctl.elems),
         NEW a, NEW u, NEW b, UnitOk(out, a, u, b), u.flag <= PatternsMax,
         RanTo(run, input, out.values, a)
  PROVE  RanTo(run', input, out.values, b) /\ Has(run', RunFields)
<1> DEFINE v == out.values
           cells == Cells(v, a.n, u.size)
           target == MirrorTarget(~u.nr, u.x - 1)
           size == u.size
<1>1. run' = UnitRun(u, b, cells, target)
  BY UnitDoes
<1>2. /\ a.n \in Nat /\ a.y \in Nat /\ size \in Nat /\ u.jmp \in Nat
      /\ b.n = a.n + size /\ b.y = a.y + u.jmp
  BY PowersAre DEF UnitOk, WrittenAt, UnitIs, StateIs, Pos, Numbers
<1>3. cells = [k \in 1..size |-> cells[k]] /\ \A k \in 1..size : cells[k] = v[a.n + k]
  BY DEF Cells
<1>4. run.y = a.y
  BY DEF RanTo
<1> DEFINE n == a.n
           y == a.y
           j == u.jmp
           bn == b.n
           by == b.y
           t0 == run.touched
           m0 == run.mirrored
           d0 == run.diagonal
           ms == MirrorsOf(cells, size, target)
           ds == Diagonals(y, j)
           f == [k \in 1..bn |-> v[k]]
           g == [k \in 1..bn |-> MirrorOf(input, v[k])]
           h == [k \in 1..by |-> k]
<1>5. /\ run'.at = b.at /\ run'.y = b.y /\ run'.x = b.x
      /\ run'.touched = t0 \o cells
      /\ ~input.symmetric => run'.mirrored = <<>>
      /\ input.symmetric => run'.mirrored = m0 \o ms /\ run'.diagonal = d0 \o ds
  <2> DEFINE sym == input.symmetric
             ur == [at |-> b.at, y |-> b.y, x |-> b.x, touched |-> t0 \o cells,
                    mirrored |-> IF sym THEN m0 \o ms ELSE <<>>,
                    diagonal |-> IF sym THEN d0 \o ds ELSE <<>>]
  <2>1. run' = ur
    BY Zenon, <1>1, <1>4 DEF UnitRun
  <2> HIDE DEF cells, ms, ds, sym, t0, m0, d0
  <2>2. /\ run'.at = b.at /\ run'.y = b.y /\ run'.x = b.x
        /\ run'.touched = t0 \o cells
        /\ ~sym => run'.mirrored = <<>>
        /\ sym => run'.mirrored = m0 \o ms /\ run'.diagonal = d0 \o ds
    BY <2>1
  <2> QED
    BY Zenon, <2>2 DEF sym
<1> DEFINE mirrored == IF input.symmetric THEN m0 \o ms ELSE <<>>
           diagonal == IF input.symmetric THEN d0 \o ds ELSE <<>>
           new == [at |-> b.at, y |-> b.y, x |-> b.x, touched |-> t0 \o cells,
                   mirrored |-> mirrored, diagonal |-> diagonal]
<1>17. Has(run', RunFields)
  <2>1. run' = new
    BY Zenon, <1>1, <1>4 DEF UnitRun
  <2> HIDE DEF mirrored, diagonal
  <2>2. Has(new, RunFields)
    BY DEF Has, RunFields
  <2> QED
    BY Zenon, <2>1, <2>2
<1> HIDE DEF new, mirrored, diagonal
<1>6. n \in Nat /\ y \in Nat /\ size \in Nat /\ j \in Nat /\ bn = n + size /\ by = y + j
  BY <1>2
<1>7. /\ IsSeq(t0) /\ Len(t0) = n /\ \A k \in 1..n : t0[k] = v[k]
      /\ input.symmetric =>
           /\ IsSeq(m0) /\ Len(m0) = n /\ \A k \in 1..n : m0[k] = MirrorOf(input, v[k])
           /\ IsSeq(d0) /\ Len(d0) = y /\ \A k \in 1..y : d0[k] = k
  BY DEF RanTo
<1>8. input.symmetric =>
        /\ ms = [k \in 1..size |-> ms[k]]
        /\ \A k \in 1..size : ms[k] = MirrorOf(input, v[n + k])
  <2> SUFFICES ASSUME input.symmetric
               PROVE  /\ ms = [k \in 1..size |-> ms[k]]
                      /\ \A k \in 1..size : ms[k] = MirrorOf(input, v[n + k])
    OBVIOUS
  <2>1. \A k \in 1..size : [to |-> target, at |-> Point(cells[k].x, cells[k].y)]
                             = MirrorOf(input, v[n + k])
    BY TargetIs
  <2>2. ms = [k \in 1..size |-> [to |-> target, at |-> Point(cells[k].x, cells[k].y)]]
    BY DEF MirrorsOf
  <2> HIDE DEF ms, target, cells, n, v, size
  <2> QED
    BY Zenon, <2>1, <2>2
<1>9. ds = [k \in 1..j |-> ds[k]] /\ \A k \in 1..j : ds[k] = y + k
  BY DEF Diagonals
<1>10. /\ \A k \in 1..bn : f[k] = v[k] /\ g[k] = MirrorOf(input, v[k])
       /\ \A k \in 1..by : h[k] = k
  OBVIOUS
<1> HIDE DEF n, y, j, bn, by, t0, m0, d0, ms, ds, f, g, h, cells, v, target, size
<1>11. /\ \A k \in 1..n : k \in 1..bn /\ 0 + k = k
       /\ \A k \in 1..size : n + k \in 1..bn
       /\ \A k \in 1..y : k \in 1..by /\ 0 + k = k
       /\ \A k \in 1..j : y + k \in 1..by
       /\ bn \in Nat /\ by \in Nat
  BY ONLY <1>6
<1>12. Gives(t0 \o cells, f, 0, bn)
  <2>1. Gives(t0, f, 0, n)
    BY Zenon, <1>6, <1>7, <1>10, <1>11, 0 \in Nat DEF Gives
  <2>2. IsSeq(cells) /\ Len(cells) = size
    BY <1>3, <1>6, FunctionIs
  <2>3. Gives(cells, f, n, size)
    BY Zenon, <1>3, <1>6, <1>10, <1>11, <2>2 DEF Gives, n
  <2> QED
    BY ONLY <1>6, <2>1, <2>3, GivesOn
<1>13. input.symmetric => Gives(m0 \o ms, g, 0, bn) /\ Gives(d0 \o ds, h, 0, by)
  <2> SUFFICES ASSUME input.symmetric
               PROVE  Gives(m0 \o ms, g, 0, bn) /\ Gives(d0 \o ds, h, 0, by)
    OBVIOUS
  <2>1. Gives(m0, g, 0, n) /\ Gives(d0, h, 0, y)
    BY Zenon, <1>6, <1>7, <1>10, <1>11, 0 \in Nat DEF Gives
  <2>2. IsSeq(ms) /\ Len(ms) = size /\ IsSeq(ds) /\ Len(ds) = j
    BY <1>6, <1>8, <1>9, FunctionIs
  <2>3. Gives(ms, g, n, size)
    BY Zenon, <1>6, <1>8, <1>10, <1>11, <2>2 DEF Gives
  <2>4. Gives(ds, h, y, j)
    BY Zenon, <1>6, <1>9, <1>10, <1>11, <2>2 DEF Gives
  <2> QED
    BY ONLY <1>6, <2>1, <2>3, <2>4, GivesOn
<1>14. ASSUME NEW s, NEW q, NEW l, Gives(s, q, 0, l), l \in Nat
       PROVE  IsSeq(s) /\ Len(s) = l /\ \A k \in 1..l : s[k] = q[k]
  <2>1. \A k \in 1..l : 0 + k = k
    BY <1>14
  <2> QED
    BY Zenon, <1>14, <2>1 DEF Gives
<1>15. IsSeq(run'.touched) /\ Len(run'.touched) = bn /\ \A k \in 1..bn : run'.touched[k] = v[k]
  <2> DEFINE s == t0 \o cells
  <2>1. IsSeq(s) /\ Len(s) = bn /\ \A k \in 1..bn : s[k] = f[k]
    BY Zenon, <1>11, <1>12, <1>14
  <2>2. run'.touched = s
    BY <1>5
  <2> HIDE DEF s
  <2> QED
    BY Zenon, <1>10, <2>1, <2>2
<1>16. input.symmetric =>
         /\ IsSeq(run'.mirrored) /\ Len(run'.mirrored) = bn
         /\ \A k \in 1..bn : run'.mirrored[k] = MirrorOf(input, v[k])
         /\ IsSeq(run'.diagonal) /\ Len(run'.diagonal) = by
         /\ \A k \in 1..by : run'.diagonal[k] = k
  <2> SUFFICES ASSUME input.symmetric
               PROVE  /\ IsSeq(run'.mirrored) /\ Len(run'.mirrored) = bn
                      /\ \A k \in 1..bn : run'.mirrored[k] = MirrorOf(input, v[k])
                      /\ IsSeq(run'.diagonal) /\ Len(run'.diagonal) = by
                      /\ \A k \in 1..by : run'.diagonal[k] = k
    OBVIOUS
  <2> DEFINE s == m0 \o ms
             q == d0 \o ds
  <2>1. IsSeq(s) /\ Len(s) = bn /\ \A k \in 1..bn : s[k] = g[k]
    BY Zenon, <1>11, <1>13, <1>14
  <2>2. IsSeq(q) /\ Len(q) = by /\ \A k \in 1..by : q[k] = h[k]
    BY Zenon, <1>11, <1>13, <1>14
  <2>3. run'.mirrored = s /\ run'.diagonal = q
    BY <1>5
  <2> HIDE DEF s, q
  <2> QED
    BY Zenon, <1>10, <2>1, <2>2, <2>3
<1> QED
  BY Zenon, <1>5, <1>15, <1>16, <1>17 DEF RanTo, v, bn, by

\* The values of all elements are the entries, each once.
ValuesAre(vals, entries) ==
  /\ \A h \in 1..Len(vals) : vals[h] \in entries
  /\ \A e \in entries : \E h \in 1..Len(vals) : vals[h] = e
  /\ \A h, k \in 1..Len(vals) : vals[h] = vals[k] => h = k

\* The values that are written are the entries, each once.
LEMMA AllValues ==
  ASSUME IsSeq(spm.elems), NEW entries, NewHold(spm.elems, entries),
         NEW vals, ValuesOf(vals, Len(spm.elems))
  PROVE  IsSeq(vals) /\ ValuesAre(vals, entries)
<1> DEFINE n == Len(spm.elems)
           rows == ItemVals
           end == RowEnds(rows)
           it(k) == spm.elems[k].item
           items == {it(k) : k \in 1..n}
           size(k) == it(k).pattern.size
<1>1. ItemsHold(items, entries) /\ \A j, k \in 1..n : it(j) = it(k) => j = k
  BY DEF NewHold
<1>2. n \in Nat /\ IsSeq(vals) /\ Len(vals) = end[n]
      /\ \A k \in 1..n : HasBytes(vals, end[k - 1] + 1, it(k).vals)
  BY DEF ValuesOf, IsSeq
<1>3. rows = [k \in 1..n |-> it(k).vals]
  BY DEF ItemVals
<1>4. ASSUME NEW k \in 1..n PROVE size(k) \in Nat /\ Len(it(k).vals) = size(k) /\ it(k) \in items
  <2> DEFINE a == it(k)
  <2>1. a \in items
    OBVIOUS
  <2>2. a.pattern.size \in Pos /\ a.vals = Reached(a.pattern, a.vals[1])
    BY Zenon, <1>1, <2>1 DEF ItemsHold, ItemIs
  <2> DEFINE p == a.pattern
             v == a.vals[1]
  <2> HIDE DEF p, v
  <2>3. p.size \in Nat => Len(Reached(p, v)) = p.size
    BY DEF Reached
  <2>4. p.size \in Nat
    BY <2>2 DEF p, Pos
  <2> QED
    BY Zenon, <2>1, <2>2, <2>3, <2>4 DEF p, v
<1> HIDE DEF n, it, items
<1>5. Len(rows) = n /\ \A k \in 1..n : rows[k] = it(k).vals
  BY <1>2, <1>3
<1> HIDE DEF rows, end, size
<1>6. EndsOfRows(end, rows)
  <2>1. Len(rows) \in Nat /\ \A k \in 1..Len(rows) : Len(rows[k]) \in Nat
    BY <1>2, <1>4, <1>5
  <2> QED
    BY <2>1, RowEndsAre DEF end
<1>7. /\ end[0] = 0 /\ \A i \in 0..n : end[i] \in Nat
      /\ \A i \in 1..n : end[i] = end[i - 1] + size(i)
      /\ \A k \in 1..end[n] : \E i \in 1..n : end[i - 1] < k /\ k <= end[i]
      /\ \A i \in 0..n : end[i] <= end[n]
  <2>1. /\ end[0] = 0 /\ \A i \in 0..n : end[i] \in Nat
        /\ \A i \in 1..n : end[i] = end[i - 1] + Len(rows[i])
        /\ \A i, j \in 0..n : i <= j => end[i] <= end[j]
        /\ \A k \in 1..end[n] : \E i \in 1..n : end[i - 1] < k /\ k <= end[i]
    BY Zenon, <1>5, <1>6 DEF EndsOfRows
  <2>2. \A i \in 1..n : end[i] = end[i - 1] + size(i)
    BY Zenon, <1>4, <1>5, <2>1
  <2>3. \A i \in 0..n : end[i] <= end[n]
    BY <1>2, <2>1
  <2> QED
    BY Zenon, <2>1, <2>2, <2>3
\* The place of a value, and the value at a place.
<1>8. ASSUME NEW i \in 1..n, NEW j \in 1..size(i)
      PROVE  end[i - 1] + j \in 1..Len(vals) /\ vals[end[i - 1] + j] = it(i).vals[j]
  <2> DEFINE e == end[i - 1]
             f == end[i]
             z == end[n]
             w == it(i).vals
             c == size(i)
  <2>1. i - 1 \in 0..n /\ i \in 0..n
    BY <1>2
  <2>2. e \in Nat /\ f \in Nat /\ z \in Nat /\ f = e + c /\ f <= z /\ c \in Nat
    BY <1>2, <1>4, <1>7, <2>1
  <2>3. HasBytes(vals, e + 1, w) /\ Len(w) = c /\ Len(vals) = z
    BY <1>2, <1>4
  <2>4. j \in 1..c
    OBVIOUS
  <2> HIDE DEF e, f, z, w, c
  <2>5. e + j \in 1..z /\ (e + 1) + j - 1 = e + j
    BY ONLY <2>2, <2>4
  <2>6. vals[(e + 1) + j - 1] = w[j]
    BY <2>3, <2>4 DEF HasBytes
  <2> QED
    BY Zenon, <2>3, <2>5, <2>6 DEF e, w
<1>9. ASSUME NEW h \in 1..Len(vals)
      PROVE  \E i \in 1..n : \E j \in 1..size(i) : h = end[i - 1] + j
  <2>1. PICK i \in 1..n : end[i - 1] < h /\ h <= end[i]
    BY Zenon, <1>2, <1>7
  <2> DEFINE e == end[i - 1]
             f == end[i]
             c == size(i)
             j == h - e
  <2>2. e \in Nat /\ f = e + c /\ c \in Nat /\ e < h /\ h <= f /\ h \in Int
    <3>1. i - 1 \in 0..n /\ h \in Int
      BY <1>2
    <3> QED
      BY <1>4, <1>7, <2>1, <3>1
  <2> HIDE DEF e, f, c
  <2>3. j \in 1..c /\ h = e + j
    BY ONLY <2>2
  <2> QED
    BY Zenon, <2>3 DEF e, c
<1>10. /\ \A i \in 1..n : \A j \in 1..size(i) : it(i).vals[j] \in entries
       /\ \A e \in entries : \E i \in 1..n : \E j \in 1..size(i) : it(i).vals[j] = e
       /\ \A i, k \in 1..n : \A j \in 1..size(i), m \in 1..size(k) :
            it(i).vals[j] = it(k).vals[m] => i = k /\ j = m
  <2>1. /\ \A a \in items : \A j \in 1..a.pattern.size : a.vals[j] \in entries
        /\ \A e \in entries : \E a \in items : \E j \in 1..a.pattern.size : a.vals[j] = e
        /\ \A a, b \in items : \A i \in 1..a.pattern.size, j \in 1..b.pattern.size :
             a.vals[i] = b.vals[j] => a = b /\ i = j
    BY Zenon, <1>1 DEF ItemsHold
  <2>2. \A i \in 1..n : \A j \in 1..size(i) : it(i).vals[j] \in entries
    BY Zenon, <1>4, <2>1 DEF size
  <2>3. ASSUME NEW e \in entries PROVE \E i \in 1..n : \E j \in 1..size(i) : it(i).vals[j] = e
    <3>1. PICK a \in items : \E j \in 1..a.pattern.size : a.vals[j] = e
      BY Zenon, <2>1
    <3>2. PICK i \in 1..n : a = it(i)
      BY Zenon DEF items
    <3> QED
      BY Zenon, <3>1, <3>2 DEF size
  <2>4. ASSUME NEW i \in 1..n, NEW k \in 1..n, NEW j \in 1..size(i), NEW m \in 1..size(k),
               it(i).vals[j] = it(k).vals[m]
        PROVE  i = k /\ j = m
    <3> DEFINE a == it(i)
               b == it(k)
    <3>1. /\ a \in items /\ b \in items /\ j \in 1..a.pattern.size /\ m \in 1..b.pattern.size
          /\ a.vals[j] = b.vals[m]
      BY Zenon, <1>4, <2>4 DEF size
    <3> HIDE DEF a, b
    <3>2. a = b /\ j = m
      BY <2>1, <3>1
        <3> QED
      BY Zenon, <1>1, <3>2 DEF a, b
  <2> QED
    BY Zenon, <2>2, <2>3, <2>4
<1>11. \A h \in 1..Len(vals) : vals[h] \in entries
  <2> TAKE h \in 1..Len(vals)
  <2>1. PICK i \in 1..n : \E j \in 1..size(i) : h = end[i - 1] + j
    BY Zenon, <1>9
  <2>2. PICK j \in 1..size(i) : h = end[i - 1] + j
    BY Zenon, <2>1
  <2>3. vals[h] = it(i).vals[j]
    BY Zenon, <1>8, <2>2
  <2> QED
    BY Zenon, <1>10, <2>3
<1>12. \A e \in entries : \E h \in 1..Len(vals) : vals[h] = e
  <2> TAKE e \in entries
  <2>1. PICK i \in 1..n : \E j \in 1..size(i) : it(i).vals[j] = e
    BY Zenon, <1>10
  <2>2. PICK j \in 1..size(i) : it(i).vals[j] = e
    BY Zenon, <2>1
  <2>3. end[i - 1] + j \in 1..Len(vals) /\ vals[end[i - 1] + j] = e
    BY Zenon, <1>8, <2>2
  <2> QED
    BY Zenon, <2>3
<1>13. ASSUME NEW h \in 1..Len(vals), NEW k \in 1..Len(vals), vals[h] = vals[k] PROVE h = k
  <2>1. PICK i \in 1..n : \E j \in 1..size(i) : h = end[i - 1] + j
    BY Zenon, <1>9
  <2>2. PICK j \in 1..size(i) : h = end[i - 1] + j
    BY Zenon, <2>1
  <2>3. PICK l \in 1..n : \E m \in 1..size(l) : k = end[l - 1] + m
    BY Zenon, <1>9
  <2>4. PICK m \in 1..size(l) : k = end[l - 1] + m
    BY Zenon, <2>3
  <2>5. it(i).vals[j] = it(l).vals[m]
    BY Zenon, <1>8, <1>13, <2>2, <2>4
  <2> QED
    BY Zenon, <1>10, <2>2, <2>4, <2>5
<1> QED
  BY Zenon, <1>2, <1>11, <1>12, <1>13 DEF ValuesAre

-----------------------------------------------------------------------------
(***************************************************************************)
(* What holds between the steps of writing and of multiplying.             *)
(***************************************************************************)

\* What is written for a unit does not change by itself.
LEMMA UnitSame ==
  ASSUME NEW o, NEW a, NEW u, NEW b, UnitOk(o, a, u, b), input' = input, full' = full
  PROVE  UnitOk(o, a, u, b)'
<1>1. UnitIs(u)' <=> UnitIs(u)
  BY Zenon DEF UnitIs
<1>2. ASSUME NEW col PROVE HeadOf(u, col)' = HeadOf(u, col)
  BY Zenon DEF HeadOf, ColBytes
<1>3. ASSUME NEW to PROVE WrittenAt(o, a, u, to)' <=> WrittenAt(o, a, u, to)
  BY Zenon, <1>1, <1>2 DEF WrittenAt
<1>4. ASSUME NEW vals, NEW n PROVE UnitSides(vals, n, u)' <=> UnitSides(vals, n, u)
  BY Zenon DEF UnitSides
<1> QED
  BY Zenon, <1>3, <1>4 DEF UnitOk

\* Nor what is written for many.
LEMMA TraceSame ==
  ASSUME NEW o, NEW us, NEW states, Trace(o, us, states), input' = input, full' = full
  PROVE  Trace(o, us, states)'
<1>1. ASSUME NEW j \in 1..Len(us) PROVE UnitOk(o, states[j], us[j], states[j + 1])'
  <2>1. UnitOk(o, states[j], us[j], states[j + 1])
    BY DEF Trace
  <2> QED
    BY <2>1, UnitSame
<1> QED
  BY Zenon, <1>1 DEF Trace

\* Nor what is written of the matrix.
LEMMA BoundarySame ==
  ASSUME NEW o, NEW r, NEW m, Boundary(o, r, m), spm' = spm, input' = input, full' = full
  PROVE  Boundary(o, r, m)'
<1>1. ASSUME NEW a, Traced(o, a) PROVE Traced(o, a)'
  <2>1. PICK us, states : Trace(o, us, states) /\ states[Len(us) + 1] = a
    BY <1>1 DEF Traced
  <2>2. Trace(o, us, states)'
    BY <2>1, TraceSame
  <2> QED
    BY Zenon, <2>1, <2>2 DEF Traced
<1>2. ASSUME NEW vals, ValuesOf(vals, m) PROVE ValuesOf(vals, m)'
  <2>1. ItemVals' = ItemVals
    BY Zenon DEF ItemVals
  <2> QED
    BY Zenon, <1>2, <2>1 DEF ValuesOf
<1> QED
  BY Zenon, <1>1, <1>2 DEF Boundary

\* The rows written so far, and the kernel's locals between two units: the units lead
\* it through all bytes.
WrittenRows == Boundary(out, row, spm.rowptr[row + 1])

KernelAt(o, r) ==
  \E us, states :
    /\ Trace(o, us, states) /\ states[Len(us) + 1].at = Len(o.ctl.elems) + 1
    /\ states[Len(us) + 1].n = Len(o.values) /\ states[Len(us) + 1].y <= GetNrRows(spm)
    /\ \E j \in 1..(Len(us) + 1) : RanTo(r, input, o.values, states[j])
KernelBetweenUnits == KernelAt(out, run)

\* So for the manager's fields as they are in a state.
RowsWrittenAs ==
  \A o, r, m :
    out = o /\ row = r /\ spm.rowptr[row + 1] = m /\ Boundary(o, r, m) => WrittenRows

\* What is written of the manager's fields is what WrittenRows says.
LEMMA RowsAsWritten == RowsWrittenAs
BY DEF RowsWrittenAs, WrittenRows

KernelGoesAs == \A o, r : out = o /\ run = r /\ KernelAt(o, r) => KernelBetweenUnits

\* So for the fields of the kernel's run.
LEMMA KernelAsIs == KernelGoesAs
BY DEF KernelGoesAs, KernelBetweenUnits

\* The rows stay written in the step that wrote the last of them.
LEMMA RowsStayWritten ==
  ASSUME Boundary(out', row', spm.rowptr[row' + 1]), spm' = spm, input' = input, full' = full
  PROVE  WrittenRows'
<1>1. PICK o : o = out'
  OBVIOUS
<1>2. PICK r : r = row'
  OBVIOUS
<1>3. PICK m : m = spm.rowptr[row' + 1]
  OBVIOUS
<1>4. Boundary(o, r, m)'
  <2>1. Boundary(o, r, m)
    BY <1>1, <1>2, <1>3
  <2> QED
    BY <2>1, BoundarySame
<1>5. RowsWrittenAs'
  BY RowsAsWritten, PTL
<1> QED
  BY Zenon, <1>1, <1>2, <1>3, <1>4, <1>5 DEF RowsWrittenAs

\* The kernel stays between units in the step that led it there.
LEMMA KernelStays ==
  ASSUME KernelAt(out', run'), spm' = spm, input' = input, full' = full
  PROVE  KernelBetweenUnits'
<1>1. PICK o : o = out'
  OBVIOUS
<1>2. PICK r : r = run'
  OBVIOUS
<1>3. KernelAt(o, r)'
  <2>1. KernelAt(o, r)
    BY <1>1, <1>2
  <2>2. PICK us : \E states :
          /\ Trace(o, us, states) /\ states[Len(us) + 1].at = Len(o.ctl.elems) + 1
          /\ states[Len(us) + 1].n = Len(o.values) /\ states[Len(us) + 1].y <= GetNrRows(spm)
          /\ \E j \in 1..(Len(us) + 1) : RanTo(r, input, o.values, states[j])
    BY Zenon, <2>1 DEF KernelAt
  <2>3. PICK states :
          /\ Trace(o, us, states) /\ states[Len(us) + 1].at = Len(o.ctl.elems) + 1
          /\ states[Len(us) + 1].n = Len(o.values) /\ states[Len(us) + 1].y <= GetNrRows(spm)
          /\ \E j \in 1..(Len(us) + 1) : RanTo(r, input, o.values, states[j])
    BY Zenon, <2>2
  <2>4. Trace(o, us, states)'
    BY <2>3, TraceSame
  <2> QED
    BY Zenon, <2>3, <2>4 DEF KernelAt
<1>4. KernelGoesAs'
  BY KernelAsIs, PTL
<1> QED
  BY Zenon, <1>1, <1>2, <1>3, <1>4 DEF KernelGoesAs

\* The states that units lead through, and where units and the last state are.
StatesAre(o, us, states) ==
  /\ Len(us) \in Nat
  /\ \A j \in 1..(Len(us) + 1) : StateIs(states[j])
  /\ \A j \in 1..Len(us) : states[j].at <= Len(o.ctl.elems)

\* The states of a trace are the kernel's, and each unit begins within the ctl.
LEMMA TraceStates ==
  ASSUME NEW o, IsSeq(o.ctl.elems), NEW us, NEW states, Trace(o, us, states)
  PROVE  StatesAre(o, us, states)
<1> DEFINE n == Len(us)
           l == Len(o.ctl.elems)
<1>1. n \in Nat /\ l \in Nat /\ states[1] = StartState
      /\ \A j \in 1..n : UnitOk(o, states[j], us[j], states[j + 1])
  BY DEF Trace, IsSeq
<1>2. \A j \in 1..n : StateIs(states[j]) /\ StateIs(states[j + 1])
  BY <1>1 DEF UnitOk
<1>3. StateIs(states[1])
  <2> DEFINE a == states[1]
  <2>1. a = StartState
    BY <1>1
  <2> HIDE DEF a
  <2>2. a.at = 1 /\ a.y = 0 /\ a.x = 0 /\ a.n = 0
    BY <2>1 DEF StartState
  <2>3. a.at \in Pos /\ a.y \in Nat /\ a.x \in Nat /\ a.n \in Nat
    BY <2>2 DEF Pos
  <2> QED
    BY Zenon, <2>3 DEF StateIs, a
<1>4. ASSUME NEW j \in 1..(n + 1) PROVE StateIs(states[j])
  <2>1. CASE j = 1
    BY Zenon, <1>3, <2>1
  <2>2. CASE j # 1
    <3> DEFINE k == j - 1
    <3>1. k \in 1..n /\ k + 1 = j
      BY ONLY <1>1, <2>2, j \in 1..(n + 1)
    <3> HIDE DEF k
    <3> QED
      BY Zenon, <1>2, <3>1
  <2> QED
    BY <2>1, <2>2
<1>5. ASSUME NEW j \in 1..n PROVE states[j].at <= l
  <2> DEFINE at == states[j].at
             to == states[j + 1].at
  <2>1. at \in Pos /\ to \in Pos /\ at + 2 <= to /\ to - 1 <= l
    BY <1>1, <1>2 DEF UnitOk, StateIs, WrittenAt
  <2> HIDE DEF at, to, l
  <2>2. at <= l
    BY ONLY <1>1, <2>1 DEF Pos
  <2> QED
    BY <2>2 DEF at
<1> QED
  BY <1>1, <1>4, <1>5 DEF StatesAre

\* When all rows are written the kernel can start.
LEMMA KernelStarts ==
  ASSUME PartsInv, MadeSpm, row = GetNrRows(spm), WrittenRows, run = NewRun
  PROVE  /\ KernelAt(out, run) /\ OutIs(out)
         /\ IsSeq(out.values) /\ ValuesAre(out.values, input.entries)
<1>1. Writable /\ NewHold(spm.elems, input.entries)
  BY SpmMade DEF SpmIs
<1> DEFINE n == GetNrRows(spm)
           m == spm.rowptr[n + 1]
<1>2. n \in Nat /\ IsSeq(spm.elems) /\ m = Len(spm.elems)
  BY <1>1 DEF Writable
<1>3. PICK a : /\ OutIs(out) /\ Traced(out, a) /\ StateIs(a)
               /\ a.at = Len(out.ctl.elems) + 1 /\ a.n = Len(out.values)
               /\ n = IF out.newRow THEN a.y + out.emptyRows + 1 ELSE a.y
               /\ ValuesOf(out.values, m)
  BY DEF WrittenRows, Boundary
<1>4. IsSeq(out.values) /\ ValuesAre(out.values, input.entries)
  <2>1. ValuesOf(out.values, Len(spm.elems))
    BY <1>2, <1>3
  <2> QED
    BY <1>1, <1>2, <2>1, AllValues
<1>5. a.y <= n
  <2> DEFINE y == a.y
             e == out.emptyRows
  <2>1. y \in Nat /\ e \in Nat
    BY <1>3 DEF StateIs, OutIs
  <2>2. n = y + e + 1 \/ n = y
    BY <1>3
  <2> HIDE DEF y, e, n
  <2>3. y <= n
    BY ONLY <2>1, <2>2
  <2> QED
    BY <2>3 DEF y
<1>6. PICK us : \E states : Trace(out, us, states) /\ states[Len(us) + 1] = a
  BY <1>3 DEF Traced
<1>7. PICK states : Trace(out, us, states) /\ states[Len(us) + 1] = a
  BY <1>6
<1>8. states[1] = StartState /\ 1 \in 1..(Len(us) + 1)
  BY <1>7 DEF Trace, IsSeq
<1>9. RanTo(run, input, out.values, states[1])
  <2>1. IsSeq(<<>>) /\ Len(<<>>) = 0 /\ \A k : k \notin 1..0
    BY DEF IsSeq
  <2> DEFINE s == states[1]
  <2>2. s.at = 1 /\ s.y = 0 /\ s.x = 0 /\ s.n = 0
    BY <1>8 DEF StartState
  <2>3. run.at = 1 /\ run.y = 0 /\ run.x = 0 /\ run.touched = <<>> /\ run.mirrored = <<>>
        /\ run.diagonal = <<>>
    BY DEF NewRun
  <2> HIDE DEF s
  <2>4. RanTo(run, input, out.values, s)
    BY <2>1, <2>2, <2>3 DEF RanTo
  <2> QED
    BY <2>4 DEF s
<1> QED
  BY Zenon, <1>3, <1>4, <1>5, <1>7, <1>8, <1>9 DEF KernelAt

\* A unit executed is a unit the kernel was led through.
LEMMA KernelGoesOn ==
  ASSUME ExecUnit, input \in Inputs, KernelAt(out, run), OutIs(out),
         Len(out.patterns) <= PatternsMax + 1
  PROVE  KernelAt(out', run') /\ Has(run', RunFields)
<1>1. PICK us : \E states :
        /\ Trace(out, us, states) /\ states[Len(us) + 1].at = Len(out.ctl.elems) + 1
        /\ states[Len(us) + 1].n = Len(out.values) /\ states[Len(us) + 1].y <= GetNrRows(spm)
        /\ \E j \in 1..(Len(us) + 1) : RanTo(run, input, out.values, states[j])
  BY Zenon DEF KernelAt
<1>2. PICK states :
        /\ Trace(out, us, states) /\ states[Len(us) + 1].at = Len(out.ctl.elems) + 1
        /\ states[Len(us) + 1].n = Len(out.values) /\ states[Len(us) + 1].y <= GetNrRows(spm)
        /\ \E j \in 1..(Len(us) + 1) : RanTo(run, input, out.values, states[j])
  BY Zenon, <1>1
<1>3. PICK j \in 1..(Len(us) + 1) : RanTo(run, input, out.values, states[j])
  BY <1>2
<1> DEFINE n == Len(us)
           l == Len(out.ctl.elems)
           p == Len(out.patterns)
<1>4. IsSeq(out.ctl.elems) /\ IsSeq(out.patterns)
  BY DEF OutIs, DaIs
<1>5. n \in Nat /\ l \in Nat /\ p \in Nat
  BY <1>2, <1>4, TraceStates DEF StatesAre, IsSeq
<1>6. run.at <= l /\ run.at = states[j].at
  BY <1>3 DEF ExecUnit, RanTo
<1>7. j \in 1..n
  <2>1. states[n + 1].at = l + 1
    BY <1>2
  <2>2. j # n + 1
    <3> SUFFICES ASSUME j = n + 1 PROVE FALSE
      OBVIOUS
    <3>1. l + 1 <= l
      BY Zenon, <1>6, <2>1
    <3> HIDE DEF l
    <3> QED
      BY ONLY <1>5, <3>1
  <2> HIDE DEF n, l
  <2>3. j \in 1..(n + 1)
    BY DEF n
  <2> QED
    BY ONLY <1>5, <2>2, <2>3
<1>8. UnitOk(out, states[j], us[j], states[j + 1])
  BY <1>2, <1>7 DEF Trace
<1>9. us[j].flag <= PatternsMax
  <2> DEFINE f == us[j].flag
  <2>1. f + 1 \in 1..p /\ f \in Nat
    BY <1>8 DEF UnitOk, WrittenAt, UnitIs
  <2>2. p <= PatternsMax + 1 /\ PatternsMax \in Nat
    BY PatternsAssumption
  <2> HIDE DEF f, p
  <2>3. f <= PatternsMax
    BY ONLY <1>5, <2>1, <2>2
  <2> QED
    BY <2>3 DEF f
<1> DEFINE b == states[j + 1]
           u == us[j]
           a == states[j]
<1>10. RanTo(run', input, out.values, b) /\ Has(run', RunFields)
  BY ONLY ExecUnit, input \in Inputs, <1>3, <1>4, <1>8, <1>9, UnitRuns
<1>11. j + 1 \in 1..(n + 1)
  BY <1>5, <1>7
<1>12. out' = out
  BY DEF ExecUnit
<1> QED
  BY Zenon, <1>2, <1>10, <1>11, <1>12 DEF KernelAt

\* The first n values are multiplied.
Multiplied(r, in, vals, n) ==
  /\ n <= Len(vals)
  /\ IsSeq(r.touched) /\ Len(r.touched) = n /\ \A k \in 1..n : r.touched[k] = vals[k]
  /\ ~in.symmetric => r.mirrored = <<>>
  /\ in.symmetric =>
       /\ IsSeq(r.mirrored) /\ Len(r.mirrored) = n
       /\ \A k \in 1..n : r.mirrored[k] = MirrorOf(in, vals[k])

\* The kernel between two units has multiplied some of the values.
LEMMA SomeMultiplied ==
  ASSUME KernelAt(out, run), OutIs(out)
  PROVE  \E n : Multiplied(run, input, out.values, n)
<1>1. PICK us : \E states :
        /\ Trace(out, us, states) /\ states[Len(us) + 1].at = Len(out.ctl.elems) + 1
        /\ states[Len(us) + 1].n = Len(out.values) /\ states[Len(us) + 1].y <= GetNrRows(spm)
        /\ \E j \in 1..(Len(us) + 1) : RanTo(run, input, out.values, states[j])
  BY Zenon DEF KernelAt
<1>2. PICK states :
        /\ Trace(out, us, states) /\ states[Len(us) + 1].at = Len(out.ctl.elems) + 1
        /\ states[Len(us) + 1].n = Len(out.values) /\ states[Len(us) + 1].y <= GetNrRows(spm)
        /\ \E j \in 1..(Len(us) + 1) : RanTo(run, input, out.values, states[j])
  BY Zenon, <1>1
<1>3. PICK j \in 1..(Len(us) + 1) : RanTo(run, input, out.values, states[j])
  BY <1>2
<1> DEFINE n == Len(us)
           v == Len(out.values)
<1>4. IsSeq(out.ctl.elems) /\ IsSeq(out.values)
  BY DEF OutIs, DaIs
<1>5. n \in Nat /\ v \in Nat /\ StateIs(states[j])
  BY <1>2, <1>4, TraceStates DEF StatesAre, IsSeq
<1>6. states[j].n <= v
  <2>1. CASE j = n + 1
    <3>1. states[j].n = v
      BY Zenon, <1>2, <2>1
    <3> HIDE DEF v
    <3> QED
      BY <1>5, <3>1
  <2>2. CASE j # n + 1
    <3> HIDE DEF n
    <3>1. j \in 1..n
      <4>1. j \in 1..(n + 1)
        BY DEF n
      <4> QED
        BY ONLY <1>5, <2>2, <4>1
    <3>2. UnitOk(out, states[j], us[j], states[j + 1])
      BY Zenon, <1>2, <3>1 DEF Trace, n
    <3> DEFINE a == states[j].n
               b == states[j + 1].n
               size == us[j].size
    <3>3. a \in Nat /\ size \in Nat /\ b = a + size /\ b <= v
      BY <3>2 DEF UnitOk, StateIs, WrittenAt, UnitIs, Pos
    <3> HIDE DEF a, b, size, v
    <3>4. a <= v
      BY ONLY <1>5, <3>3
    <3> QED
      BY <3>4 DEF a
  <2> QED
    BY <2>1, <2>2
<1> DEFINE m == states[j].n
<1>7. Multiplied(run, input, out.values, m)
  BY Zenon, <1>3, <1>6 DEF RanTo, Multiplied
<1> QED
  BY <1>7

\* Where the kernel ends.
EndsIn(a) ==
  /\ RanTo(run, input, out.values, a) /\ a.n = Len(out.values)
  /\ a.y \in Nat /\ a.y <= GetNrRows(spm)

\* A kernel that has read the whole ctl is at the last state of the trace.
LEMMA KernelEnds ==
  ASSUME KernelAt(out, run), OutIs(out), run.at > Len(out.ctl.elems)
  PROVE  \E a : EndsIn(a)
<1>1. PICK us : \E states :
        /\ Trace(out, us, states) /\ states[Len(us) + 1].at = Len(out.ctl.elems) + 1
        /\ states[Len(us) + 1].n = Len(out.values) /\ states[Len(us) + 1].y <= GetNrRows(spm)
        /\ \E j \in 1..(Len(us) + 1) : RanTo(run, input, out.values, states[j])
  BY Zenon DEF KernelAt
<1>2. PICK states :
        /\ Trace(out, us, states) /\ states[Len(us) + 1].at = Len(out.ctl.elems) + 1
        /\ states[Len(us) + 1].n = Len(out.values) /\ states[Len(us) + 1].y <= GetNrRows(spm)
        /\ \E j \in 1..(Len(us) + 1) : RanTo(run, input, out.values, states[j])
  BY Zenon, <1>1
<1>3. PICK j \in 1..(Len(us) + 1) : RanTo(run, input, out.values, states[j])
  BY <1>2
<1> DEFINE n == Len(us)
           l == Len(out.ctl.elems)
<1>4. IsSeq(out.ctl.elems)
  BY DEF OutIs, DaIs
<1>5. /\ n \in Nat /\ l \in Nat /\ StateIs(states[j])
      /\ \A k \in 1..n : states[k].at <= l
  BY <1>2, <1>4, TraceStates DEF StatesAre, IsSeq
<1>6. j = n + 1
  <2>1. run.at = states[j].at /\ run.at > l
    BY <1>3 DEF RanTo
  <2> DEFINE at == states[j].at
  <2>2. at \in Pos /\ at > l
    BY <1>5, <2>1 DEF StateIs
  <2>3. j \in 1..n => at <= l
    BY <1>5
  <2>4. j \in 1..(n + 1)
    OBVIOUS
  <2> HIDE DEF at, l, n
  <2> QED
    BY ONLY <1>5, <2>2, <2>3, <2>4 DEF Pos
<1>7. states[j].n = Len(out.values) /\ states[j].y <= GetNrRows(spm)
  BY Zenon, <1>2, <1>6
<1> DEFINE a == states[j]
<1>8. EndsIn(a)
  BY Zenon, <1>3, <1>5, <1>7 DEF EndsIn, StateIs
<1> QED
  BY <1>8

\* The kernel has multiplied everything, the diagonal as well.
AllMultiplied(r, in, vals, rows) ==
  /\ Multiplied(r, in, vals, Len(vals))
  /\ in.symmetric => r.diagonal = [k \in 1..rows |-> k]

\* FinishKernel leaves nothing out: a symmetric kernel has run the diagonal to its end.
LEMMA KernelDone ==
  ASSUME FinishKernel, KernelAt(out, run), OutIs(out), Has(run, RunFields),
         input \in Inputs, GetNrRows(spm) \in Nat, input.symmetric => spm.nrRows = GetNrRows(spm)
  PROVE  AllMultiplied(run', input, out.values, spm.nrRows) /\ Has(run', RunFields)
<1>1. run.at > Len(out.ctl.elems)
  BY DEF FinishKernel
<1>2. PICK a : EndsIn(a)
  BY <1>1, KernelEnds
<1> DEFINE v == out.values
           n == Len(v)
<1>3. Multiplied(run, input, v, n)
  <2>1. n \in Nat
    BY DEF OutIs, IsSeq
  <2>2. n <= n
    <3> HIDE DEF n
    <3> QED
      BY <2>1
  <2> QED
    BY Zenon, <1>2, <2>2 DEF EndsIn, RanTo, Multiplied
<1>4. CASE ~input.symmetric
  <2>1. run' = run
    BY <1>4 DEF FinishKernel
  <2> QED
    BY Zenon, <1>3, <1>4, <2>1 DEF AllMultiplied
<1>5. CASE input.symmetric
  <2> DEFINE rows == spm.nrRows
             y == a.y
             d == run.diagonal
             ds == Diagonals(y, rows - y)
             f == [k \in 1..rows |-> k]
             m == rows - y
  <2>1. run' = [run EXCEPT !.diagonal = d \o ds]
    <3>1. run.y = y
      BY <1>2 DEF EndsIn, RanTo
    <3> QED
      BY Zenon, <1>5, <3>1 DEF FinishKernel
  <2>2. rows \in Nat /\ y \in Nat /\ y <= rows
    BY <1>2, <1>5 DEF EndsIn
  <2>3. IsSeq(d) /\ Len(d) = y /\ \A k \in 1..y : d[k] = k
    BY <1>2, <1>5 DEF EndsIn, RanTo
  <2>4. ds = [k \in 1..m |-> ds[k]] /\ \A k \in 1..m : ds[k] = y + k
    BY DEF Diagonals
  <2>5. \A k \in 1..rows : f[k] = k
    OBVIOUS
  <2> HIDE DEF rows, y, d, ds, f
  <2>6. m \in Nat /\ rows = y + m
    BY <2>2
  <2> HIDE DEF m
  <2>7. /\ \A k \in 1..y : k \in 1..rows /\ 0 + k = k
        /\ \A k \in 1..m : y + k \in 1..rows
        /\ \A k \in 1..rows : 0 + k = k
    BY ONLY <2>2, <2>6
  <2>8. Gives(d, f, 0, y)
    BY Zenon, <2>3, <2>5, <2>7, 0 \in Nat DEF Gives
  <2>9. Gives(ds, f, y, m)
    <3>1. IsSeq(ds) /\ Len(ds) = m
      BY <2>4, <2>6, FunctionIs
    <3> QED
      BY Zenon, <2>2, <2>4, <2>5, <2>7, <3>1 DEF Gives
  <2> DEFINE s == d \o ds
  <2>10. Gives(s, f, 0, rows)
    BY ONLY <2>6, <2>8, <2>9, GivesOn
  <2> HIDE DEF s
  <2>11. s = [k \in 1..rows |-> s[k]] /\ \A k \in 1..rows : s[k] = k
    BY Zenon, <2>5, <2>7, <2>10 DEF Gives, IsSeq
  <2>12. s = f
    BY <2>11 DEF f
  <2>13. /\ run'.at = run.at /\ run'.touched = run.touched /\ run'.mirrored = run.mirrored
         /\ run'.diagonal = s /\ Has(run', RunFields)
    <3>1. run' = [run EXCEPT !.diagonal = s]
      BY <2>1 DEF s, d
    <3> DEFINE t == run'
               q == run
    <3>2. Has(q, RunFields) /\ t = [q EXCEPT !.diagonal = s]
      BY <3>1
    <3> HIDE DEF q, t
    <3>3. /\ t.at = q.at /\ t.touched = q.touched /\ t.mirrored = q.mirrored
          /\ t.diagonal = s /\ Has(t, RunFields)
      BY <3>2 DEF Has, RunFields
    <3> QED
      BY <3>3 DEF t, q
  <2>14. Multiplied(run', input, v, n)
    BY Zenon, <1>3, <2>13 DEF Multiplied
  <2> QED
    BY Zenon, <2>12, <2>13, <2>14 DEF AllMultiplied, f, rows
<1>6. input.symmetric \in BOOLEAN
  BY SharesAre
<1> QED
  BY <1>4, <1>5, <1>6

\* The number of kinds of units a flags byte can name.
FlagsLast(o) == Len(o.patterns) <= PatternsMax + 1

\* What each stage has done.
StageInv ==
  /\ Has(run, RunFields)
  /\ stage \in {"encode", "write", "multiply", "done", "aborted"}
  /\ stage = "encode" => row = 0
  /\ stage # "encode" => MadeSpm
  /\ stage \in {"encode", "write", "aborted"} => run = NewRun
  /\ stage = "write" => row \in 0..GetNrRows(spm) /\ WrittenRows /\ FlagsLast(out)
  /\ stage = "aborted" => OutIs(out) /\ ~FlagsLast(out)
  /\ stage = "multiply" => KernelBetweenUnits /\ OutIs(out) /\ FlagsLast(out)
  /\ stage \in {"multiply", "done"} => IsSeq(out.values) /\ ValuesAre(out.values, input.entries)
  /\ stage = "done" => AllMultiplied(run, input, out.values, spm.nrRows)

\* Nothing is written yet.
FirstRowIs ==
  PartsInv /\ MadeSpm /\ row = 0 /\ (\E n : out = [NewOut EXCEPT !.ctl = Create(n)])
    => row \in 0..GetNrRows(spm) /\ WrittenRows /\ FlagsLast(out)

\* So it is when the matrix has been made.
LEMMA FirstRow == FirstRowIs
<1> SUFFICES ASSUME PartsInv, MadeSpm, row = 0, \E n : out = [NewOut EXCEPT !.ctl = Create(n)]
             PROVE  row \in 0..GetNrRows(spm) /\ WrittenRows /\ FlagsLast(out)
  BY DEF FirstRowIs
<1>1. PICK n : out = [NewOut EXCEPT !.ctl = Create(n)]
  OBVIOUS
<1>2. Writable
  BY SpmMade DEF SpmIs
<1>3. /\ GetNrRows(spm) \in Nat /\ spm.rowptr[1] = 0 /\ Len(spm.elems) \in Nat
      /\ \A k \in 1..Len(spm.elems) : IsSeq(spm.elems[k].item.vals)
  BY <1>2 DEF Writable, IsSeq
<1> DEFINE o == out
<1>4. Boundary(o, 0, 0) /\ o.patterns = <<>>
  BY ONLY <1>1, <1>3, NothingWritten
<1>5. row + 1 = 1
  OBVIOUS
<1>6. WrittenRows
  BY Zenon, <1>3, <1>4, <1>5 DEF WrittenRows
<1>7. FlagsLast(out)
  BY <1>4, PatternsAssumption DEF FlagsLast
<1> QED
  BY <1>3, <1>6, <1>7

\* The matrix to be written, once made, stays.
LEMMA SpmStays ==
  ASSUME MadeSpm, parts' = parts, input' = input, spm' = spm
  PROVE  MadeSpm'
BY Zenon DEF MadeSpm, MergeMatrix, Original, LoadedPart

\* Before anything is encoded.
LEMMA StageInit == Init => StageInv
<1> SUFFICES ASSUME Init PROVE StageInv
  OBVIOUS
<1>1. Has(NewRun, RunFields)
  BY DEF Has, NewRun, RunFields
<1> QED
  BY Zenon, <1>1 DEF Init, StageInv

\* The steps of encoding and the one that makes the matrix.
LEMMA StageEncode ==
  ASSUME StageInv, NEW i, NEW t, NEW deltas, Encode(i, t, deltas)
  PROVE  StageInv'
BY Zenon DEF StageInv, Encode

\* The step that makes the matrix the writer works on.
LEMMA StageStart ==
  ASSUME StageInv, PartsInv', NEW fullIndices, StartMake(fullIndices)
  PROVE  StageInv'
<1>1. MadeSpm'
  BY Zenon DEF StartMake, MadeSpm, MergeMatrix, Original, LoadedPart
<1>2. /\ stage = "encode" /\ stage' = "write" /\ row' = row /\ run' = run
      /\ out' = [NewOut EXCEPT !.ctl = Create(6 * Cardinality(input.entries))]
      /\ input' = input
  BY Zenon DEF StartMake
<1>3. Has(run, RunFields) /\ row = 0 /\ run = NewRun
  BY Zenon, <1>2 DEF StageInv
<1>4. (\E n : out = [NewOut EXCEPT !.ctl = Create(n)])'
  BY Zenon, <1>2
<1>5. FirstRowIs'
  BY FirstRow, PTL
<1>6. (row \in 0..GetNrRows(spm) /\ WrittenRows /\ FlagsLast(out))'
  BY Zenon, <1>1, <1>2, <1>3, <1>4, <1>5 DEF FirstRowIs
<1> QED
  BY Zenon, <1>1, <1>2, <1>3, <1>6 DEF StageInv

\* A row is written, or one flag too many was needed.
LEMMA StageWrite ==
  ASSUME StageInv, PartsInv, WriteRow
  PROVE  StageInv'
<1> DEFINE elems == Row(spm, row + 1)
           w == RowWritten(out, elems)
           i == row + 1
           n == GetNrRows(spm)
<1>1. /\ stage = "write" /\ row < n /\ elems # <<>> /\ out' = [w EXCEPT !.newRow = TRUE]
      /\ stage' = IF Len(out'.patterns) > PatternsMax + 1 THEN "aborted" ELSE stage
      /\ row' = i /\ input' = input /\ parts' = parts /\ full' = full /\ spm' = spm /\ run' = run
  BY Zenon DEF WriteRow, RowWritten
<1>2. /\ MadeSpm /\ row \in 0..n /\ WrittenRows /\ run = NewRun /\ Has(run, RunFields)
  BY Zenon, <1>1 DEF StageInv
<1>3. Writable /\ input \in Inputs
  BY <1>2, SpmMade DEF SpmIs, PartsInv
<1>4. n \in Nat /\ i \in 1..n /\ row = i - 1 /\ row' \in 0..n
  <2>1. n \in Nat
    BY <1>3 DEF Writable
  <2> DEFINE r == row
  <2>2. r \in 0..n /\ r < n /\ row' = r + 1
    BY <1>1, <1>2
  <2> HIDE DEF n, r
  <2>3. r + 1 \in 1..n /\ r = (r + 1) - 1 /\ r + 1 \in 0..n
    BY ONLY <2>1, <2>2
  <2> QED
    BY <2>1, <2>2, <2>3 DEF r
<1>5. MadeSpm'
  BY <1>1, <1>2, SpmStays
<1>6. Boundary(out', row', spm.rowptr[row' + 1])
  <2> DEFINE r == row
             l == spm.rowptr[i + 1]
             new == [w EXCEPT !.newRow = TRUE]
  <2>1. Boundary(out, r, spm.rowptr[i])
    BY <1>2 DEF WrittenRows
  <2>2. r = i - 1 /\ elems = Row(spm, i) /\ i \in 1..GetNrRows(spm)
    BY <1>4
  <2> HIDE DEF i, r, elems, l
  <2>3. Boundary(new, i, spm.rowptr[i + 1])
    BY ONLY <1>1, <1>3, <2>1, <2>2, RowDone
  <2> QED
    BY Zenon, <1>1, <2>3
<1>7. OutIs(out')
  BY <1>6 DEF Boundary
<1>8. WrittenRows'
  BY <1>1, <1>6, RowsStayWritten
<1>9. CASE FlagsLast(out')
  <2>1. stage' = "write"
    <3> DEFINE l == Len(out'.patterns)
    <3>1. l \in Nat /\ l <= PatternsMax + 1 /\ PatternsMax \in Nat
      BY <1>7, <1>9, PatternsAssumption DEF FlagsLast, OutIs, IsSeq
    <3> HIDE DEF l
    <3>2. ~(l > PatternsMax + 1)
      BY ONLY <3>1
    <3> QED
      BY Zenon, <1>1, <3>2 DEF l
  <2> QED
    BY Zenon, <1>1, <1>2, <1>4, <1>5, <1>8, <1>9, <2>1 DEF StageInv
<1>10. CASE ~FlagsLast(out')
  <2>1. stage' = "aborted"
    <3> DEFINE l == Len(out'.patterns)
    <3>1. l \in Nat /\ ~(l <= PatternsMax + 1) /\ PatternsMax \in Nat
      BY <1>7, <1>10, PatternsAssumption DEF FlagsLast, OutIs, IsSeq
    <3> HIDE DEF l
    <3>2. l > PatternsMax + 1
      BY ONLY <3>1
    <3> QED
      BY Zenon, <1>1, <3>2 DEF l
  <2> QED
    BY Zenon, <1>1, <1>2, <1>5, <1>7, <1>10, <2>1 DEF StageInv
<1> QED
  BY <1>9, <1>10

\* An empty row is only counted.
LEMMA StageSkip ==
  ASSUME StageInv, PartsInv, SkipRow
  PROVE  StageInv'
<1> DEFINE i == row + 1
           n == GetNrRows(spm)
           new == IF out.newRow THEN [out EXCEPT !.emptyRows = out.emptyRows + 1]
                                ELSE [out EXCEPT !.newRow = TRUE]
<1>1. /\ stage = "write" /\ row < n /\ Row(spm, i) = <<>> /\ out' = new
      /\ stage' = stage
      /\ row' = i /\ input' = input /\ parts' = parts /\ full' = full /\ spm' = spm /\ run' = run
  BY Zenon DEF SkipRow
<1>2. /\ MadeSpm /\ row \in 0..n /\ WrittenRows /\ FlagsLast(out) /\ run = NewRun
      /\ Has(run, RunFields)
  BY Zenon, <1>1 DEF StageInv
<1>3. Writable
  BY <1>2, SpmMade DEF SpmIs
<1>4. n \in Nat /\ i \in 1..n /\ row' \in 0..n
  <2>1. n \in Nat
    BY <1>3 DEF Writable
  <2> DEFINE r == row
  <2>2. r \in 0..n /\ r < n /\ row' = r + 1
    BY <1>1, <1>2
  <2> HIDE DEF n, r
  <2>3. r + 1 \in 1..n /\ r + 1 \in 0..n
    BY ONLY <2>1, <2>2
  <2> QED
    BY <2>1, <2>2, <2>3 DEF r
<1>5. MadeSpm'
  BY <1>1, <1>2, SpmStays
<1>6. spm.rowptr[i + 1] = spm.rowptr[i]
  <2> DEFINE elems == <<>>
             a == spm.rowptr[i]
             b == spm.rowptr[i + 1]
  <2>1. i \in 1..GetNrRows(spm) /\ elems = Row(spm, i)
    BY <1>1, <1>4
  <2> HIDE DEF i
  <2>2. a + Len(elems) = b
    BY ONLY <1>3, <2>1, RowIn
  <2>3. a \in Nat /\ Len(elems) = 0
    BY <1>3, <2>1 DEF Writable
  <2> HIDE DEF a, b, elems
  <2>4. b = a
    BY <2>2, <2>3
  <2> QED
    BY <2>4 DEF a, b
<1>7. Boundary(new, i, spm.rowptr[i])
  <2> DEFINE m == spm.rowptr[i]
             r == row
             o == out
  <2>1. Boundary(o, r, m)
    BY <1>2 DEF WrittenRows
  <2>2. i = r + 1
    OBVIOUS
  <2> HIDE DEF i, r, m
  <2>3. Boundary(new, i, m)
    BY ONLY <2>1, <2>2, RowSkipped
  <2> QED
    BY <2>3 DEF m
<1>8. Boundary(out', row', spm.rowptr[row' + 1])
  BY Zenon, <1>1, <1>6, <1>7
<1>9. WrittenRows'
  BY <1>1, <1>8, RowsStayWritten
<1>10. FlagsLast(out')
  <2>1. Has(out, OutFields)
    BY <1>2 DEF WrittenRows, Boundary, OutIs
  <2> DEFINE o == out
             e == out.emptyRows + 1
  <2>2. [o EXCEPT !.emptyRows = e].patterns = o.patterns
        /\ [o EXCEPT !.newRow = TRUE].patterns = o.patterns
    <3>1. Has(o, OutFields)
      BY <2>1
    <3> HIDE DEF o, e
    <3> QED
      BY <3>1 DEF Has, OutFields
  <2>3. out'.patterns = out.patterns
    BY Zenon, <1>1, <2>2
  <2> QED
    BY Zenon, <1>2, <2>3 DEF FlagsLast
<1> QED
  BY Zenon, <1>1, <1>2, <1>4, <1>5, <1>9, <1>10 DEF StageInv

\* All rows are written: the kernel may start.
LEMMA StageFinishMake ==
  ASSUME StageInv, PartsInv, FinishMake
  PROVE  StageInv'
<1>1. /\ stage = "write" /\ stage' = "multiply" /\ row = GetNrRows(spm)
      /\ out' = out /\ row' = row /\ input' = input /\ parts' = parts /\ full' = full
      /\ spm' = spm /\ run' = run
  BY Zenon DEF FinishMake
<1>2. MadeSpm /\ WrittenRows /\ FlagsLast(out) /\ run = NewRun /\ Has(run, RunFields)
  BY Zenon, <1>1 DEF StageInv
<1>3. /\ KernelAt(out, run) /\ OutIs(out)
      /\ IsSeq(out.values) /\ ValuesAre(out.values, input.entries)
  BY <1>1, <1>2, KernelStarts
<1>4. MadeSpm'
  BY <1>1, <1>2, SpmStays
<1>5. KernelBetweenUnits'
  <2>1. KernelAt(out', run')
    BY Zenon, <1>1, <1>3
  <2> QED
    BY <1>1, <2>1, KernelStays
<1> QED
  BY Zenon, <1>1, <1>2, <1>3, <1>4, <1>5 DEF StageInv

\* A unit is executed.
LEMMA StageUnit ==
  ASSUME StageInv, PartsInv, ExecUnit
  PROVE  StageInv'
<1>1. /\ stage = "multiply" /\ stage' = stage
      /\ out' = out /\ input' = input /\ parts' = parts /\ full' = full /\ spm' = spm
  BY Zenon DEF ExecUnit
<1>2. /\ MadeSpm /\ KernelAt(out, run) /\ OutIs(out) /\ FlagsLast(out)
      /\ IsSeq(out.values) /\ ValuesAre(out.values, input.entries)
  BY Zenon, <1>1 DEF StageInv, KernelBetweenUnits
<1>3. KernelAt(out', run') /\ Has(run', RunFields)
  BY <1>2, KernelGoesOn DEF PartsInv, FlagsLast
<1>4. KernelBetweenUnits'
  BY <1>1, <1>3, KernelStays
<1>5. MadeSpm'
  BY <1>1, <1>2, SpmStays
<1> QED
  BY Zenon, <1>1, <1>2, <1>3, <1>4, <1>5 DEF StageInv

\* The kernel ends.
LEMMA StageKernelEnds ==
  ASSUME StageInv, PartsInv, FinishKernel
  PROVE  StageInv'
<1>1. /\ stage = "multiply" /\ stage' = "done"
      /\ out' = out /\ input' = input /\ parts' = parts /\ full' = full /\ spm' = spm
  BY Zenon DEF FinishKernel
<1>2. /\ MadeSpm /\ KernelAt(out, run) /\ OutIs(out) /\ Has(run, RunFields)
      /\ IsSeq(out.values) /\ ValuesAre(out.values, input.entries)
  BY Zenon, <1>1 DEF StageInv, KernelBetweenUnits
<1>3. GetNrRows(spm) \in Nat /\ input.symmetric => spm.nrRows = GetNrRows(spm)
  BY <1>2, SpmMade DEF SpmIs, Writable
<1>4. AllMultiplied(run', input, out.values, spm.nrRows) /\ Has(run', RunFields)
  BY <1>2, <1>3, SpmMade, KernelDone DEF PartsInv, SpmIs, Writable
<1>5. MadeSpm'
  BY <1>1, <1>2, SpmStays
<1> QED
  BY Zenon, <1>1, <1>2, <1>4, <1>5 DEF StageInv

\* Nothing changes.
LEMMA StageStays ==
  ASSUME StageInv, UNCHANGED vars
  PROVE  StageInv'
<1>1. /\ input' = input /\ parts' = parts /\ stage' = stage /\ full' = full /\ spm' = spm
      /\ row' = row /\ out' = out /\ run' = run
  BY DEF vars
<1>2. stage # "encode" => MadeSpm'
  BY <1>1, SpmStays DEF StageInv
<1>3. stage = "write" => WrittenRows'
  <2>1. stage = "write" => Boundary(out', row', spm.rowptr[row' + 1])
    BY Zenon, <1>1 DEF StageInv, WrittenRows
  <2> QED
    BY <1>1, <2>1, RowsStayWritten
<1>4. stage = "multiply" => KernelBetweenUnits'
  <2>1. stage = "multiply" => KernelAt(out', run')
    BY Zenon, <1>1 DEF StageInv, KernelBetweenUnits
  <2> QED
    BY <1>1, <2>1, KernelStays
<1> QED
  BY Zenon, <1>1, <1>2, <1>3, <1>4 DEF StageInv

\* What the stages have done is so in every state.
CsxInv == PartsInv /\ StageInv

\* The parts hold their entries while they are encoded; what MakeCsx has written of the
\* matrix is, row by row, a sequence of units that the kernel reads as they were
\* written; and the kernel is always between two of them.
THEOREM InductiveInvariant == Spec => []CsxInv
<1>1. Init => CsxInv
  BY PartsInit, StageInit DEF CsxInv
<1>2. CsxInv /\ [Next]_vars => CsxInv'
  <2> SUFFICES ASSUME PartsInv, StageInv, [Next]_vars PROVE PartsInv' /\ StageInv'
    BY DEF CsxInv
  <2>1. PartsInv'
    BY PartsNext
  <2>2. CASE \E i \in DOMAIN parts, t \in Orders, deltas \in DeltaChoices : Encode(i, t, deltas)
    BY <2>1, <2>2, StageEncode
  <2>3. CASE \E fullIndices \in BOOLEAN : StartMake(fullIndices)
    BY <2>1, <2>3, StageStart
  <2>4. CASE WriteRow
    BY <2>1, <2>4, StageWrite
  <2>5. CASE SkipRow
    BY <2>1, <2>5, StageSkip
  <2>6. CASE FinishMake
    BY <2>1, <2>6, StageFinishMake
  <2>7. CASE ExecUnit
    BY <2>1, <2>7, StageUnit
  <2>8. CASE FinishKernel
    BY <2>1, <2>8, StageKernelEnds
  <2>9. CASE UNCHANGED vars
    BY <2>1, <2>9, StageStays
  <2> QED
    BY <2>2, <2>3, <2>4, <2>5, <2>6, <2>7, <2>8, <2>9 DEF Next, Finished
<1> QED
  BY <1>1, <1>2, PTL DEF Spec

-----------------------------------------------------------------------------
(***************************************************************************)
(* So the kernel multiplies the matrix.                                    *)
(***************************************************************************)

\* A sequence without repetition has as many elements as it is long.
LEMMA KindsCount ==
  ASSUME NEW s, IsSeq(s), \A j, k \in 1..Len(s) : s[j] = s[k] => j = k
  PROVE  Cardinality(ToSet(s)) = Len(s)
<1> DEFINE n == Len(s)
           S == 1..n
           T == ToSet(s)
<1>1. n \in Nat /\ s = [k \in S |-> s[k]]
  BY DEF IsSeq
<1>2. DOMAIN s = S
  BY <1>1
<1>3. IsFiniteSet(S) /\ Cardinality(S) = n
  <2> HIDE DEF n
  <2>1. 1 \in Int /\ n \in Int
    BY <1>1
  <2>2. IsFiniteSet(1..n) /\ Cardinality(1..n) = IF 1 > n THEN 0 ELSE n - 1 + 1
    BY ONLY <2>1, FS_Interval
  <2>3. (IF 1 > n THEN 0 ELSE n - 1 + 1) = n
    BY ONLY <1>1
  <2> DEFINE c == Cardinality(1..n)
             I == 1..n
  <2>4. IsFiniteSet(I) /\ c = n
    <3> HIDE DEF c, I
    <3>1. c = (IF 1 > n THEN 0 ELSE n - 1 + 1) /\ IsFiniteSet(I)
      BY <2>2 DEF c, I
    <3> QED
      BY ONLY <2>3, <3>1
  <2> QED
    BY <2>4
<1>4. T = {s[k] : k \in S}
  BY <1>2 DEF ToSet
<1> HIDE DEF S, T
<1>5. s \in Bijection(S, T)
  <2>1. s \in [S -> T]
    BY <1>1, <1>4
  <2>2. \A a, b \in S : s[a] = s[b] => a = b
    BY DEF S
  <2>3. \A t \in T : \E a \in S : s[a] = t
    BY <1>4
  <2>4. IsInjective(s)
    BY Zenon, <1>2, <2>2 DEF IsInjective
  <2> QED
    BY <2>1, <2>3, <2>4 DEF Bijection, Injection, Surjection
<1>6. Cardinality(T) = Cardinality(S)
  BY <1>3, <1>5, FS_Bijection DEF ExistsBijection
<1> QED
  BY Zenon, <1>3, <1>6 DEF T

\* When a stage was aborted, the flags are not enough.
LEMMA AbortsRightly == CsxInv => AbortsOnlyOutOfFlags
<1> SUFFICES ASSUME StageInv, stage = "aborted"
             PROVE  Cardinality(ToSet(out.patterns)) > PatternsMax + 1
  BY DEF CsxInv, AbortsOnlyOutOfFlags
<1> DEFINE s == out.patterns
           n == Len(s)
           c == Cardinality(ToSet(s))
<1>1. OutIs(out) /\ ~FlagsLast(out)
  BY Zenon DEF StageInv
<1>2. IsSeq(s) /\ \A j, k \in 1..Len(s) : s[j] = s[k] => j = k
  BY <1>1 DEF OutIs
<1>3. n \in Nat /\ ~(n <= PatternsMax + 1)
  BY <1>1, <1>2 DEF FlagsLast, IsSeq
<1> HIDE DEF s
<1>4. c = n
  BY <1>2, KindsCount
<1> HIDE DEF n, c
<1>5. c > PatternsMax + 1
  BY ONLY <1>3, <1>4, PatternsAssumption
<1> QED
  BY <1>5 DEF c, s

\* What was multiplied so far.
LEMMA SomeValuesMultiplied ==
  ASSUME CsxInv
  PROVE  IF stage \in {"multiply", "done"} THEN \E n : Multiplied(run, input, out.values, n)
         ELSE run = NewRun
<1>1. StageInv
  BY DEF CsxInv
<1>2. CASE stage = "multiply"
  <2>1. KernelAt(out, run) /\ OutIs(out)
    BY Zenon, <1>1, <1>2 DEF StageInv, KernelBetweenUnits
  <2> QED
    BY <1>2, <2>1, SomeMultiplied
<1>3. CASE stage = "done"
  <2>1. AllMultiplied(run, input, out.values, spm.nrRows)
    BY Zenon, <1>1, <1>3 DEF StageInv
  <2> QED
    BY <1>3, <2>1 DEF AllMultiplied
<1>4. CASE stage \notin {"multiply", "done"}
  <2>1. stage \in {"encode", "write", "aborted"}
    BY <1>1, <1>4 DEF StageInv
  <2> QED
    BY <1>1, <1>4, <2>1 DEF StageInv
<1> QED
  BY <1>2, <1>3, <1>4

\* The mirrored elements are those of the values.
MirroredAre(n) ==
  /\ DOMAIN run.mirrored \subseteq 1..n
  /\ \A k \in DOMAIN run.mirrored : /\ run.mirrored[k] = MirrorOf(input, out.values[k])
                                    /\ run.touched[k] = out.values[k]

\* So they are when the kernel has multiplied n values.
LEMMA MirroredIs ==
  ASSUME NEW n, Multiplied(run, input, out.values, n)
  PROVE  MirroredAre(n)
<1> DEFINE m == run.mirrored
<1>1. CASE input.symmetric
  <2>1. IsSeq(m) /\ Len(m) = n /\ \A k \in 1..n : m[k] = MirrorOf(input, out.values[k])
    BY <1>1 DEF Multiplied
  <2> HIDE DEF m
  <2>2. DOMAIN m = 1..n
    BY <2>1 DEF IsSeq
  <2> QED
    BY Zenon, <2>1, <2>2 DEF MirroredAre, Multiplied, m
<1>2. CASE ~input.symmetric
  <2>1. m = <<>>
    BY <1>2 DEF Multiplied
  <2>2. DOMAIN m = {}
    BY <2>1
  <2> QED
    BY <2>2 DEF MirroredAre
<1> QED
  BY <1>1, <1>2
\* The kernel multiplies each value with its entry, in order.
LEMMA MultipliesRightly == CsxInv => KernelMultipliesMatrix
<1> SUFFICES ASSUME CsxInv PROVE KernelMultipliesMatrix
  OBVIOUS
<1> DEFINE v == out.values
           t == run.touched
<1>1. CASE stage \notin {"multiply", "done"}
  <2>1. run = NewRun
    BY Zenon, <1>1, SomeValuesMultiplied
  <2>2. DOMAIN run.mirrored = {}
    BY <2>1 DEF NewRun
  <2> QED
    BY Zenon, <1>1, <2>2 DEF KernelMultipliesMatrix
<1>2. CASE stage \in {"multiply", "done"}
  <2>1. PICK n : Multiplied(run, input, v, n)
    BY Zenon, <1>2, SomeValuesMultiplied
  <2>2. IsSeq(v) /\ ValuesAre(v, input.entries)
    BY Zenon, <1>2 DEF CsxInv, StageInv
  <2>3. IsSeq(t) /\ Len(t) = n /\ n <= Len(v) /\ \A k \in 1..n : t[k] = v[k]
    BY Zenon, <2>1 DEF Multiplied
  <2>4. t = SubSeq(v, 1, Len(t))
    <3> HIDE DEF t, v
    <3>1. n \in Nat /\ Len(v) \in Nat
      BY <2>2, <2>3 DEF IsSeq
    <3> DEFINE s == SubSeq(v, 1, n)
    <3>2. s = [k \in 1..n |-> v[k]]
      BY <2>2, <2>3, <3>1 DEF IsSeq
    <3>3. t = [k \in 1..n |-> t[k]]
      BY Zenon, <2>3 DEF IsSeq
    <3> HIDE DEF s
    <3>4. t = s
      BY <2>3, <3>2, <3>3
    <3> QED
      BY Zenon, <2>3, <3>4 DEF s
  <2>5. ASSUME NEW k \in DOMAIN run.mirrored
        PROVE  run.mirrored[k].at = Point(v[k].x, v[k].y)
    <3>1. run.mirrored[k] = MirrorOf(input, v[k])
      BY Zenon, <2>1, MirroredIs DEF MirroredAre
    <3> QED
      BY <3>1 DEF MirrorOf
  <2>6. ASSUME stage = "done" PROVE IsInjective(t) /\ ToSet(t) = input.entries
    <3>1. AllMultiplied(run, input, v, spm.nrRows)
      BY Zenon, <2>6 DEF CsxInv, StageInv
    <3> DEFINE l == Len(v)
    <3>2. IsSeq(t) /\ Len(t) = l /\ \A k \in 1..l : t[k] = v[k]
      BY Zenon, <3>1 DEF AllMultiplied, Multiplied
    <3>3. /\ \A h \in 1..l : v[h] \in input.entries
          /\ \A e \in input.entries : \E h \in 1..l : v[h] = e
          /\ \A h, k \in 1..l : v[h] = v[k] => h = k
      BY Zenon, <2>2 DEF ValuesAre
    <3> HIDE DEF t, v, l
    <3>4. DOMAIN t = 1..l
      BY <3>2 DEF IsSeq
    <3>5. IsInjective(t)
      BY Zenon, <3>2, <3>3, <3>4 DEF IsInjective
    <3>6. ToSet(t) = {t[k] : k \in 1..l}
      BY Zenon, <3>4 DEF ToSet
    <3>7. {t[k] : k \in 1..l} = input.entries
      BY <3>2, <3>3
    <3> QED
      BY Zenon, <3>5, <3>6, <3>7
  <2> QED
    BY Zenon, <2>4, <2>5, <2>6 DEF KernelMultipliesMatrix
<1> QED
  BY <1>1, <1>2

\* Each mirrored product goes where its column belongs.
LEMMA MirrorsRightly == CsxInv => MirrorsInPhase
<1> SUFFICES ASSUME CsxInv, NEW k \in DOMAIN run.mirrored
             PROVE  run.mirrored[k].to = IF run.touched[k].x > input.rowStart THEN "y" ELSE "temp"
  BY DEF MirrorsInPhase
<1>1. CASE stage \notin {"multiply", "done"}
  <2>1. run = NewRun
    BY Zenon, <1>1, SomeValuesMultiplied
  <2> QED
    BY <2>1 DEF NewRun
<1>2. CASE stage \in {"multiply", "done"}
  <2>1. PICK n : Multiplied(run, input, out.values, n)
    BY Zenon, <1>2, SomeValuesMultiplied
  <2>2. run.mirrored[k] = MirrorOf(input, out.values[k]) /\ run.touched[k] = out.values[k]
    BY Zenon, <2>1, MirroredIs DEF MirroredAre
  <2> QED
    BY <2>2 DEF MirrorOf
<1> QED
  BY <1>1, <1>2

\* The diagonal of each row is multiplied once.
LEMMA DiagonalRightly == CsxInv => DiagonalsOnce
<1> SUFFICES ASSUME CsxInv, stage = "done", input.symmetric
             PROVE  run.diagonal = [k \in 1..spm.nrRows |-> k]
  BY DEF DiagonalsOnce
<1>1. AllMultiplied(run, input, out.values, spm.nrRows)
  BY Zenon DEF CsxInv, StageInv
<1> QED
  BY Zenon, <1>1 DEF AllMultiplied

\* The assertion of GetFlag fails only for a matrix with more kinds of units than a
\* flags byte can name.
THEOREM AbortsWhenOutOfFlags == Spec => []AbortsOnlyOutOfFlags
BY InductiveInvariant, AbortsRightly, PTL

\* The kernel multiplies each value with the entry it belongs to, in the order of the
\* values array, and none twice or not at all: for every part of a matrix, whatever the
\* encodings it went through, the sizes of the numbers and the padding.
THEOREM KernelMultipliesTheMatrix == Spec => []KernelMultipliesMatrix
BY InductiveInvariant, MultipliesRightly, PTL

\* The mirrored products of the symmetric kernel go to the thread's own rows of y exactly
\* when their column is one of them.
THEOREM MirrorsGoToTheirPhase == Spec => []MirrorsInPhase
BY InductiveInvariant, MirrorsRightly, PTL

\* The symmetric kernel multiplies the diagonal of each of its rows exactly once.
THEOREM DiagonalsAreMultipliedOnce == Spec => []DiagonalsOnce
BY InductiveInvariant, DiagonalRightly, PTL
=============================================================================
