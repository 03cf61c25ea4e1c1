--------------------------- MODULE NumaPlacement ----------------------------
(***************************************************************************)
(* alloc_interleaved and its checks (lib/spm/numa_util.c): an array whose  *)
(* parts belong to threads is spread over the memory nodes in pages.  A    *)
(* page that several parts share goes to one of their nodes.               *)
(*                                                                         *)
(* parts[i] is the size of part i in bytes, nodes[i] the node of the       *)
(* thread that works on it.                                                *)
(***************************************************************************)
EXTENDS Integers, Sequences, SequencesExt, FiniteSetsExt

CONSTANT PageSize   \* numa_pagesize()

ASSUME PageSizeAssumption == PageSize \in Nat \ {0}

\* The sum of the numbers of s from index i to index j.
SumOf(s, i, j) == FoldLeft(+, 0, SubSeq(s, i, j))

\* Faulty variant: the page stays with the part it begins in.
FixPage_First(parts, nodes, cur) ==
  LET rem == parts[cur] % PageSize
      Upto(k) == rem + SumOf(parts, cur + 1, cur + k)
      absorbed == Max({0} \cup {k \in 1..(Len(parts) - cur) : Upto(k) < PageSize})
      rest == cur + absorbed + 1
      Share(i) == IF i = cur THEN rem ELSE IF i < rest THEN parts[i]
                  ELSE IF i = rest THEN PageSize - Upto(absorbed) ELSE 0
      size == IF rest <= Len(parts) THEN PageSize ELSE Upto(absorbed)
  IN  IF rem = 0 THEN parts
      ELSE [i \in DOMAIN parts |->
              (IF i < cur THEN parts[i] ELSE parts[i] - Share(i)) + (IF i = cur THEN size ELSE 0)]

\* One turn of the loop of fix_interleaving.  The page that part cur ends in is
\* shared by it, the following parts that fit, and what fits of one more; it is
\* given as a whole to the first of them on the node that has most of it.
FixPage(parts, nodes, cur) ==
  LET rem == parts[cur] % PageSize
      Upto(k) == rem + SumOf(parts, cur + 1, cur + k)
      absorbed == Max({0} \cup {k \in 1..(Len(parts) - cur) : Upto(k) < PageSize})
      rest == cur + absorbed + 1
      Share(i) == IF i = cur THEN rem ELSE IF i < rest THEN parts[i]
                  ELSE IF i = rest THEN PageSize - Upto(absorbed) ELSE 0
      size == IF rest <= Len(parts) THEN PageSize ELSE Upto(absorbed)
      OnNode(nd) == FoldLeft(LAMBDA acc, i : acc + (IF nodes[i] = nd THEN Share(i) ELSE 0), 0,
                             [i \in 1..(Len(parts) - cur + 1) |-> cur + i - 1])
      chosen == Min({nd \in ToSet(nodes) : \A o \in ToSet(nodes) : OnNode(nd) >= OnNode(o)})
      taker == Min({i \in cur..Len(parts) : nodes[i] = chosen})
  IN  IF rem = 0 THEN parts
      ELSE [i \in DOMAIN parts |->
              (IF i < cur THEN parts[i] ELSE parts[i] - Share(i)) + (IF i = taker THEN size ELSE 0)]

FixInterleaving(parts, nodes) ==
  FoldLeft(LAMBDA ps, cur : FixPage(ps, nodes, cur), parts,
           [cur \in 1..(Len(parts) - 1) |-> cur])

Pages(size) == 0..(((size + PageSize - 1) \div PageSize) - 1)

\* The part that byte k of an array lies in.
PartAt(parts, k) == Min({i \in DOMAIN parts : k < SumOf(parts, 1, i)})

\* A page bound to no node lies where the thread that first writes it runs.
Unbound == -1

\* alloc_interleaved: the node each page of an array of size bytes is bound to.  Only
\* the parts are bound, the last of them up to the end of the page it ends in.
AllocInterleaved(size, parts, nodes) ==
  LET fixed == FixInterleaving(parts, nodes)
  IN  [p \in Pages(size) |->
         IF p * PageSize < SumOf(parts, 1, Len(parts))
           THEN nodes[PartAt(fixed, p * PageSize)] ELSE Unbound]

\* check_interleaved, with the parts that alloc_interleaved has corrected: page
\* after page of each part is where it should be.  It does not look behind the parts.
CheckInterleaved(placed, parts, nodes) ==
  LET fixed == FixInterleaving(parts, nodes)
  IN  \A i \in DOMAIN fixed : \A p \in Pages(fixed[i]) :
        placed[(SumOf(fixed, 1, i - 1) \div PageSize) + p] = nodes[i]

-----------------------------------------------------------------------------
\* How many bytes of page p belong to parts of node nd.
BytesOn(parts, nodes, p, nd) ==
  LET First(i) == SumOf(parts, 1, i - 1)
      Overlap(i) == Max({0, Min({First(i) + parts[i], (p + 1) * PageSize})
                              - Max({First(i), p * PageSize})})
  IN  FoldLeft(LAMBDA acc, i : acc + (IF nodes[i] = nd THEN Overlap(i) ELSE 0), 0,
               [i \in DOMAIN parts |-> i])
=============================================================================
