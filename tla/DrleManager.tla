---------------------------- MODULE DrleManager -----------------------------
(***************************************************************************)
(* How the encoder of csx/drle.cc chooses what to encode.  EncodeAll       *)
(* gathers for each iteration order how many elements its runs would       *)
(* cover, encodes the matrix in the order with the best score, and starts  *)
(* over until no order has one.  With sampling, the numbers come from a    *)
(* few windows of rows that are chosen once, for the matrix as it is       *)
(* loaded, and are looked at again in every round.                         *)
(***************************************************************************)
EXTENDS Drle

CONSTANTS
  Inputs,   \* matrices with the options of their preprocessing, see InputsAssumption
  MinPerc   \* percentage of the elements a distance must cover (min_perc_)

(***************************************************************************)
(* entries and cols: the matrix.  xform: XFORM_CONF.  splitBlocks: not -b. *)
(* percent: SAMPLING_PORTION.  samples: SAMPLES, at least one.  serial:    *)
(* the orders with the ENCODE_DELTAS for each, empty when not set.         *)
(***************************************************************************)
ASSUME InputsAssumption ==
  \A in \in Inputs :
    /\ \A e \in in.entries : e.y \in Nat \ {0} /\ e.x \in 1..in.cols
    /\ in.xform \subseteq IterOrders /\ in.splitBlocks \in BOOLEAN
    /\ in.percent \in 0..100 /\ in.samples \in Nat \ {0}
    /\ \A e \in Range(in.serial) : e.type \in IterOrders /\ e.deltas \subseteq Nat \ {0}
ASSUME MinPercAssumption == MinPerc \in 0..100

VARIABLES
  input,
  spm,
  sampling,  \* the windows: where they begin, their elements, which are looked at
  ignore,    \* xforms_ignore_
  stats,     \* stats_: for each order, what each distance or dimension covers
  deltas,    \* deltas_to_encode_
  encSeq,    \* the orders encoded so far, each with its deltas
  order,     \* the order GenAllStats is at
  window,    \* the window that is out
  at,        \* the sample it is at, 0 when the whole matrix is looked at
  seen,      \* elements of the samples so far (samples_nnz)
  base,      \* history: the matrix after the last encoding
  pc

vars == <<input, spm, sampling, ignore, stats, deltas, encSeq, order, window, at, seen, base, pc>>

\* The size of the array enc_seq in EncodeAll.
EncSeqSize == 22

Labels == {"order", "window", "gather", "back", "filter", "choose", "serial", "done", "undefined"}
Final == {"done", "undefined"}

\* RemoveIgnore leaves one-dimensional blocks ignored (onedim is false).
Considered(in) == in.xform \ {BLOCK_R(1), BLOCK_C(1)}

\* The enumeration's order; the delimiters are never considered.
SpmTypes ==
  <<HORIZONTAL, VERTICAL, DIAGONAL, REV_DIAGONAL>>
    \o [r \in BlockSizes |-> BLOCK_R(r)] \o [c \in BlockSizes |-> BLOCK_C(c)]

Nonzeros == Cardinality(input.entries)

-----------------------------------------------------------------------------
(* The constructor.                                                        *)

\* DoComputeSortSplitsByNNZ: windows of whole rows with at least wsize elements
\* each; a rest of more than half a window is one more, a smaller one is joined
\* to the last.  nzeros gets no entry for the rest's own window.
SortSplits(m, wsize) ==
  LET rows == GetNrRows(m)
      Nnz(from, to) == m.rowptr[to + 1] - m.rowptr[from + 1]
      Ends(from) == {i \in (from + 1)..rows : Nnz(from, i) >= wsize}
      full[from \in 0..rows] ==
        IF Ends(from) = {} THEN <<from>> ELSE <<from>> \o full[Min(Ends(from))]
      splits == full[0]
      nzeros == [k \in 1..(Len(splits) - 1) |-> Nnz(splits[k], splits[k + 1])]
      rest == Nnz(Last(splits), rows)
  IN  IF rest = 0 THEN [splits |-> splits, nzeros |-> nzeros]
      ELSE [splits |-> Append(IF rest > wsize \div 2 THEN splits ELSE Front(splits), rows),
            nzeros |-> ReplaceAt(nzeros, Len(nzeros), Last(nzeros) + rest)]

Unset == -1

\* Faulty variant: the windows are spread as if one more was looked at.
SelectSplits_Spread(nsplits, samples) ==
  [i \in 1..samples |-> i * ((nsplits + samples) \div (samples + 1))]

\* SelectSplits: evenly spread windows, numbered from zero.  For more than half
\* of them the second loop starts again at the first entry.
SelectSplits(nsplits, samples) ==
  LET half == nsplits \div 2
      extra == samples - half
  IN  IF samples = nsplits THEN [i \in 1..samples |-> i - 1]
      ELSE IF samples <= half THEN [i \in 1..samples |-> i * (nsplits \div (samples + 1))]
      ELSE [i \in 1..samples |->
              CASE i <= extra -> i * ((nsplits - half) \div (extra + 1))
                [] i > extra /\ i <= half -> i - 1
                [] OTHER -> Unset]

\* The window size follows from the portion; there is no sampling without one,
\* whatever SAMPLES and WINDOW_SIZE say.
Sampling(m, in) ==
  LET nnz == Len(m.elems)
      sort == SortSplits(m, (in.percent * nnz) \div (100 * in.samples))
      samples == Min({in.samples, Len(sort.splits)})
  IN  IF in.percent = 0 \/ nnz = 0
        THEN [windows |-> FALSE, splits |-> <<>>, nzeros |-> <<>>, selected |-> <<>>]
        ELSE [windows |-> TRUE, splits |-> sort.splits, nzeros |-> sort.nzeros,
              selected |-> SelectSplits(Len(sort.splits), samples)]

Init ==
  /\ input \in Inputs
  /\ spm = Loaded({[y |-> e.y, x |-> e.x, item |-> [pattern |-> NoPattern, vals |-> <<e>>]] :
                   e \in input.entries}, input.cols)
  /\ sampling = Sampling(spm, input)
  /\ ignore = IterOrders \ Considered(input)
  /\ stats = <<>> /\ deltas = <<>> /\ encSeq = <<>>
  /\ order = HORIZONTAL /\ window = <<>> /\ at = 0 /\ seen = 0 /\ base = spm
  /\ pc = IF input.serial = <<>> THEN "order" ELSE "serial"

-----------------------------------------------------------------------------
(* Statistics: functions from a distance (of a block order: dimension) to  *)
(* the elements its patterns would cover and their number.                 *)

\* The sum of a set of contributions.
Tally(contributions) ==
  [d \in {c.dim : c \in contributions} |->
     LET mine == {c \in contributions : c.dim = d}
     IN  [nnz |-> MapThenSumSet(LAMBDA c : c.nnz, mine),
          npatterns |-> MapThenSumSet(LAMBDA c : c.npatterns, mine)]]

Contribution(of, d, nnz, npatterns) ==
  [of |-> of, dim |-> d, nnz |-> nnz, npatterns |-> npatterns]

\* The elements between two patterns of a row, with the ends of the row.
Groups(row) ==
  LET cuts == {0, Len(row) + 1} \cup {k \in DOMAIN row : HasPattern(row[k])}
      Following(k) == Min({j \in cuts : j > k})
  IN  {SubSeq(row, k + 1, Following(k) - 1) : k \in {k \in cuts \ {Len(row) + 1} : Following(k) > k + 1}}

\* Faulty variant: a run takes in the element before it even when the run before
\* has it.
UpdateStats_AlwaysJoins(group) ==
  LET runs == Runs(group)
      n(k) == runs[k].to - runs[k].from + (IF k > 1 THEN 2 ELSE 1)
  IN  {[x |-> group[runs[k].from].x, val |-> runs[k].val, n |-> n(k)] :
       k \in {k \in DOMAIN runs : runs[k].to > runs[k].from /\ n(k) >= MinLimit}}

\* UpdateStats of one group: the runs that would become patterns.  A run takes in
\* the element before it unless that one is the end of such a run.
UpdateStats(group) ==
  LET runs == Runs(group)
      freq(k) == runs[k].to - runs[k].from + 1
      taken[k \in 0..Len(runs)] ==
        k > 0 /\ freq(k) > 1 /\ freq(k) + (IF k > 1 /\ ~taken[k - 1] THEN 1 ELSE 0) >= MinLimit
  IN  {[x |-> group[runs[k].from].x, val |-> runs[k].val,
        n |-> freq(k) + (IF k > 1 /\ ~taken[k - 1] THEN 1 ELSE 0)] :
       k \in {k \in DOMAIN runs : taken[k]}}

\* Faulty variant: a block may start anywhere.
UpdateStatsBlock_Anywhere(group, align) ==
  {[x |-> group[run.from].x, val |-> (run.to - run.from + 1) \div align] :
     run \in {run \in Range(Runs(group)) :
                run.val = 1 /\ run.to - run.from + 1 >= 2 * align}}

\* UpdateStatsBlock of one group: the aligned parts of runs without gaps.
UpdateStatsBlock(group, align) ==
  {[x |-> group[run.from].x, val |-> Aligned(group, run, align).n \div align] :
     run \in {run \in Range(Runs(group)) :
                run.val = 1 /\ Aligned(group, run, align).n >= 2 * align}}

\* GenerateStats: rows and, in them, groups.
GenerateStats(m) ==
  LET align == IsBlockType(m.type)
      RunsOf(i) == UNION {UpdateStats(g) : g \in Groups(Row(m, i))}
      BlocksOf(i) == UNION {UpdateStatsBlock(g, align) : g \in Groups(Row(m, i))}
      rows == 1..GetNrRows(m)
      Patterns(n) == n \div MaxLimit + (IF n % MaxLimit = 0 THEN 0 ELSE 1)
  IN  Tally(IF align = 0
        THEN UNION {{Contribution(<<i, r.x>>, r.val, r.n, Patterns(r.n)) : r \in RunsOf(i)} :
                    i \in rows}
        ELSE UNION {{Contribution(<<i, b.x>>, b.val, b.val * align, 1) : b \in BlocksOf(i)} :
                    i \in rows})

Scaled(s, num, den) ==
  [d \in DOMAIN s |-> [nnz |-> (s[d].nnz * num) \div den,
                       npatterns |-> (s[d].npatterns * num) \div den]]

Added(s, t) ==
  Tally({Contribution(1, d, s[d].nnz, s[d].npatterns) : d \in DOMAIN s}
        \cup {Contribution(2, d, t[d].nnz, t[d].npatterns) : d \in DOMAIN t})

Enough(nnz) == nnz * 100 >= MinPerc * Nonzeros

(***************************************************************************)
(* CorrectBlockStats: blocks too large for one pattern count as several of *)
(* the largest dimension and a rest.  The dimensions that are frequent     *)
(* enough then absorb the larger ones: each dimension is split into pieces *)
(* of the largest frequent one that fits, and a rest.                      *)
(***************************************************************************)
CorrectBlockStats(s, align) ==
  LET maxDim == MaxLimit \div align
      Large(d) == d * align > MaxLimit
      first == Tally(
        {Contribution(d, d, s[d].nnz, s[d].npatterns) : d \in {d \in DOMAIN s : ~Large(d)}}
        \cup {Contribution(d, maxDim, (d \div maxDim) * s[d].npatterns * maxDim * align,
                           (d \div maxDim) * s[d].npatterns) :
                d \in {d \in DOMAIN s : Large(d)}}
        \cup {Contribution(d, d % maxDim,
                           s[d].nnz - (d \div maxDim) * s[d].npatterns * maxDim * align,
                           s[d].npatterns) :
                d \in {d \in DOMAIN s : Large(d) /\ d % maxDim >= 2}})
      frequent == {d \in DOMAIN first : Enough(first[d].nnz)}
      Fit(d) == Max({f \in frequent : f <= d})
      absorbed == {d \in DOMAIN s : \E f \in frequent : f <= d}
  IN  Tally({Contribution(d, Fit(d), (d \div Fit(d)) * (s[d].nnz \div d) * Fit(d),
                          (d \div Fit(d)) * s[d].npatterns) : d \in absorbed}
            \cup {Contribution(d, d % Fit(d), (s[d].nnz \div d) * (d % Fit(d)),
                               s[d].npatterns) :
                    d \in {d \in absorbed : d % Fit(d) >= 2}})

-----------------------------------------------------------------------------
(* EncodeAll.                                                              *)

Pending == {t \in IterOrders \ ignore : t \notin DOMAIN stats}

\* The loop over the orders in GenAllStats.  It looks at samples as long as the
\* matrix has more rows than there are samples.
BeginOrder ==
  /\ pc = "order" /\ Pending # {}
  /\ order' = SpmTypes[Min({i \in DOMAIN SpmTypes : SpmTypes[i] \in Pending})]
  /\ seen' = 0
  /\ IF sampling.windows /\ GetNrRows(spm) > Len(sampling.selected)
       THEN /\ at' = 1 /\ pc' = "window" /\ UNCHANGED spm
       ELSE /\ at' = 0 /\ pc' = "gather" /\ spm' = Transformed(spm, order')
  /\ UNCHANGED <<input, sampling, ignore, stats, deltas, encSeq, window, base>>

\* Can the sample be looked at: its number is set, it has an end and a count of
\* elements, and it begins within the rows the matrix has by now.
InBounds ==
  LET k == sampling.selected[at]
  IN  /\ k # Unset /\ k + 2 <= Len(sampling.splits) /\ k + 1 <= Len(sampling.nzeros)
      /\ sampling.splits[k + 1] <= GetNrRows(spm)

Sample ==
  LET k == sampling.selected[at] + 1
  IN  GetWindow(spm, sampling.splits[k], sampling.splits[k + 1] - sampling.splits[k])

\* A sample is taken and transformed, unless earlier patterns have captured all its
\* elements.
TakeSample ==
  /\ pc = "window" /\ at <= Len(sampling.selected) /\ InBounds
  /\ IF Sample.elems = <<>>
       THEN at' = at + 1 /\ UNCHANGED <<spm, window, seen, pc>>
       ELSE /\ window' = Transformed(Sample, order)
            /\ spm' = WithShared(spm, window')
            /\ seen' = seen + sampling.nzeros[sampling.selected[at] + 1]
            /\ pc' = "gather" /\ UNCHANGED at
  /\ UNCHANGED <<input, sampling, ignore, stats, deltas, encSeq, order, base>>

\* Where the numbers of the sample are read, or its first row is, there is no such
\* element of the vector or array.
SampleUndefined ==
  /\ pc = "window" /\ at <= Len(sampling.selected) /\ ~InBounds
  /\ pc' = "undefined"
  /\ UNCHANGED <<input, spm, sampling, ignore, stats, deltas, encSeq, order, window, at, seen,
                 base>>

Known == IF order \in DOMAIN stats THEN stats[order] ELSE <<>>

GatherStats ==
  /\ pc = "gather"
  /\ stats' = (order :> Added(Known, GenerateStats(IF at = 0 THEN spm ELSE window))) @@ stats
  /\ pc' = "back"
  /\ UNCHANGED <<input, spm, sampling, ignore, deltas, encSeq, order, window, at, seen, base>>

\* Faulty variant: the row pointers of the window are not put back.
TransformBack_NoPut ==
  /\ pc = "back"
  /\ IF at = 0 THEN /\ spm' = Transformed(spm, HORIZONTAL)
                    /\ pc' = "filter" /\ UNCHANGED <<window, at>>
               ELSE /\ spm' = spm /\ pc' = "window"
                    /\ window' = <<>> /\ at' = at + 1
  /\ UNCHANGED <<input, sampling, ignore, stats, deltas, encSeq, order, seen, base>>

\* The matrix, or the sample, is brought back to its own order.
TransformBack ==
  /\ pc = "back"
  /\ IF at = 0 THEN /\ spm' = Transformed(spm, HORIZONTAL)
                    /\ pc' = "filter" /\ UNCHANGED <<window, at>>
               ELSE LET back == Transformed(window, HORIZONTAL)
                    IN  /\ spm' = PutWindow(WithShared(spm, back), back)
                        /\ pc' = "window" /\ window' = <<>> /\ at' = at + 1
  /\ UNCHANGED <<input, sampling, ignore, stats, deltas, encSeq, order, seen, base>>

\* CorrectStats: from the samples to the whole matrix.
CorrectStats(s) == Scaled(s, Nonzeros, seen)

SamplesDone ==
  /\ pc = "window" /\ at > Len(sampling.selected)
  /\ stats' = IF order \in DOMAIN stats
                THEN [stats EXCEPT ![order] = CorrectStats(@)] ELSE stats @@ (order :> <<>>)
  /\ pc' = "filter"
  /\ UNCHANGED <<input, spm, sampling, ignore, deltas, encSeq, order, window, at, seen, base>>

\* Distances and dimensions that cover too little are dropped, the others are to be
\* encoded.
FilterStats ==
  /\ pc = "filter"
  /\ LET align == IsBlockType(order)
         corrected == IF align # 0 /\ input.splitBlocks
                        THEN CorrectBlockStats(stats[order], align) ELSE stats[order]
         kept == {d \in DOMAIN corrected : Enough(corrected[d].nnz)}
     IN  /\ stats' = [stats EXCEPT ![order] = Restrict(corrected, kept)]
         /\ deltas' = deltas @@ (order :> kept)
  /\ pc' = "order"
  /\ UNCHANGED <<input, spm, sampling, ignore, encSeq, order, window, at, seen, base>>

EndStats ==
  /\ pc = "order" /\ Pending = {}
  /\ pc' = "choose"
  /\ UNCHANGED <<input, spm, sampling, ignore, stats, deltas, encSeq, order, window, at, seen,
                 base>>

\* GetTypeScore: elements covered less patterns.
Score(t) ==
  FoldFunction(LAMBDA v, n : n + v.nnz - v.npatterns, 0, stats[t])

\* ChooseType: the first of the orders with the highest score.
Best ==
  LET scores == {Score(t) : t \in DOMAIN stats}
  IN  SpmTypes[Min({i \in DOMAIN SpmTypes :
                 SpmTypes[i] \in DOMAIN stats /\ Score(SpmTypes[i]) = Max(scores)})]

Useless == {t \in DOMAIN stats : Score(t) = 0}

\* Faulty variant: the order is not ignored afterwards.
Encode_NotIgnored ==
  /\ pc = "choose" /\ Useless # DOMAIN stats
  /\ spm' = Encoded(spm, Best, deltas[Best], input.splitBlocks)
  /\ base' = spm'
  /\ encSeq' = IF Len(encSeq) = EncSeqSize THEN encSeq
               ELSE Append(encSeq, [type |-> Best, deltas |-> deltas[Best]])
  /\ ignore' = ignore \cup Useless
  /\ stats' = <<>> /\ deltas' = <<>>
  /\ pc' = "order"
  /\ UNCHANGED <<input, sampling, order, window, at, seen>>

Encode ==
  /\ pc = "choose" /\ Useless # DOMAIN stats
  /\ spm' = Encoded(spm, Best, deltas[Best], input.splitBlocks)
  /\ base' = spm'
  /\ encSeq' = IF Len(encSeq) = EncSeqSize THEN encSeq
               ELSE Append(encSeq, [type |-> Best, deltas |-> deltas[Best]])
  /\ ignore' = ignore \cup Useless \cup {Best}
  /\ stats' = <<>> /\ deltas' = <<>>
  /\ pc' = "order"
  /\ UNCHANGED <<input, sampling, order, window, at, seen>>

Finish ==
  /\ pc = "choose" /\ Useless = DOMAIN stats
  /\ ignore' = ignore \cup Useless
  /\ pc' = "done"
  /\ UNCHANGED <<input, spm, sampling, stats, deltas, encSeq, order, window, at, seen, base>>

\* EncodeSerial: the user's orders one after the other, without statistics.  The
\* deltas of an order named again are added to those it had.
EncodeSerial ==
  /\ pc = "serial" /\ at < Len(input.serial)
  /\ LET chosen == input.serial[at + 1]
         known == IF chosen.type \in DOMAIN deltas THEN deltas[chosen.type] ELSE {}
     IN  /\ deltas' = (chosen.type :> (known \cup chosen.deltas)) @@ deltas
         /\ spm' = Encoded(spm, chosen.type, known \cup chosen.deltas, input.splitBlocks)
         /\ encSeq' = Append(encSeq, [type |-> chosen.type, deltas |-> chosen.deltas])
  /\ base' = spm' /\ ignore' = IterOrders /\ at' = at + 1
  /\ UNCHANGED <<input, sampling, stats, order, window, seen, pc>>

SerialDone ==
  /\ pc = "serial" /\ at = Len(input.serial)
  /\ pc' = "done"
  /\ UNCHANGED <<input, spm, sampling, ignore, stats, deltas, encSeq, order, window, at, seen,
                 base>>

Finished == pc \in Final /\ UNCHANGED vars

Next ==
  \/ EncodeSerial \/ SerialDone
  \/ BeginOrder \/ TakeSample \/ SampleUndefined \/ GatherStats \/ TransformBack
  \/ SamplesDone \/ FilterStats \/ EndStats \/ Encode \/ Finish
  \/ Finished

\* The thread runs on until it is at an end: it can, for there is no deadlock, and
\* each of its steps changes one of these.  (Stated without the matrix, for TLC
\* evaluates ENABLED.)
Advances ==
  /\ pc \notin Final
  /\ pc' \in Labels /\ at' \in 0..(Len(sampling.selected) + Len(input.serial) + 1)
  /\ <<pc, at>>' # <<pc, at>>

Spec == Init /\ [][Next]_vars /\ WF_<<pc, at>>(Advances)

-----------------------------------------------------------------------------
\* Scores are differences of unsigned counts, and the scaled counts of a sample
\* are asserted to stay within the matrix: at no time, before and after the filter,
\* does a distance cover more elements than there are, or fewer than two a pattern
\* (csx/drle.cc, CorrectStats, CorrectBlockStats, GetTypeScore).  Without sampling
\* the distances of an order together cover no more than the single elements that
\* are left.
StatsBounded ==
  LET free == {k \in DOMAIN spm.elems : ~HasPattern(spm.elems[k])}
  IN  \A t \in DOMAIN stats :
        /\ \A d \in DOMAIN stats[t] :
             stats[t][d].nnz <= Nonzeros /\ 2 * stats[t][d].npatterns <= stats[t][d].nnz
        /\ ~sampling.windows =>
             FoldFunction(LAMBDA v, n : n + v.nnz, 0, stats[t]) <= Cardinality(free)

\* Looking at samples, or at the whole matrix, transforms in place; between two
\* encodings the matrix is afterwards what it was, patterns of earlier rounds
\* included (csx/drle.cc, GenAllStats).
LookingLeavesMatrix == pc \in {"order", "window", "filter", "choose"} => spm = base

\* The order chosen is worth its round: what the statistics of the whole matrix
\* promise to be a pattern the encoder finds, and the matrix gets smaller
\* (csx/drle.cc, UpdateStats and DoEncode scan the row each in their own way).
EncodingGains ==
  [][Encode /\ ~sampling.windows => Len(spm'.elems) < Len(spm.elems)]_vars

\* Taking the encodings back, the last one first, gives the matrix that was loaded.
EncodingRestores ==
  pc = "done" =>
    FoldLeft(LAMBDA m, e : Decoded(m, e.type), spm, Reverse(encSeq)).elems
      = Loaded({[y |-> e.y, x |-> e.x, item |-> [pattern |-> NoPattern, vals |-> <<e>>]] :
                e \in input.entries}, input.cols).elems

\* Fewer samples than half of the windows are all set and have an end, and all but one
\* case of them has a count of elements: samples just short of half of the windows
\* take the last one, too, and if that is the rest's own, csx/drle.cc:206 reads its
\* count behind the vector (csx/drle.cc, SelectSplits, DoComputeSortSplitsByNNZ).
SamplesAreWindows ==
  LET windows == Len(sampling.splits) - 1
      samples == Len(sampling.selected)
  IN  2 * samples < windows =>
        \A i \in DOMAIN sampling.selected :
          LET k == sampling.selected[i]
          IN  /\ k # Unset /\ k < windows
              /\ k < Len(sampling.nzeros) \/ (2 * samples = windows - 1 /\ k = windows - 1)

\* Every sample begins within the rows the matrix has left.  Those that have no end or
\* no count (see SamplesAreWindows) are not what this is about.
WindowStartsInMatrix ==
  2 * Len(sampling.selected) + 2 < Len(sampling.splits) => pc # "undefined"

\* EncodeAll encodes no order twice, so that its 22 places suffice, and comes to an
\* end (csx/drle.cc, EncodeAll).  The user may name an order twice.
EncodeAllEnds ==
  /\ [](input.serial = <<>> =>
         \A i, j \in DOMAIN encSeq : encSeq[i].type = encSeq[j].type => i = j)
  /\ <>(pc \in Final)
=============================================================================
