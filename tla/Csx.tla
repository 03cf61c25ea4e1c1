-------------------------------- MODULE Csx ---------------------------------
(***************************************************************************)
(* From a thread's part of a matrix to its CSX form and back to products:  *)
(* DRLE_Manager replaces runs by patterns (module Drle), CsxManager writes *)
(* the rows as bytes (ctl, module Ctl) and an array of values, and the     *)
(* generated kernel walks those bytes.  A symmetric matrix is encoded in   *)
(* two parts, the columns before the thread's rows and those of its rows,  *)
(* and the kernel mirrors each element.  A value is the matrix entry it    *)
(* belongs to; rows count from the thread's first one.                     *)
(***************************************************************************)
EXTENDS Drle, Ctl, MultTemplates

CONSTANTS
  Inputs,        \* the parts considered: [entries, cols, symmetric, rowStart]
  Orders,        \* iteration orders the encoder may use (xforms)
  DeltaChoices,  \* the sets that deltas_to_encode_ is chosen from
  MaxEncodings   \* bound: encodings applied one after the other

\* Columns fit in 32 bits, rows in 64.
ASSUME InputsAssumption ==
  \A in \in Inputs :
    /\ in.cols \in 0..Power(ByteSize, 4) /\ in.rowStart \in Nat /\ in.symmetric \in BOOLEAN
    /\ IsFiniteSet(in.entries)
    /\ in.entries \subseteq [y : 1..Power(ByteSize, 8), x : 1..in.cols]

\* No block is too high (wide) for one of its rows (columns) to be a pattern.
ASSUME OrdersAssumption ==
  Orders \subseteq IterOrders /\ \A t \in Orders : IsBlockType(t) <= MaxLimit
ASSUME DeltasAssumption == \A deltas \in DeltaChoices : deltas \subseteq Nat \ {0}
ASSUME SizeAssumption == SizeMax >= MaxLimit
ASSUME BoundAssumption == MaxEncodings \in Nat

VARIABLES
  input,   \* the part that was loaded
  split,   \* split_blocks_
  parts,   \* the internal matrices being encoded: one, or m1_ and m2_
  paths,   \* of each part, the orders encoded: those are ignored from then on
  stage,   \* "encode", "write", "multiply", "done" or "aborted"
  full,    \* full_column_indices_
  spm,     \* the encoded matrix to be written
  row,     \* MakeCsx: rows written
  out,     \* MakeCsx: the manager's fields
  run      \* the kernel's locals, and what it has multiplied

vars == <<input, split, parts, paths, stage, full, spm, row, out, run>>

Item(e) == [pattern |-> NoPattern, vals |-> <<e>>]
LoadedPart(entries) ==
  Loaded({[y |-> e.y, x |-> e.x, item |-> Item(e)] : e \in entries}, input.cols)
Original == LoadedPart(input.entries)

\* DivideMatrix: by the first column of the thread's own rows.
DivideMatrix ==
  <<LoadedPart({e \in input.entries : e.x < input.rowStart + 1}),
    LoadedPart({e \in input.entries : e.x >= input.rowStart + 1})>>

\* MergeMatrix: row by row; a part that was encoded may have lost its last rows.
MergeMatrix(m1, m2) ==
  LET RowOf(m, i) == IF GetNrRows(m) >= i THEN Row(m, i) ELSE <<>>
  IN  Rebuilt(Original, [i \in 1..GetNrRows(Original) |-> RowOf(m1, i) \o RowOf(m2, i)])

NewOut == [newRow |-> FALSE, emptyRows |-> 0, lastCol |-> 1, rowJmps |-> FALSE,
           patterns |-> <<>>, ctl |-> Create(0), values |-> <<>>]
NewRun == [at |-> 1, y |-> 0, x |-> 0, touched |-> <<>>, mirrored |-> <<>>, diagonal |-> <<>>]

Init ==
  /\ input \in Inputs
  /\ split \in BOOLEAN /\ (input.symmetric => ~split)
  /\ parts = IF input.symmetric THEN DivideMatrix ELSE <<Original>>
  /\ paths = [i \in DOMAIN parts |-> <<>>]
  /\ stage = "encode" /\ full = FALSE /\ spm = Original
  /\ row = 0 /\ out = NewOut /\ run = NewRun

\* EncodeAll and EncodeSerial: any order not yet used, any distances.
Encode(i, t, deltas) ==
  /\ stage = "encode" /\ t \notin ToSet(paths[i])
  /\ Len(FlattenSeq(paths)) < MaxEncodings
  /\ parts' = [parts EXCEPT ![i] = Encoded(@, t, deltas, split)]
  /\ paths' = [paths EXCEPT ![i] = Append(@, t)]
  /\ UNCHANGED <<input, split, stage, full, spm, row, out, run>>

-----------------------------------------------------------------------------
(* MakeCsx: the units, row by row.                                         *)

StartMake(fullIndices) ==
  /\ stage = "encode"
  /\ stage' = "write" /\ full' = fullIndices
  /\ spm' = IF input.symmetric THEN MergeMatrix(parts[1], parts[2]) ELSE parts[1]
  /\ out' = [NewOut EXCEPT !.ctl = Create(6 * Cardinality(input.entries))]
  /\ UNCHANGED <<input, split, parts, paths, row, run>>

DeltaPattern(bytes) == <<DELTA, bytes>>
GetPatternId(p) == <<p.order, IF IsBlockType(p.order) = 0 THEN p.delta ELSE p.other>>

\* Faulty variant: every unit gets a flag of its own.
GetFlag_Always(o, id) == Len(o.patterns)

\* GetFlag: a pattern's flag is its place in the order of first use.
GetFlag(o, id) ==
  IF id \in ToSet(o.patterns)
    THEN (CHOOSE k \in DOMAIN o.patterns : o.patterns[k] = id) - 1
    ELSE Len(o.patterns)

\* Faulty variant: the flags are set after the array has grown.
UpdateNewRow_SetLate(o, flags) ==
  IF ~o.newRow THEN o
  ELSE IF o.emptyRows = 0
    THEN [o EXCEPT !.newRow = FALSE, !.ctl = AddAt(@, flags, CTL_NR_BIT)]
  ELSE [o EXCEPT !.newRow = FALSE, !.emptyRows = 0, !.rowJmps = TRUE,
          !.ctl = AddAt(da_put_ul(@, o.emptyRows + 1), flags, CTL_NR_BIT + CTL_RJMP_BIT)]

\* UpdateNewRow: the first unit of a row carries the jump over empty rows.
UpdateNewRow(o, flags) ==
  IF ~o.newRow THEN o
  ELSE IF o.emptyRows = 0
    THEN [o EXCEPT !.newRow = FALSE, !.ctl = AddAt(@, flags, CTL_NR_BIT)]
  ELSE [o EXCEPT !.newRow = FALSE, !.emptyRows = 0, !.rowJmps = TRUE,
          !.ctl = da_put_ul(AddAt(@, flags, CTL_NR_BIT + CTL_RJMP_BIT), o.emptyRows + 1)]

\* Flags and size of a unit, the row jump, and where its columns begin.
PutHead(o, id, size, x) ==
  LET flag == GetFlag(o, id)
      da == Alloc(o.ctl, <<flag, size>>)
      named == [o EXCEPT !.ctl = da,
                         !.patterns = IF flag = Len(@) THEN Append(@, id) ELSE @]
      begun == UpdateNewRow(named, LastAlloc(da, 2))
  IN  [begun EXCEPT !.ctl = IF full THEN Alloc(@, FixedBytes(x - 1, 4))
                                    ELSE da_put_ul(@, x - o.lastCol)]

\* AddXs: a unit of single elements, delta encoded.
AddXs(o, xs) ==
  LET deltas == [k \in 1..(Len(xs) - 1) |-> xs[k + 1] - xs[k]]
      bytes == DeltaBytes(Max(Range(deltas) \cup {0}))
      head == PutHead(o, DeltaPattern(bytes), Len(xs), xs[1])
      data == [i \in 1..(bytes * (Len(xs) - 1)) |->
                 FixedBytes(deltas[((i - 1) \div bytes) + 1], bytes)[((i - 1) % bytes) + 1]]
  IN  IF xs = <<>> THEN o
      ELSE [head EXCEPT !.lastCol = Last(xs),
              !.ctl = IF Len(xs) > 1 THEN Alloc(Align(@, bytes), data) ELSE @]

\* ColIncreaseJmp: only a pattern of the matrix's own order moves the column.
ColIncreaseJmp(p, t, x) == IF p.order = t THEN x + (p.size - 1) * p.delta ELSE x

AddPattern(o, e) ==
  [PutHead(o, GetPatternId(e.item.pattern), e.item.pattern.size, e.x) EXCEPT
     !.lastCol = ColIncreaseJmp(e.item.pattern, spm.type, e.x)]

\* The loop of DoRow and DoSymRow: single elements are collected until a
\* pattern, or until a unit of them is full.
WriteElem(acc, e) ==
  LET next ==
        IF HasPattern(e) THEN [xs |-> <<>>, o |-> AddPattern(AddXs(acc.o, acc.xs), e)]
        ELSE IF Len(acc.xs) = SizeMax THEN [xs |-> <<e.x>>, o |-> AddXs(acc.o, acc.xs)]
        ELSE [xs |-> Append(acc.xs, e.x), o |-> acc.o]
  IN  [next EXCEPT !.o.values = @ \o e.item.vals]

DoElems(o, elems) ==
  LET done[k \in 0..Len(elems)] ==
        IF k = 0 THEN [xs |-> <<>>, o |-> o] ELSE WriteElem(done[k - 1], elems[k])
  IN  AddXs(done[Len(elems)].o, done[Len(elems)].xs)

DoRow(o, elems) == DoElems([o EXCEPT !.lastCol = 1], elems)

\* Faulty variant: a delta unit may span the two parts of a row.
DoSymRow_OneRun(o, elems) == DoRow(o, elems)

\* DoSymRow: the row's first part ends its last unit before the second begins.
DoSymRow(o, elems) ==
  LET InSecond(e) == e.x >= input.rowStart + 1
      n == SelectInSeq(elems, InSecond)
      first == IF n = 0 THEN elems ELSE SubSeq(elems, 1, n - 1)
      second == IF n = 0 THEN <<>> ELSE SubSeq(elems, n, Len(elems))
  IN  DoElems(DoRow(o, first), second)

\* A pattern too many fails the assertion of GetFlag.
WriteRow ==
  /\ stage = "write" /\ row < GetNrRows(spm)
  /\ LET elems == Row(spm, row + 1)
         written == IF input.symmetric THEN DoSymRow(out, elems) ELSE DoRow(out, elems)
     IN  /\ elems # <<>>
         /\ out' = [written EXCEPT !.newRow = TRUE]
  /\ stage' = IF Len(out'.patterns) > PatternsMax + 1 THEN "aborted" ELSE stage
  /\ row' = row + 1
  /\ UNCHANGED <<input, split, parts, paths, full, spm, run>>

\* The first row is not marked, so an empty first row only marks the next one.
SkipRow ==
  /\ stage = "write" /\ row < GetNrRows(spm)
  /\ Row(spm, row + 1) = <<>>
  /\ out' = IF out.newRow THEN [out EXCEPT !.emptyRows = @ + 1]
                          ELSE [out EXCEPT !.newRow = TRUE]
  /\ row' = row + 1
  /\ UNCHANGED <<input, split, parts, paths, stage, full, spm, run>>

FinishMake ==
  /\ stage = "write" /\ row = GetNrRows(spm)
  /\ stage' = "multiply"
  /\ UNCHANGED <<input, split, parts, paths, full, spm, row, out, run>>

-----------------------------------------------------------------------------
(* The kernel: csx_spmv_tmpl.c and csx_sym_spmv_tmpl.c with the hooks that *)
(* CsxJit fills in and the template of each pattern in use.                *)

\* DoNewRowHook: rows to move on, and where the unit's bytes go on.  A kernel
\* for a matrix without row jumps does not look for them.
NewRowHook(flags, at) ==
  IF ~test_bit(flags, CTL_NR_BIT) THEN [val |-> 0, next |-> at]
  ELSE IF out.rowJmps /\ test_bit(flags, CTL_RJMP_BIT) THEN ul_get(out.ctl.elems, at)
  ELSE [val |-> 1, next |-> at]

\* next_x: the unit's column.
NextX(x, at) ==
  IF full THEN [val |-> fixed_get(out.ctl.elems, at, 4), next |-> at + 4]
  ELSE LET jump == ul_get(out.ctl.elems, at)
       IN  [val |-> Unsigned(x + jump.val), next |-> jump.next]

\* The deltas of a unit, from the first aligned position on.
GetDeltas(at, bytes, size) ==
  LET from == RoundUp(at - 1, bytes) + 1
  IN  [val |-> [k \in 1..(size - 1) |->
                  fixed_get(out.ctl.elems, from + (k - 1) * bytes, bytes)],
       next |-> from + (size - 1) * bytes]

\* Where the mirrored products go: to the temporary vector until a unit of the
\* row starts at the thread's own rows.
MirrorTarget(sameRow, x) ==
  IF (sameRow /\ run.mirrored # <<>> /\ Last(run.mirrored).to = "y") \/ x >= input.rowStart
    THEN "y" ELSE "temp"

\* Faulty variant: a row jump multiplies the diagonal of one row only.
Diagonals_OnePerJump(y, jmp) == IF jmp = 0 THEN <<>> ELSE <<y + 1>>

\* The rows that the kernel leaves behind: each is multiplied by its diagonal.
Diagonals(y, jmp) == [k \in 1..jmp |-> y + k]

ExecUnit ==
  /\ stage = "multiply" /\ run.at <= Len(out.ctl.elems)
  /\ LET flags == out.ctl.elems[run.at]
         size == out.ctl.elems[run.at + 1]
         sameRow == ~test_bit(flags, CTL_NR_BIT)
         jump == NewRowHook(flags, run.at + 2)
         col == NextX(IF sameRow THEN run.x ELSE 0, jump.next)
         id == out.patterns[PatternOf(flags) + 1]
         deltas == IF id[1] = DELTA /\ size > 1 THEN GetDeltas(col.next, id[2], size)
                   ELSE [val |-> <<>>, next |-> col.next]
         y == run.y + jump.val
         general == Mult(id, size, deltas.val, y + 1, col.val + 1)
         symmetric == SymMult(id, size, deltas.val, y + 1, col.val + 1)
         target == MirrorTarget(sameRow, col.val)
     IN  run' = [at |-> deltas.next, y |-> y, x |-> LeavesX(id, size, deltas.val, col.val),
                 touched |-> run.touched \o
                   (IF input.symmetric THEN [k \in DOMAIN symmetric |-> symmetric[k].product]
                                       ELSE general),
                 mirrored |-> IF input.symmetric
                   THEN run.mirrored \o [k \in DOMAIN symmetric |->
                                           [to |-> target, at |-> symmetric[k].mirror]]
                   ELSE <<>>,
                 diagonal |-> IF input.symmetric
                                THEN run.diagonal \o Diagonals(run.y, jump.val)
                                ELSE <<>>]
  /\ UNCHANGED <<input, split, parts, paths, stage, full, spm, row, out>>

\* The symmetric kernel ends with the diagonals of the rows from the last one on.
FinishKernel ==
  /\ stage = "multiply" /\ run.at > Len(out.ctl.elems)
  /\ stage' = "done"
  /\ run' = IF input.symmetric
              THEN [run EXCEPT !.diagonal = @ \o Diagonals(run.y, spm.nrRows - run.y)]
              ELSE run
  /\ UNCHANGED <<input, split, parts, paths, full, spm, row, out>>

Finished == stage \in {"done", "aborted"} /\ UNCHANGED vars

Next ==
  \/ \E i \in DOMAIN parts, t \in Orders, deltas \in DeltaChoices : Encode(i, t, deltas)
  \/ \E fullIndices \in BOOLEAN : StartMake(fullIndices)
  \/ WriteRow \/ SkipRow \/ FinishMake
  \/ ExecUnit \/ FinishKernel
  \/ Finished

Spec == Init /\ [][Next]_vars

-----------------------------------------------------------------------------
\* Every value of a pattern is the entry the pattern reaches by its direction
\* and distance, through all later transformations and encodings; no entry is
\* in two elements, or in two parts, and none is lost (csx/drle.cc, csx/spm.cc).
Reached(p, e) ==
  [j \in 1..p.size |-> IF p = NoPattern THEN Point(e.y, e.x)
                       ELSE Along(p.order, Point(e.y, e.x), (j - 1) * p.delta)]

PatternsReachTheirEntries ==
  LET PlacesOf(i, k) == {<<i, k, j>> : j \in DOMAIN parts[i].elems[k].item.vals}
      Places == UNION {UNION {PlacesOf(i, k) : k \in DOMAIN parts[i].elems} : i \in DOMAIN parts}
      entry == [p \in Places |-> parts[p[1]].elems[p[2]].item.vals[p[3]]]
  IN  /\ \A i \in DOMAIN parts : \A e \in ToSet(Points(parts[i])) :
           e.item.vals = Reached(e.item.pattern, e)
      /\ IsInjective(entry) /\ Range(entry) = input.entries

\* The kernel reads from the bytes what the writer put there: it multiplies
\* each value with the entry it belongs to, in the order of the values array, and
\* leaves none out, whatever the lengths of numbers, the padding, the row jumps
\* and the growth of the byte array; in a symmetric matrix it multiplies each value
\* once more with the mirrored entry (csx/csx.cc, the templates).
KernelMultipliesMatrix ==
  /\ stage \in {"multiply", "done"} =>
       run.touched = SubSeq(out.values, 1, Len(run.touched))
  /\ \A k \in DOMAIN run.mirrored :
       run.mirrored[k].at = Point(out.values[k].x, out.values[k].y)
  /\ stage = "done" => IsInjective(run.touched) /\ ToSet(run.touched) = input.entries

\* The mirrored products of the symmetric kernel go to the thread's own rows of
\* y exactly when their column is one of them: other threads' rows are only
\* reached through the temporary vector (csx_sym_spmv_tmpl.c).
MirrorsInPhase ==
  \A k \in DOMAIN run.mirrored :
    run.mirrored[k].to = IF run.touched[k].x > input.rowStart THEN "y" ELSE "temp"

\* The symmetric kernel multiplies the diagonal of each of its rows exactly once,
\* in order: by the rows it leaves behind and the loop at its end.
DiagonalsOnce ==
  stage = "done" /\ input.symmetric => run.diagonal = [k \in 1..spm.nrRows |-> k]

\* The assertion of GetFlag fails only for a matrix with more kinds of units than
\* a flags byte can name: units of the same kind share their flag.
AbortsOnlyOutOfFlags ==
  stage = "aborted" => Cardinality(ToSet(out.patterns)) > PatternsMax + 1
=============================================================================
