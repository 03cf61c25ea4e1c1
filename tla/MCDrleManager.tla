--------------------------- MODULE MCDrleManager ----------------------------
(***************************************************************************)
(* TLC instance of DrleManager: all small matrices without sampling, and   *)
(* tall ones with columns, diagonals and blocks under samplings of one to  *)
(* all windows.                                                            *)
(***************************************************************************)
EXTENDS DrleManager

Input(entries, cols, xform, split, percent, samples) ==
  [entries |-> entries, cols |-> cols, xform |-> xform, splitBlocks |-> split,
   percent |-> percent, samples |-> samples, serial |-> <<>>]

At(y, x) == [y |-> y, x |-> x]

(* Every matrix of three rows and columns in the one-dimensional orders,   *)
(* and of two rows and four columns in block orders.                       *)
Lines == {HORIZONTAL, VERTICAL, DIAGONAL, REV_DIAGONAL}
Blocks == {HORIZONTAL, BLOCK_R(2), BLOCK_C(2)}
Small ==
  {Input(m, 3, Lines, TRUE, 0, 100) : m \in SUBSET {At(y, x) : y \in 1..3, x \in 1..3}}
    \cup {Input(m, 4, Blocks, split, 0, 100) :
            m \in SUBSET {At(y, x) : y \in 1..2, x \in 1..4}, split \in BOOLEAN}

(* Two columns; a broken column beside a whole one; diagonals one after    *)
(* the other; a square over a column; a column of blocks with a diagonal;  *)
(* every other row; a column of two strides; two columns below isolated    *)
(* elements.                                                               *)
Tall == {
  {At(y, x) : y \in 1..8, x \in 1..2},
  {At(y, 1) : y \in 1..8} \cup {At(y, 3) : y \in {2, 3, 5, 6, 8}},
  {At(y, (y % 4) + 1) : y \in 1..9},
  {At(y, x) : y \in 1..4, x \in 1..4} \cup {At(y, 1) : y \in 5..8},
  {At(y, x) : y \in 1..8, x \in 2..3} \cup {At(y, y) : y \in 1..4},
  {At(y, x) : y \in {1, 3, 5, 7}, x \in 1..4},
  {At(y, 1) : y \in {1, 2, 3, 5, 7, 9}},
  {At(1, 4), At(2, 2), At(3, 4)} \cup {At(y, x) : y \in 4..13, x \in 1..2}}
XForms == {Lines, Blocks, {BLOCK_R(1), BLOCK_R(2), BLOCK_C(3), VERTICAL}}

(* Percentage and samples: none; one of several windows; one of three, the *)
(* last a rest; all of them; more than half; as many as there are splits;  *)
(* windows of single rows.                                                 *)
Samplings == {<<0, 1>>, <<20, 1>>, <<22, 1>>, <<40, 1>>, <<50, 2>>, <<100, 2>>, <<50, 3>>, <<100, 3>>,
              <<50, 5>>, <<100, 4>>, <<50, 100>>}

(* The user's choice: blocks before and after lines, an order named twice.  *)
Step(t, ds) == [type |-> t, deltas |-> ds]
Serials == {<<Step(BLOCK_C(2), {2}), Step(HORIZONTAL, {1}), Step(VERTICAL, {1, 2})>>,
            <<Step(VERTICAL, {2}), Step(DIAGONAL, {1}), Step(VERTICAL, {1})>>,
            <<Step(HORIZONTAL, {1}), Step(BLOCK_R(2), {2}), Step(REV_DIAGONAL, {1})>>}

MCInputs == Small
  \cup {[Input(m, 4, Lines, split, 0, 1) EXCEPT !.serial = s] :
           m \in Tall, split \in BOOLEAN, s \in Serials}
  \cup
  {Input(m, 4, xf, split, s[1], s[2]) : m \in Tall, xf \in XForms, split \in BOOLEAN,
                                        s \in Samplings}
=============================================================================
