-------------------------------- MODULE Ctl ---------------------------------
(***************************************************************************)
(* The byte array of CSX (csx/ctl_ll.h, csx/delta.h): flags, sizes, and    *)
(* numbers of fixed and of variable length.  The sizes of the machine are  *)
(* parameters: a byte has ByteSize values, of which half say that a number *)
(* of variable length goes on.                                             *)
(***************************************************************************)
EXTENDS Dynarray

CONSTANTS
  ByteSize,     \* 256
  PatternsMax,  \* CTL_PATTERNS_MAX, 63
  SizeMax       \* CTL_SIZE_MAX, 255

ASSUME ByteAssumption == ByteSize \in Nat /\ ByteSize > 2 /\ ByteSize % 2 = 0
ASSUME PatternsAssumption == PatternsMax \in Nat /\ SizeMax \in Nat \ {0}

\* The bits of a flags byte, above the pattern's number.
CTL_RJMP_BIT == PatternsMax + 1
CTL_NR_BIT == 2 * CTL_RJMP_BIT
test_bit(flags, bit) == (flags \div bit) % 2 = 1
PatternOf(flags) == flags % CTL_RJMP_BIT

\* 1 << shift in da_put_ul and ul_get.
More == ByteSize \div 2

\* 1 << n, in the machine's own sizes.
Power(base, n) ==
  LET power[k \in 0..n] == IF k = 0 THEN 1 ELSE base * power[k - 1]
  IN  power[n]

\* Numbers are unsigned: a negative one is a large one.
Unsigned(n) == n % Power(ByteSize, 8)

\* What n is shifted to by one digit to the base after the other.
Shifted(n, base, digits) ==
  LET left[k \in 0..digits] == IF k = 0 THEN n ELSE left[k - 1] \div base
  IN  left

\* Bytes that hold any number when each has but half its values.
ULBytes == 16

\* da_put_ul: least significant part first; one allocation for each byte is the
\* same as one for all.
UL(val) ==
  LET left == Shifted(Unsigned(val), More, ULBytes)
      last == Min({k \in 0..ULBytes : left[k] < More})
  IN  [k \in 1..(last + 1) |-> (left[k - 1] % More) + (IF k <= last THEN More ELSE 0)]
da_put_ul(da, val) == Alloc(da, UL(val))

\* ul_get: the number at a position, and the position behind it.
ul_get(ctl, at) ==
  LET last == Min({k \in at..Len(ctl) : ctl[k] < More})
      ret[k \in 0..(last - at)] ==
        IF k = 0 THEN ctl[last] ELSE (ctl[last - k] - More) + More * ret[k - 1]
  IN  [val |-> ret[last - at], next |-> last + 1]

\* A number as so many bytes, and back (da_put_u32, u8_get, u16_get, u32_get).
FixedBytes(val, bytes) ==
  LET left == Shifted(val, ByteSize, bytes)
  IN  [k \in 1..bytes |-> left[k - 1] % ByteSize]
fixed_get(ctl, at, bytes) ==
  LET ret[k \in 0..bytes] ==
        IF k = 0 THEN 0 ELSE ctl[at + bytes - k] + ByteSize * ret[k - 1]
  IN  ret[bytes]

\* getDeltaSize: bytes for numbers up to max.
DeltaBytes(max) ==
  IF max < Power(ByteSize, 1) THEN 1
  ELSE IF max < Power(ByteSize, 2) THEN 2
  ELSE IF max < Power(ByteSize, 4) THEN 4
  ELSE 8
=============================================================================
