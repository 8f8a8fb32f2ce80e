-------------------------------- MODULE rbit --------------------------------
(***************************************************************************)
(* Unsigned integers as the sets of their one bits, for the modules that   *)
(* work on bits: | is union, & is intersection, ^ the symmetric            *)
(* difference, and a shift drops what leaves a uintmax_t.  The masks are   *)
(* those of src/rat/include/rat/rbit.h.                                    *)
(***************************************************************************)
EXTENDS Integers

CONSTANTS
    CHAR_BIT,       \* bits of a byte
    UINTMAX_BITS    \* bits of a uintmax_t

(* A uintmax_t is made of bytes, of at least one.                          *)
ASSUME BitAssumption ==
    CHAR_BIT \in Nat \ {0} /\ UINTMAX_BITS \in Nat /\ CHAR_BIT <= UINTMAX_BITS

RBIT_MASK_FULL == 0..(UINTMAX_BITS - 1)

Byte == SUBSET (0..(CHAR_BIT - 1))

Xor(a, b) == (a \ b) \cup (b \ a)

Shl(a, n) == {i + n : i \in a} \cap RBIT_MASK_FULL
Shr(a, n) == {i - n : i \in a} \cap RBIT_MASK_FULL

(* RBIT_FLAG(offset, value != 0).                                          *)
RBIT_FLAG(offset, value) == IF value THEN {offset} ELSE {}

(* The number n as the bits of a byte: what is above them is cut off.      *)
LowByte(n) == {i \in 0..(CHAR_BIT - 1) : (n \div (2^i)) % 2 = 1}

=============================================================================
