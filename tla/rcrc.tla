-------------------------------- MODULE rcrc --------------------------------
(***************************************************************************)
(* The bit-by-bit CRC, src/rat/src/rat_rcrc.c, with the bit helpers of     *)
(* src/rat/include/rat/rbit.h that it uses.                                *)
(*                                                                         *)
(* An unsigned integer is the set of its one bits, and so is a polynomial  *)
(* over GF(2): ^ is the symmetric difference, a shift drops what leaves    *)
(* the type.  The code has no augmented register: init is XORed into the   *)
(* first bytes and bitWidth zero bits are appended by rcrc_result.         *)
(***************************************************************************)
EXTENDS rbit, Sequences, SequencesExt

(* The lowest bits, also when those are all there are.                    *)
mask(bits) == RBIT_MASK_FULL \cap 0..(bits - 1)

reflect(a, bits) == {i \in 0..(bits - 1) : bits - 1 - i \in a}

(* What rcrc_init asserts of its parameters.                               *)
Algorithm ==
    UNION {[bitWidth : {w}, poly : SUBSET mask(w), init : SUBSET mask(w),
            xorOut : SUBSET mask(w), refIn : BOOLEAN, refOut : BOOLEAN] :
              w \in 1..UINTMAX_BITS}

rcrc_init(a) == [algo |-> a, value |-> {}, initOffset |-> 0]

(* One more bit at the low end of the register, whose bits above bitWidth  *)
(* are never cleared.                                                      *)
BitIn(a, value, bit) ==
    Xor(Shl(value, 1) \cup RBIT_FLAG(0, bit),
        IF a.bitWidth - 1 \in value THEN a.poly ELSE {})

(* The bits of init that go into the byte that ends at offset.             *)
InitBits(a, offset) ==
    (0..(CHAR_BIT - 1)) \cap (IF a.bitWidth <= offset THEN Shl(a.init, offset - a.bitWidth)
                                                 ELSE Shr(a.init, a.bitWidth - offset))

(* Mutant of TakesInit: init is XORed into the first byte only.            *)
TakesInitOnce(p) == p.initOffset = 0

TakesInit(p) == p.initOffset < p.algo.bitWidth

rcrc_addByte(p, b) ==
    LET a == p.algo
        offset == IF TakesInit(p) THEN p.initOffset + CHAR_BIT ELSE p.initOffset
        in == IF a.refIn THEN reflect(b, CHAR_BIT) ELSE b
        byte == IF TakesInit(p) THEN Xor(in, InitBits(a, offset)) ELSE in
        shifted[i \in 0..CHAR_BIT] ==
            IF i = 0 THEN p.value ELSE BitIn(a, shifted[i - 1], CHAR_BIT - i \in byte)
    IN  [p EXCEPT !.value = shifted[CHAR_BIT], !.initOffset = offset]

rcrc_add(p, buf) == FoldLeft(rcrc_addByte, p, buf)

rcrc_result(p) ==
    LET a == p.algo
        shifted[i \in 0..a.bitWidth] ==
            IF i = 0 THEN p.value ELSE BitIn(a, shifted[i - 1], FALSE)
        masked == shifted[a.bitWidth] \cap mask(a.bitWidth)
    IN  Xor(IF a.refOut THEN reflect(masked, a.bitWidth) ELSE masked, a.xorOut)

rcrc_calc(a, buf) == rcrc_result(rcrc_add(rcrc_init(a), buf))

=============================================================================
