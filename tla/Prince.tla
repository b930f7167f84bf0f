------------------------------- MODULE Prince -------------------------------
(***************************************************************************)
(* The reduced-round PRINCE-style block function that the TLB cache uses   *)
(* as its index PRF (src/tlbsec_gem5/src/arch/x86/tlb_cache.hh, the static *)
(* members prince_* and encrypt).                                          *)
(*                                                                         *)
(* TLC integers are 32 bits wide, so a 64-bit block is represented as the *)
(* tuple <<w_0, w_1, w_2, w_3>> of its four 16-bit words, w_0 being bits  *)
(* 0..15 (Wd(b, k) is w_k).  Tuples, not functions, so that TLC computes   *)
(* each layer once.  Every operation of the code is a word- or nibble-wise operation *)
(* on that representation; shifts of the 64-bit block are by multiples of  *)
(* 16 bits, i.e. word moves.                                               *)
(*                                                                         *)
(* ShiftUB names what the build produces for the one undefined shift of   *)
(* prince_shift_rows (a shift of a uint64_t by 64): "mask" (x86 masks the *)
(* count to 0, the value is unchanged) or "zero".  encrypt itself, a       *)
(* sequence of these layers, is modelled statement by statement in module  *)
(* PrinceEncrypt.                                                          *)
(***************************************************************************)
EXTENDS Integers, FiniteSets

Word  == 0..65535
Block == Word \X Word \X Word \X Word

Wd(b, k) == b[k + 1]

\* The block whose word k is f(k).
MkBlock(f(_)) == <<f(0), f(1), f(2), f(3)>>

\* Builds the block of a 64-bit constant from its four 16-bit words, low first.
Blk(w0, w1, w2, w3) == <<w0, w1, w2, w3>>

\* The block of a non-negative integer below 2^31 (an address or an ASID):
\* its words 2 and 3 are zero.
ToBlock(n) == Blk(n % 65536, (n \div 65536) % 65536, 0, 0)

\* Word operations are written bit by bit without recursion, which keeps
\* TLC's evaluation of the nested rounds shallow.
Bit(v, j) == (v \div 2^j) % 2

\* The 16-bit word whose bit j is f(j).
FromBits(f(_)) ==
    f(0) + 2 * f(1) + 4 * f(2) + 8 * f(3) + 16 * f(4) + 32 * f(5)
    + 64 * f(6) + 128 * f(7) + 256 * f(8) + 512 * f(9) + 1024 * f(10)
    + 2048 * f(11) + 4096 * f(12) + 8192 * f(13) + 16384 * f(14)
    + 32768 * f(15)

XorWord(a, b) == FromBits(LAMBDA j : (Bit(a, j) + Bit(b, j)) % 2)
OrWord(a, b)  == FromBits(LAMBDA j : IF Bit(a, j) + Bit(b, j) > 0 THEN 1 ELSE 0)

BlockXor(a, b) == MkBlock(LAMBDA k : XorWord(Wd(a, k), Wd(b, k)))

\* Nibble i (0..15) of a block.
Nibble(b, i) == (Wd(b, i \div 4) \div (16^(i % 4))) % 16

\* Maps f over the four nibbles of every word.
NibbleMap(b, f(_)) ==
    MkBlock(LAMBDA k : f(Wd(b, k) % 16)
                       + 16 * f((Wd(b, k) \div 16) % 16)
                       + 256 * f((Wd(b, k) \div 256) % 16)
                       + 4096 * f((Wd(b, k) \div 4096) % 16))

SBoxTable    == <<11, 15, 3, 2, 10, 12, 9, 1, 6, 7, 8, 0, 14, 5, 13, 4>>
SBoxInvTable == <<11, 7, 3, 2, 15, 13, 8, 9, 10, 6, 4, 0, 5, 14, 12, 1>>

prince_sbox(n)     == SBoxTable[n + 1]
prince_sbox_inv(n) == SBoxInvTable[n + 1]

\* The S-layer applies the s-box to each of the 16 nibbles.
prince_s_layer(b)     == NibbleMap(b, prince_sbox)
prince_s_layer_inv(b) == NibbleMap(b, prince_sbox_inv)

M0 == <<\h0111, \h2220, \h4404, \h8088, \h1011, \h0222, \h4440, \h8808,
        \h1101, \h2022, \h0444, \h8880, \h1110, \h2202, \h4044, \h0888>>
M1 == <<\h1110, \h2202, \h4044, \h0888, \h0111, \h2220, \h4404, \h8088,
        \h1011, \h0222, \h4440, \h8808, \h1101, \h2022, \h0444, \h8880>>

\* GF(2) product: the XOR of row i of mat for every set bit i of the low 16
\* bits of x, i.e. bit j of the result is the parity of the rows that are
\* selected and have bit j set.
gf2_mul_16(x, mat) ==
    FromBits(LAMBDA j :
        Cardinality({i \in 0..15 : Bit(x, i) = 1 /\ Bit(mat[i + 1], j) = 1}) % 2)

\* The outer two words are multiplied by m_0, the inner two by m_1.
prince_m_prime_layer(b) ==
    MkBlock(LAMBDA k : gf2_mul_16(Wd(b, k), IF k \in {0, 3} THEN M0 ELSE M1))

\* Right and left shifts of a block by r words (16 * r bits).  A shift by 64
\* bits (r = 4) is undefined in C; its result is the build's choice.
ShrWords(b, r, ub) ==
    IF r = 4 THEN (IF ub = "mask" THEN b ELSE Blk(0, 0, 0, 0))
    ELSE MkBlock(LAMBDA k : IF k + r <= 3 THEN Wd(b, k + r) ELSE 0)
ShlWords(b, r, ub) ==
    IF r = 4 THEN (IF ub = "mask" THEN b ELSE Blk(0, 0, 0, 0))
    ELSE MkBlock(LAMBDA k : IF k - r >= 0 THEN Wd(b, k - r) ELSE 0)

BlockOr(a, b) == MkBlock(LAMBDA k : OrWord(Wd(a, k), Wd(b, k)))

\* Row i of the block: the bits under 0xF000F000F000F000 >> 4i, i.e. nibble
\* 3 - i of every word.
Row(b, i) == MkBlock(LAMBDA k : ((Wd(b, k) \div 16^(3 - i)) % 16) * 16^(3 - i))

\* prince_shift_rows: row i is rotated right by shift bits, where shift is
\* 16i for the inverse and 64 - 16i for the forward direction, computed as
\* (row >> shift) | (row << (64 - shift)); the rows are OR-ed together.
\* (Mutant: the two halves of each rotation combined with ^ instead of |.)
prince_shift_rows_xor(b, inverse, ub) ==
    LET XorBlk(x, y) == MkBlock(LAMBDA k : XorWord(Wd(x, k), Wd(y, k)))
        RowOut(i) ==
            LET r == IF inverse THEN i ELSE 4 - i
            IN  XorBlk(ShrWords(Row(b, i), r, ub), ShlWords(Row(b, i), 4 - r, ub))
    IN  BlockOr(BlockOr(RowOut(0), RowOut(1)), BlockOr(RowOut(2), RowOut(3)))

prince_shift_rows(b, inverse, ub) ==
    LET RowOut(i) ==
            LET r == IF inverse THEN i ELSE 4 - i
            IN  BlockOr(ShrWords(Row(b, i), r, ub), ShlWords(Row(b, i), 4 - r, ub))
    IN  BlockOr(BlockOr(RowOut(0), RowOut(1)), BlockOr(RowOut(2), RowOut(3)))

\* Shift-rows as spec.md section 4.1 states it: row i is rotated LEFT by
\* 64 - 16i bits (forward) or by 16i bits (inverse), i.e. word k of the
\* result takes row i of word k + i (forward) or k - i (inverse), mod 4.
SpecShiftRows(b, inverse) ==
    MkBlock(LAMBDA k :
        LET src(i) == IF inverse THEN (k - i) % 4 ELSE (k + i) % 4
        IN  Wd(Row(b, 0), src(0)) + Wd(Row(b, 1), src(1))
            + Wd(Row(b, 2), src(2)) + Wd(Row(b, 3), src(3)))

prince_m_layer(b, ub)     == prince_shift_rows(prince_m_prime_layer(b), FALSE, ub)
prince_m_layer_inv(b, ub) == prince_m_prime_layer(prince_shift_rows(b, TRUE, ub))

RC1 == Blk(\h7344, \h0370, \h8a2e, \h1319)
RC2 == Blk(\h31d0, \h299f, \h3822, \ha409)

\* The CPU key of both TLB variants: 0x0011223344556677.
PrinceKey == Blk(\h6677, \h4455, \h2233, \h0011)
=============================================================================
