--------------------------- MODULE PrinceEncrypt ---------------------------
(***************************************************************************)
(* encrypt (src/tlbsec_gem5/src/arch/x86/tlb_cache.hh), the index PRF of   *)
(* both TLB caches, executed statement by statement: output is the local   *)
(* uint64_t of the function and pc the statement about to run.  Each step  *)
(* applies one statement of the body to the value the previous one left,  *)
(* with the layers of module Prince.                                       *)
(*                                                                         *)
(* spec_output runs the same statements with shift-rows as spec.md states *)
(* it (Prince!SpecShiftRows), so that the two readings can be compared.    *)
(***************************************************************************)
EXTENDS Integers

CONSTANTS
    Inputs,     \* the 64-bit inputs (addresses below 2^31)
    Tweaks,     \* the values t of the key prince_key ^ t (asid ^ random_id)
    ShiftUB     \* the outcomes the build may give the undefined shift by 64

P == INSTANCE Prince

VARIABLES input, tweak, ub, output, spec_output, pc

vars == <<input, tweak, ub, output, spec_output, pc>>

\* The key argument of encrypt.
key == P!BlockXor(P!PrinceKey, P!ToBlock(tweak))

\* The body of encrypt, one entry per statement, in the code's order.
Done == 12

\* code selects the code's shift-rows, otherwise the spec's.
ShiftRowsOf(code, b, inverse) ==
    IF code THEN P!prince_shift_rows(b, inverse, ub) ELSE P!SpecShiftRows(b, inverse)

Statement(n, o, code) ==
    CASE n \in {1, 5, 9} -> P!BlockXor(o, key)                   \* output ^= key
      [] n = 2  -> P!BlockXor(o, P!RC1)                          \* ^= RC1
      [] n = 6  -> P!BlockXor(o, P!RC2)                          \* ^= RC2
      [] n \in {3, 7} -> ShiftRowsOf(code, P!prince_m_prime_layer(o), FALSE) \* m_layer
      [] n = 4  -> P!prince_s_layer_inv(o)
      [] n \in {8, 10} -> P!prince_s_layer(o)
      [] n = 11 -> P!prince_m_prime_layer(o)

Init ==
    /\ input \in Inputs
    /\ tweak \in Tweaks
    /\ ub \in ShiftUB
    /\ output = P!ToBlock(input)
    /\ spec_output = P!ToBlock(input)
    /\ pc = 1

\* One statement of encrypt.
Step ==
    /\ pc < Done
    /\ output' = Statement(pc, output, TRUE)
    /\ spec_output' = Statement(pc, spec_output, FALSE)
    /\ pc' = pc + 1
    /\ UNCHANGED <<input, tweak, ub>>

Next == Step

Spec == Init /\ [][Next]_vars

\* encrypt is straight-line code called by the simulation thread, which
\* runs it to its return: while a statement is left, the next one is taken.
\* Only Step moves pc, so this is weak fairness of Step, stated on pc so
\* that its enabledness does not evaluate the cipher layers.
Advance == pc < Done /\ pc' = pc + 1

FairSpec == Spec /\ WF_pc(Advance)

TypeOK ==
    /\ input \in Inputs
    /\ tweak \in Tweaks
    /\ ub \in ShiftUB
    /\ output \in P!Block
    /\ spec_output \in P!Block
    /\ pc \in 1..Done
=============================================================================
