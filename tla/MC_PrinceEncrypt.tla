-------------------------- MODULE MC_PrinceEncrypt --------------------------
(***************************************************************************)
(* Runs encrypt on every input and tweak of the reference table, under    *)
(* both outcomes of the undefined shift.                                    *)
(***************************************************************************)
EXTENDS PrinceEncrypt, PrinceVectors

MCInputs  == {2097152, 2101248, 4194304, 4198400, 4202496}
MCTweaks  == 0..3
MCShiftUB == {"mask", "zero"}

\* Total correctness of encrypt: every call returns, and what it returns is
\* the reference output for its input and key, whichever result the build
\* gives the shift by 64 in prince_shift_rows: the s-box, the M' matrices,
\* the round constants, the shift-rows rotation and the statement order all
\* agree with the cipher, and no statement keeps encrypt from its return.
EncryptReturnsVector ==
    <>(pc = Done /\ output = CipherTable[<<input, tweak>>])

\* spec.md section 4.1: forward shift-rows rotates row i left by 64 - 16i,
\* so the code's encrypt and the cipher the spec describes agree.
EncryptMatchesSpec ==
    pc = Done => output = spec_output
=============================================================================
