--------------------------- MODULE PrinceVectors ---------------------------
(***************************************************************************)
(* Reference outputs of encrypt (src/tlbsec_gem5/src/arch/x86/            *)
(* tlb_cache.hh) for prince_key = 0x0011223344556677: CipherTable[<<va, t>>] *)
(* is encrypt(va, prince_key ^ t) as the four 16-bit words of the result,  *)
(* low word first, computed by an independent 64-bit implementation of the *)
(* cipher.  The inputs are the page bases the TLB models look up (4 KiB    *)
(* and 2 MiB normalisations) and the tweaks asid ^ random_id they use.     *)
(***************************************************************************)
EXTENDS TLC

CipherTable ==
    <<2097152, 0>> :> <<28616, 50859, 64335, 55148>> @@
    <<2097152, 1>> :> <<12909, 22066, 23365, 19730>> @@
    <<2097152, 2>> :> <<53643, 17262, 11099, 30542>> @@
    <<2097152, 3>> :> <<19072, 24178, 59231, 25166>> @@
    <<2101248, 0>> :> <<1806, 54970, 21453, 2055>> @@
    <<2101248, 1>> :> <<40487, 17955, 62407, 37497>> @@
    <<2101248, 2>> :> <<33222, 34953, 19566, 16494>> @@
    <<2101248, 3>> :> <<57168, 23005, 50286, 63191>> @@
    <<4194304, 0>> :> <<62805, 45735, 47654, 26524>> @@
    <<4194304, 1>> :> <<23353, 54742, 11281, 59384>> @@
    <<4194304, 2>> :> <<986, 15818, 18217, 43921>> @@
    <<4194304, 3>> :> <<17374, 4918, 42196, 34543>> @@
    <<4198400, 0>> :> <<64742, 63207, 27733, 340>> @@
    <<4198400, 1>> :> <<38679, 37270, 64098, 33072>> @@
    <<4198400, 2>> :> <<19971, 30309, 51105, 1910>> @@
    <<4198400, 3>> :> <<3591, 3272, 42437, 61333>> @@
    <<4202496, 0>> :> <<28936, 53889, 63833, 45592>> @@
    <<4202496, 1>> :> <<59393, 22296, 21224, 61949>> @@
    <<4202496, 2>> :> <<62673, 2493, 58106, 32277>> @@
    <<4202496, 3>> :> <<25884, 50601, 30853, 37098>>
=============================================================================
