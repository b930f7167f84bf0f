-------------------------- MODULE MC_TLBCacheX86 --------------------------
(***************************************************************************)
(* Instantiates TLBCacheX86 for TLC.  The index function is the code's     *)
(* own cipher with prince_key = 0x0011223344556677: way i of randomize(va, *)
(* 0) in epoch rid is encrypt(va, prince_key ^ rid ^ i) % sets, read from  *)
(* the reference table that run prince_encrypt checks; for a power of two *)
(* sets dividing 2^16 that is the low word of the output % sets.           *)
(***************************************************************************)
EXTENDS TLBCacheX86, PrinceVectors, Bitwise

P == INSTANCE Prince

CONSTANTS f1, f2

MCFrames == {f1, f2}

\* A 2 MiB page at 0x200000 and three 4 KiB pages of the region 0x400000;
\* in epoch 0 the huge page, 0x401000 and 0x402000 share one set vector,
\* so inserting all three puts the vector under eviction pressure.
\* HugeGlobal says whether the huge page is global (a kernel mapping).
MCMappingsWith(HugeGlobal) ==
    { [vaddr |-> 2097152, logBytes |-> 21, global |-> HugeGlobal],
      [vaddr |-> 4194304, logBytes |-> 12, global |-> FALSE],
      [vaddr |-> 4198400, logBytes |-> 12, global |-> FALSE],
      [vaddr |-> 4202496, logBytes |-> 12, global |-> FALSE] }

MCMappingsNonGlobal == MCMappingsWith(FALSE)
MCMappingsGlobal    == MCMappingsWith(TRUE)

\* 0x201000 lies in the huge page and is found by lookup's 2 MiB pass.
MCVAs == {2097152, 2101248, 4194304, 4198400, 4202496}

PRFArgs == {Norm(v, 12) : v \in MCVAs} \cup {Norm(v, 21) : v \in MCVAs}

\* Every input the model hands randomize has a reference output.
ASSUME CipherTableCoversX86 ==
    \A va \in PRFArgs, rid \in 0..MaxRid, w \in WayIdx :
        <<va, rid ^^ w>> \in DOMAIN CipherTable

\* randomize(va, 0) for every input and epoch, computed when TLC starts.
IndexTableX86 ==
    [x \in PRFArgs \X (0..MaxRid) |->
        [w \in WayIdx |-> P!Wd(CipherTable[<<x[1], x[2] ^^ w>>], 0) % Sets]]

MCRandomize(va, rid) == IndexTableX86[<<va, rid>>]

\* The contents of an invalid slot are never read (lookup and demapPage
\* test valid first, evict only reaches a valid way 0 or valid later ways,
\* insert overwrites the whole entry), and evict only compares lruSeq, so
\* states that differ in invalid slots or in lruSeq values of the same
\* order are merged.
LruRank(s) == Cardinality({u \in ValidSlots(valid) : lruSeq[u] <= lruSeq[s]})

View == <<valid,
          [s \in Slots |-> IF valid[s] THEN <<entry[s], LruRank(s)>> ELSE NoEntry],
          random_id, evict_cnt, rerand_requests, global_page_max, pt>>
=============================================================================
