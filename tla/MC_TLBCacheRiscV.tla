------------------------- MODULE MC_TLBCacheRiscV -------------------------
(***************************************************************************)
(* Instantiates TLBCacheRiscV for TLC.  The index function is the code's   *)
(* own cipher (module Prince) with prince_key = 0x0011223344556677: way w *)
(* takes nibble w of encrypt(va, prince_key ^ key), as randomize does,     *)
(* reduced to the model's Sets (a power of two dividing 16, i.e. the low   *)
(* bits of the nibble).                                                    *)
(***************************************************************************)
EXTENDS TLBCacheRiscV, PrinceVectors, Bitwise

P == INSTANCE Prince

CONSTANTS f1, f2

MCFrames == {f1, f2}
MCAsids  == {1, 2}

\* Two 2 MiB regions.  asid 1 maps the first as one huge page and a 4 KiB
\* page of the second; asid 2 maps a 4 KiB page in each.  0x200000 is then
\* both a 2 MiB and a 4 KiB page base, in different address spaces.
MCMappings ==
    { [vaddr |-> 2097152, asid |-> 1, logBytes |-> 21],
      [vaddr |-> 4194304, asid |-> 1, logBytes |-> 12],
      [vaddr |-> 2097152, asid |-> 2, logBytes |-> 12],
      [vaddr |-> 4194304, asid |-> 2, logBytes |-> 12] }

\* A 4 KiB page inside the huge page is also looked up and demapped.
MCVAs == {2097152, 2101248, 4194304}

\* The page bases only: the addresses of the shootdowns that follow a remap.
MCPageVAs == {2097152, 4194304}

PRFInputs == {Norm(v, 12) : v \in MCVAs} \cup {Norm(v, 21) : v \in MCVAs}
PRFArgs   == PRFInputs \X MCAsids \X (0..MaxRid)

\* Every input the model hands randomize has a reference output.
ASSUME CipherTableCovers ==
    \A x \in PRFArgs : <<x[1], x[2] ^^ x[3]>> \in DOMAIN CipherTable

\* randomize(va, asid) in epoch rid: way w takes nibble w of
\* encrypt(va, prince_key ^ asid ^ rid), reduced to Sets.  The cipher
\* outputs are read from the reference table, which run prince_encrypt
\* checks against the statement-by-statement model of encrypt; the indices
\* are computed once, when TLC starts.
IndexTable ==
    [x \in PRFArgs |->
        [w \in 0..Ways-1 |-> P!Nibble(CipherTable[<<x[1], x[2] ^^ x[3]>>], w) % Sets]]

MCRandomize(va, asid, rid) == IndexTable[<<va, asid, rid>>]

\* The contents of an invalid slot are never read: every reader of entry
\* (lookup, demapPage, demapPageComplex) tests valid first, and insert
\* overwrites the whole entry.  States that differ only there are merged.
View == <<valid, [s \in Slots |-> IF valid[s] THEN entry[s] ELSE NoEntry],
          lruSeq, random_id, evict_cnt, rerand_requests, pt, fault>>

=============================================================================
