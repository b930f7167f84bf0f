------------------------ MODULE MC_X86AddressSpaces ------------------------
(***************************************************************************)
(* Instantiates X86AddressSpaces with the code's cipher, as                *)
(* MC_TLBCacheX86 does: two processes that both map 0x400000 and 0x401000, *)
(* to different frames, and share the global 2 MiB kernel page 0x200000.  *)
(***************************************************************************)
EXTENDS MC_TLBCacheX86, X86AddressSpaces

CONSTANTS p1, p2

MCProcs == {p1, p2}

MCProcFrame == [p \in MCProcs |-> IF p = p1 THEN f1 ELSE f2]

\* The kernel page and two user pages that both processes map; in epoch 0
\* the huge page and 0x401000 share way 0's set.
MCSharedMappings ==
    { [vaddr |-> 2097152, logBytes |-> 21, global |-> TRUE],
      [vaddr |-> 4194304, logBytes |-> 12, global |-> FALSE],
      [vaddr |-> 4198400, logBytes |-> 12, global |-> FALSE] }

MCSharedVAs == {2097152, 4194304, 4198400}

ASView == <<View, cur, tables>>
=============================================================================
