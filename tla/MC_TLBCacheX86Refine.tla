------------------------ MODULE MC_TLBCacheX86Refine ------------------------
(***************************************************************************)
(* The model of MC_TLBCacheX86 with the refinement mapping Answer carried  *)
(* in an auxiliary variable, so that TLC computes it once per step rather  *)
(* than at every use inside TLBAbstract's actions.  answer = Answer in     *)
(* every state.                                                            *)
(***************************************************************************)
EXTENDS MC_TLBCacheX86

VARIABLE answer

MCInit == Init /\ answer = Answer

\* Answer reads valid, entry and random_id only.
MCNext ==
    /\ Next
    /\ answer' = IF UNCHANGED <<valid, entry, random_id>> THEN answer ELSE Answer'

AbsAux == INSTANCE TLBAbstract WITH Keys <- Mappings, tlb <- answer, None <- NoEntry

\* With non-global pages only, the x86 cache implements TLBAbstract: a page
\* starts answering only through insert, with the page table's frame, and
\* no remap with its demapPage, flushNonGlobal, flushAll (of insert or of
\* the host) or eviction leaves a page answering with a frame the page
\* table no longer holds.
ImplementsAbstractX86 == AbsAux!Spec

MCView == <<View, answer>>
=============================================================================
