----------------------- MODULE MC_TLBCacheRiscVRefine -----------------------
(***************************************************************************)
(* The model of MC_TLBCacheRiscV with the refinement mapping carried in an *)
(* auxiliary variable.                                                     *)
(***************************************************************************)
EXTENDS MC_TLBCacheRiscV

\* The huge page of ASID 1 and both 4 KiB pages of ASID 2: ASID 2's two
\* pages compete for its set vectors, so its inserts rotate its epoch and
\* leave copies behind, while the huge page shares the base 0x200000.
MCRefineMappings ==
    { [vaddr |-> 2097152, asid |-> 1, logBytes |-> 21],
      [vaddr |-> 2097152, asid |-> 2, logBytes |-> 12],
      [vaddr |-> 4194304, asid |-> 2, logBytes |-> 12] }

(* Refinement check.  TLC would evaluate the refinement mapping Answer    *)
(* afresh at every use inside TLBAbstract's actions; the auxiliary        *)
(* variable answer carries its value along, so that it is computed once   *)
(* per step.  answer = Answer in every state, so the property below is   *)
(* ImplementsAbstract.                                                     *)

VARIABLE answer

MCInit == Init /\ answer = Answer
\* Answer reads valid, entry and random_id only.
MCNext ==
    /\ Next
    /\ answer' = IF UNCHANGED <<valid, entry, random_id>> THEN answer ELSE Answer'

AbsAux == INSTANCE TLBAbstract WITH Keys <- Mappings, tlb <- answer, None <- NoEntry

\* The cache implements TLBAbstract (see ImplementsAbstract): translations
\* only start answering through insert, and no remap, shootdown, epoch
\* change or eviction leaves one answering with an old frame.
ImplementsAbstractAux == AbsAux!Spec

MCView == <<View, answer>>
=============================================================================
