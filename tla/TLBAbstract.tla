---------------------------- MODULE TLBAbstract ----------------------------
(***************************************************************************)
(* What a TLB cache promises its host, whatever its indexing: for every    *)
(* translation (a mapping of the page table) it either holds nothing or   *)
(* the frame the page table holds now.                                     *)
(*                                                                         *)
(* tlb[k] is what a lookup of translation k returns (None on a miss).  A   *)
(* cache may forget translations at any step; only an insert makes one   *)
(* answer, and the insert of k makes k answer with the current frame; a   *)
(* change of the page table followed by its shootdown leaves k missing.   *)
(***************************************************************************)
CONSTANTS Keys, Frames, InitFrame, None

VARIABLES tlb, pt

Init ==
    /\ tlb = [k \in Keys |-> None]
    /\ pt = [k \in Keys |-> InitFrame]

\* What a step may leave for k: what was there or nothing; an insert may
\* also make k answer with the current frame.
Kept(k)  == {tlb[k], None}
Churn(k) == Kept(k) \cup {pt[k]}

\* lookup, demap, flush: translations are forgotten, none is learnt.
Forget ==
    /\ \A k \in Keys : tlb'[k] \in Kept(k)
    /\ UNCHANGED pt

\* insert of k: k answers with the current frame afterwards; the insert
\* may also evict, and may change the epoch so that current copies of other
\* translations answer again.
Insert(k) ==
    /\ tlb'[k] = pt[k]
    /\ \A j \in Keys : tlb'[j] \in Churn(j)
    /\ UNCHANGED pt

\* The page table entry of k changes to f and the shootdown forgets k; it
\* may forget others too.
Remap(k, f) ==
    /\ pt' = [pt EXCEPT ![k] = f]
    /\ tlb'[k] = None
    /\ \A j \in Keys \ {k} : tlb'[j] \in Kept(j)

Next ==
    \/ Forget
    \/ \E k \in Keys : Insert(k)
    \/ \E k \in Keys, f \in Frames : Remap(k, f)

Spec == Init /\ [][Next]_<<tlb, pt>>

\* The abstract cache never answers with anything but the current frame.
Coherent == \A k \in Keys : tlb[k] \in {None, pt[k]}
=============================================================================
