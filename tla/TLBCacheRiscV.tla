--------------------------- MODULE TLBCacheRiscV ---------------------------
(***************************************************************************)
(* The per-ASID skewed TLB cache of the RISC-V ISA                         *)
(* (src/tlbsec_gem5/src/arch/riscv/tlb_cache.cc, class RiscVTLBCache),     *)
(* driven by its host: the gem5 TLB, which inserts a page-table walk       *)
(* result after a miss, and the OS, which changes a mapping and then       *)
(* shoots the old translation down.                                        *)
(*                                                                         *)
(* The table cacheData[set][way] is the three functions valid, entry and   *)
(* lruSeq over Slots = sets \X ways.  The code keeps lruSeq inside the     *)
(* entry; insert saves and restores it around the entry write, so it is a  *)
(* property of the slot and is kept as a variable of its own here.         *)
(* random_id and evict_cnt are the per-ASID epoch counters.                *)
(***************************************************************************)
EXTENDS Integers, FiniteSets, SequencesExt

CONSTANTS
    Ways,           \* ways of the table (the code: 4)
    Sets,           \* sets of the table (the code: 16)
    MaxEvict,       \* MAX_EVICT, eviction pressure that triggers a new epoch
    MaxRid,         \* bound on random_id[a], so that the model is finite
    Asids,          \* the address-space identifiers in use
    Mappings,       \* the pages the page tables map: [vaddr, asid, logBytes]
    Frames,         \* physical frames a mapping may point to
    InitFrame,      \* the frame every mapping points to at the start
    VAs,            \* virtual addresses the host looks up and demaps
    SATLB,          \* the build flag SATLB: plain set-associative indexing
    Shootdown,      \* what the OS calls after a remap: "page" or "complex"
    NoEntry,        \* the contents of an entry never written
    Randomize(_, _, _) \* randomize: encrypt(va, prince_key ^ asid ^ rid) cut
                       \* into one set index per way

ASSUME Assumptions ==
    /\ Ways \in 1..4            \* updatePLRUSet knows the ranks 1..4 only
    /\ Sets \in Nat \ {0}
    /\ MaxEvict \in Nat \ {0}
    /\ MaxRid \in Nat
    /\ Asids \subseteq 1..65535
    /\ \A m \in Mappings : m.asid \in Asids /\ m.logBytes \in {12, 21}
                           /\ m.vaddr % 2^m.logBytes = 0
    /\ InitFrame \in Frames
    /\ SATLB \in BOOLEAN
    /\ Shootdown \in {"page", "complex"}

WayIdx == 0..Ways-1
SetIdx == 0..Sets-1
Slots  == SetIdx \X WayIdx
NoSlot == <<-1, -1>>

VARIABLES
    valid,           \* cacheData[s][w].valid
    entry,           \* cacheData[s][w].entry without lruSeq
    lruSeq,          \* cacheData[s][w].entry.lruSeq
    random_id,       \* random_id[asid], the epoch mixed into the PRF key
    evict_cnt,       \* evict_cnt[asid], eviction pressure in this epoch
    rerand_requests, \* number of epoch changes
    pt,              \* the host's page table: mapping -> frame
    fault            \* TRUE once an assert(false) of the code has fired

vars == <<valid, entry, lruSeq, random_id, evict_cnt, rerand_requests,
          pt, fault>>

Entries == [vaddr : {m.vaddr : m \in Mappings}, asid : Asids,
            logBytes : {12, 21}, frame : Frames]

\* The translation an entry caches, without its frame.
Tag(e) == [vaddr |-> e.vaddr, asid |-> e.asid, logBytes |-> e.logBytes]

\* va >> lb << lb
Norm(va, lb) == (va \div 2^lb) * 2^lb

-----------------------------------------------------------------------------
(* Index computation: randomize, or the SATLB indexing of the same call    *)
(* sites.  The key is prince_key ^ process_id ^ random_id[process_id];     *)
(* prince_key is folded into Randomize.                                    *)

SetVectorIn(va, lb, asid, rid) ==
    IF SATLB THEN [w \in WayIdx |-> (va \div 2^lb) % Sets]
    ELSE Randomize(va, asid, rid)

SetVector(va, lb, asid) == SetVectorIn(va, lb, asid, random_id[asid])

\* One pass of lookup/demapPage: the first way whose slot in the set vector
\* holds a valid entry of page size lb with this vaddr and asid.
FirstMatch(va, lb, asid) ==
    LET sv == SetVector(va, lb, asid)
        ws == {w \in WayIdx : LET s == <<sv[w], w>> IN
                               /\ valid[s]
                               /\ entry[s].logBytes = lb
                               /\ entry[s].vaddr = va
                               /\ entry[s].asid = asid}
    IN  IF ws = {} THEN NoSlot ELSE LET w == Min(ws) IN <<sv[w], w>>

\* (Mutant: the 2 MiB pass dropped.)
Search4KOnly(va, asid) == FirstMatch(Norm(va, 12), 12, asid)

\* The two passes: the 4 KiB page of va, then its 2 MiB page.
Search(va, asid) ==
    LET va4 == Norm(va, 12)
        hit4 == FirstMatch(va4, 12, asid)
    IN  IF hit4 # NoSlot THEN hit4 ELSE FirstMatch(Norm(va4, 21), 21, asid)

-----------------------------------------------------------------------------
(* updatePLRUSet(set, way): the slot becomes rank 1; then the unseen slot  *)
(* of rank 1 becomes 2, the unseen one of rank 2 becomes 3 and the unseen  *)
(* one of rank 3 becomes 4, each search stopping the cascade when it finds *)
(* nothing.  Each search takes the lowest such way.                        *)

RECURSIVE Cascade(_, _, _, _)
Cascade(lru, set, seen, r) ==
    LET c == {i \in WayIdx \ seen : lru[<<set, i>>] = r}
    IN  IF r = 4 \/ c = {} THEN lru
        ELSE Cascade([lru EXCEPT ![<<set, Min(c)>>] = r + 1], set,
                     seen \cup {Min(c)}, r + 1)

\* (Mutant: the slot becomes rank 1 and no other rank moves.)
updatePLRUSetNoCascade(lru, set, way) == [lru EXCEPT ![<<set, way>>] = 1]

updatePLRUSet(lru, set, way) ==
    IF lru[<<set, way>>] = 1 THEN lru
    ELSE Cascade([lru EXCEPT ![<<set, way>>] = 1], set, {way}, 1)

\* The assert(false) of updatePLRUSet: no other slot of the set had rank 1.
PLRUAssertFires(lru, set, way) ==
    /\ lru[<<set, way>>] # 1
    /\ ~\E i \in WayIdx \ {way} : lru[<<set, i>>] = 1

\* evict(set_arr): start with way 0 and move to a later valid way whose
\* lruSeq is strictly greater.
evict(sv) ==
    FoldLeft(LAMBDA best, i :
                 IF /\ valid[<<sv[i], i>>]
                    /\ lruSeq[<<sv[i], i>>] > lruSeq[<<sv[best], best>>]
                 THEN i ELSE best,
             0, [j \in 1..Ways-1 |-> j])

FreeWays(sv) == {w \in WayIdx : ~valid[<<sv[w], w>>]}

\* (Mutant: the counter is not reset when it reaches MaxEvict.)
NextEvictCntNoReset(a, pressure, rotate) ==
    IF ~pressure THEN evict_cnt ELSE [evict_cnt EXCEPT ![a] = @ + 1]

\* evict_cnt after an insert of ASID a: counted under pressure, reset on a
\* new epoch.
NextEvictCnt(a, pressure, rotate) ==
    IF ~pressure THEN evict_cnt
    ELSE [evict_cnt EXCEPT ![a] = IF rotate THEN 0 ELSE @ + 1]

\* (Mutant: demapPage without its 2 MiB pass.)
DemapPageValid4KOnly(va, asn) ==
    LET s == FirstMatch(Norm(va, 12), 12, asn)
    IN  IF s = NoSlot THEN valid ELSE [valid EXCEPT ![s] = FALSE]

\* demapPage as a function of valid: invalidate the first match, if any.
DemapPageValid(va, asn) ==
    LET s == Search(va, asn)
    IN  IF s = NoSlot THEN valid ELSE [valid EXCEPT ![s] = FALSE]

\* demapPageComplex as a function of valid: a sweep over all slots, with 0
\* as the wildcard address and the wildcard ASID.
ComplexHits(s, va, asn) ==
    /\ va = 0 \/ Norm(va, entry[s].logBytes) = entry[s].vaddr
    /\ asn = 0 \/ entry[s].asid = asn

\* (Mutant: the sweep stops at the first slot it invalidates.)
DemapComplexValidFirstHit(va, asn) ==
    LET hits == {s \in Slots : valid[s] /\ ComplexHits(s, va, asn)}
    IN  IF hits = {} THEN valid
        ELSE [valid EXCEPT ![CHOOSE s \in hits : TRUE] = FALSE]

DemapComplexValid(va, asn) ==
    [s \in Slots |-> valid[s] /\ ~ComplexHits(s, va, asn)]

-----------------------------------------------------------------------------
Init ==
    /\ valid = [s \in Slots |-> FALSE]
    /\ entry \in [Slots -> {NoEntry}]
    /\ lruSeq = [s \in Slots |-> s[2] + 1]
    /\ random_id = [a \in Asids |-> 0]
    /\ evict_cnt = [a \in Asids |-> 0]
    /\ rerand_requests = 0
    /\ pt = [m \in Mappings |-> InitFrame]
    /\ fault = FALSE

\* lookup(va, asid) that hits: the slot is promoted and its entry returned.
\* A miss changes nothing.
Lookup(va, asid) ==
    LET s == Search(va, asid)
    IN  /\ s # NoSlot
        /\ lruSeq' = updatePLRUSet(lruSeq, s[1], s[2])
        /\ fault' = PLRUAssertFires(lruSeq, s[1], s[2])
        /\ UNCHANGED <<valid, entry, random_id, evict_cnt, rerand_requests, pt>>

\* insert(vpn, entry) of the page-table walk result for mapping m, which the
\* host does after lookup missed.  A free way of the set vector is taken;
\* if there is none, eviction pressure is counted and at MaxEvict the ASID
\* moves to a new epoch and the new set vector is searched for a free way;
\* failing that, evict picks the victim.  The slot keeps its lruSeq and is
\* promoted.
Insert(m) ==
    LET a        == m.asid
        addr     == Norm(m.vaddr, m.logBytes)
        pressure == ~SATLB /\ FreeWays(SetVector(addr, m.logBytes, a)) = {}
        rotate   == pressure /\ evict_cnt[a] + 1 = MaxEvict
        rid      == IF rotate THEN random_id[a] + 1 ELSE random_id[a]
        sv       == SetVectorIn(addr, m.logBytes, a, rid)
        way      == IF FreeWays(sv) # {} THEN Min(FreeWays(sv)) ELSE evict(sv)
        s        == <<sv[way], way>>
    IN  /\ Search(m.vaddr, a) = NoSlot
        /\ rid <= MaxRid
        /\ valid' = [valid EXCEPT ![s] = TRUE]
        /\ entry' = [entry EXCEPT ![s] = [vaddr |-> m.vaddr, asid |-> a,
                                          logBytes |-> m.logBytes, frame |-> pt[m]]]
        /\ lruSeq' = updatePLRUSet(lruSeq, sv[way], way)
        /\ fault' = PLRUAssertFires(lruSeq, sv[way], way)
        /\ evict_cnt' = NextEvictCnt(a, pressure, rotate)
        /\ random_id' = [random_id EXCEPT ![a] = rid]
        /\ rerand_requests' = IF rotate THEN rerand_requests + 1 ELSE rerand_requests
        /\ UNCHANGED pt

\* demapPage(va, asn): the PRF-directed targeted invalidate.
DemapPage(va, asn) ==
    /\ valid' = DemapPageValid(va, asn)
    /\ UNCHANGED <<entry, lruSeq, random_id, evict_cnt, rerand_requests, pt, fault>>

\* demapPageComplex(va, asn): the linear sweep.
DemapPageComplex(va, asn) ==
    /\ valid' = DemapComplexValid(va, asn)
    /\ UNCHANGED <<entry, lruSeq, random_id, evict_cnt, rerand_requests, pt, fault>>

\* flushAll(): a new epoch for every ASID and every slot invalid.
FlushAll ==
    /\ \A a \in Asids : random_id[a] < MaxRid
    /\ rerand_requests' = rerand_requests + 1
    /\ random_id' = [a \in Asids |-> random_id[a] + 1]
    /\ evict_cnt' = [a \in Asids |-> 0]
    /\ valid' = [s \in Slots |-> FALSE]
    /\ UNCHANGED <<entry, lruSeq, pt, fault>>

\* The OS points mapping m at frame f and then shoots the old translation
\* down with demapPage or demapPageComplex.
Remap(m, f) ==
    /\ f # pt[m]
    /\ pt' = [pt EXCEPT ![m] = f]
    /\ valid' = IF Shootdown = "page" THEN DemapPageValid(m.vaddr, m.asid)
                ELSE DemapComplexValid(m.vaddr, m.asid)
    /\ UNCHANGED <<entry, lruSeq, random_id, evict_cnt, rerand_requests, fault>>

\* An assert(false) aborts the simulation: nothing happens after it.
Next ==
    /\ ~fault
    /\ \/ \E va \in VAs, a \in Asids : Lookup(va, a)
       \/ \E m \in Mappings : Insert(m)
       \/ \E va \in VAs, a \in Asids : DemapPage(va, a)
       \/ \E va \in VAs \cup {0}, a \in Asids \cup {0} : DemapPageComplex(va, a)
       \/ FlushAll
       \/ \E m \in Mappings, f \in Frames : Remap(m, f)

Spec == Init /\ [][Next]_vars

-----------------------------------------------------------------------------
TypeOK ==
    /\ valid \in [Slots -> BOOLEAN]
    /\ entry \in [Slots -> Entries \cup {NoEntry}]
    /\ lruSeq \in [Slots -> 1..4]
    /\ random_id \in [Asids -> 0..MaxRid]
    /\ evict_cnt \in [Asids -> 0..MaxEvict-1]
    /\ rerand_requests \in Nat
    /\ pt \in [Mappings -> Frames]
    /\ fault \in BOOLEAN

\* TLB coherence: whatever lookup(va, asid) would return carries the frame
\* the page table holds now.  Since the OS shoots a translation down after
\* every remap, a stale frame may only be returned if the shootdown left a
\* copy of the old entry that lookup can still reach, now or after a later
\* epoch change of its ASID (insert's rotation, demapPage's PRF search).
LookupCoherent ==
    \A va \in VAs, a \in Asids :
        LET s == Search(va, a)
        IN  s # NoSlot => entry[s].frame = pt[Tag(entry[s])]

\* tPLRU well-formedness: in every set the lruSeq values of the ways are
\* exactly 1..Ways, so updatePLRUSet's assert never fires, through any mix
\* of promotions by lookup and insert and of invalidations that leave
\* lruSeq in place.
PLRUWellFormed ==
    /\ ~fault
    /\ \A set \in SetIdx : {lruSeq[<<set, w>>] : w \in WayIdx} = 1..Ways

\* At-most-one-presence: no two valid slots cache the same translation.
\* insert only runs after lookup missed, but an epoch change leaves the old
\* copies valid where the new set vector no longer looks.
AtMostOnePresence ==
    \A s1, s2 \in Slots :
        (s1 # s2 /\ valid[s1] /\ valid[s2]) => Tag(entry[s1]) # Tag(entry[s2])


-----------------------------------------------------------------------------
(* Refinement: the answer the cache gives for translation k is the frame   *)
(* of the copy a lookup pass of k's page size reaches first.               *)

Answer == [k \in Mappings |->
              LET s == FirstMatch(k.vaddr, k.logBytes, k.asid)
              IN  IF s = NoSlot THEN NoEntry ELSE entry[s].frame]

Abs == INSTANCE TLBAbstract WITH Keys <- Mappings, tlb <- Answer, None <- NoEntry

\* The cache implements TLBAbstract: insert makes its translation answer
\* with the page table's frame, and no step (an epoch change of insert
\* that makes old copies reachable again, a demap that uncovers a copy in a
\* later way, a lookup) makes any translation answer with a frame the page
\* table no longer holds.
ImplementsAbstract == Abs!Spec
=============================================================================
