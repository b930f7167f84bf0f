---------------------------- MODULE TLBCacheX86 ----------------------------
(***************************************************************************)
(* The non-ASID skewed TLB cache of the x86 ISA                            *)
(* (src/tlbsec_gem5/src/arch/x86/tlb_cache.cc, class TLBCache), driven by  *)
(* its host: the gem5 TLB, which inserts a page-table walk result after a  *)
(* miss and stamps the entry it uses with its access counter, and the OS,  *)
(* which changes a mapping and shoots it down with demapPage (invlpg) and  *)
(* switches address spaces with flushNonGlobal (a CR3 write).              *)
(*                                                                         *)
(* There is one address space at a time: lookup and demapPage take no     *)
(* ASID, randomize is always called with process_id 0, and one epoch      *)
(* random_id serves the whole table.  Global pages survive                 *)
(* flushNonGlobal, which nevertheless starts a new epoch.                  *)
(*                                                                         *)
(* lruSeq is the host's counter value in the entry; evict only compares    *)
(* the lruSeq of valid slots, so the model keeps the order: a stamp gives  *)
(* the slot a value above every other valid slot and renumbers the others  *)
(* 1, 2, ... in their old order.                                           *)
(***************************************************************************)
EXTENDS Integers, FiniteSets, SequencesExt

CONSTANTS
    Ways,           \* ways of the table (the code: a parameter)
    Sets,           \* sets of the table (the code: a parameter)
    MaxEvict,       \* MAX_EVICT, eviction pressure that triggers flushAll
    MaxRid,         \* bound on random_id, so that the model is finite
    Mappings,       \* the pages the page table maps: [vaddr, logBytes, global]
    Frames,         \* physical frames a mapping may point to
    InitFrame,      \* the frame every mapping points to at the start
    VAs,            \* virtual addresses the host looks up and demaps
    NoEntry,        \* the contents of an entry never written
    Randomize(_, _) \* randomize(va, 0) in epoch rid: way i takes
                    \* encrypt(va, prince_key ^ rid ^ i) % sets

ASSUME AssumptionsX86 ==
    /\ Ways \in Nat \ {0}
    /\ Sets \in Nat \ {0}
    /\ MaxEvict \in Nat \ {0}
    /\ MaxRid \in Nat
    /\ \A m \in Mappings : m.logBytes \in {12, 21} /\ m.global \in BOOLEAN
                           /\ m.vaddr % 2^m.logBytes = 0
    /\ InitFrame \in Frames

WayIdx == 0..Ways-1
SetIdx == 0..Sets-1
Slots  == SetIdx \X WayIdx
NoSlot == <<-1, -1>>

VARIABLES
    valid,           \* cacheData[s][w].valid
    entry,           \* cacheData[s][w].entry without lruSeq, and pageOffset
    lruSeq,          \* cacheData[s][w].entry.lruSeq, as an order
    random_id,       \* the epoch mixed into the PRF key
    evict_cnt,       \* eviction pressure in this epoch
    rerand_requests, \* number of epoch changes forced by eviction pressure
    global_page_max, \* high-water mark of valid global slots
    pt               \* the host's page table: mapping -> frame

vars == <<valid, entry, lruSeq, random_id, evict_cnt, rerand_requests,
          global_page_max, pt>>

Entries == [vaddr : {m.vaddr : m \in Mappings}, logBytes : {12, 21},
            global : BOOLEAN, frame : Frames]

\* The mapping an entry caches.
Tag(e) == [vaddr |-> e.vaddr, logBytes |-> e.logBytes, global |-> e.global]

\* va >> lb << lb
Norm(va, lb) == (va \div 2^lb) * 2^lb

-----------------------------------------------------------------------------
(* lookup and demapPage: a 4 KiB pass over the set vector of va, then a    *)
(* 2 MiB pass over that of its huge page, each stopping at the first way   *)
(* whose valid entry has the pass's page size and address.                 *)

FirstMatch(va, lb) ==
    LET sv == Randomize(va, random_id)
        ws == {w \in WayIdx : LET s == <<sv[w], w>> IN
                               /\ valid[s]
                               /\ entry[s].logBytes = lb
                               /\ entry[s].vaddr = va}
    IN  IF ws = {} THEN NoSlot ELSE LET w == Min(ws) IN <<sv[w], w>>

\* (Mutant: lookup and demapPage without their 2 MiB pass.)
Search4KOnly(va) == FirstMatch(Norm(va, 12), 12)

Search(va) ==
    LET va4  == Norm(va, 12)
        hit4 == FirstMatch(va4, 12)
    IN  IF hit4 # NoSlot THEN hit4 ELSE FirstMatch(Norm(va4, 21), 21)

ValidSlots(v) == {s \in Slots : v[s]}

\* The host's stamp lruSeq = nextSeq() on slot s, the valid slots being vs.
\* Invalid slots keep their value.
Stamp(lru, vs, s) ==
    FoldSet(LAMBDA t, f :
                [f EXCEPT ![t] = IF t = s THEN Cardinality(vs)
                                 ELSE Cardinality({u \in vs \ {s} : lru[u] <= lru[t]})],
            lru, vs)

\* evict(set_arr): start with way 0 and move to a later valid way whose
\* lruSeq is strictly smaller.
evict(sv) ==
    FoldLeft(LAMBDA best, i :
                 IF /\ valid[<<sv[i], i>>]
                    /\ lruSeq[<<sv[i], i>>] < lruSeq[<<sv[best], best>>]
                 THEN i ELSE best,
             0, [j \in 1..Ways-1 |-> j])

FreeWays(v, sv) == {w \in WayIdx : ~v[<<sv[w], w>>]}

\* demapPage as a function of valid: invalidate the first match, if any.
DemapPageValid(va) ==
    LET s == Search(va)
    IN  IF s = NoSlot THEN valid ELSE [valid EXCEPT ![s] = FALSE]

\* The valid global slots that countGlobalPages counts.
GlobalCount == Cardinality({s \in ValidSlots(valid) : entry[s].global})

\* (Mutant: the epoch change of insert is the commented-out random_id++
\* alone, without flushAll.)
RotatedValidNoFlush(rotate) == valid

\* valid after insert's epoch change: flushAll invalidates every slot.
RotatedValid(rotate) == IF rotate THEN [s \in Slots |-> FALSE] ELSE valid

\* (Mutant: the counter is not reset when insert's flushAll starts a new
\* epoch.)
NextEvictCntNoReset(pressure, rotate) ==
    IF ~pressure THEN evict_cnt ELSE evict_cnt + 1

\* evict_cnt after insert: counted under pressure, reset by flushAll.
NextEvictCnt(pressure, rotate) ==
    IF ~pressure THEN evict_cnt ELSE IF rotate THEN 0 ELSE evict_cnt + 1

-----------------------------------------------------------------------------
Init ==
    /\ valid = [s \in Slots |-> FALSE]
    /\ entry \in [Slots -> {NoEntry}]
    /\ lruSeq \in [Slots -> {0}]
    /\ random_id = 0
    /\ evict_cnt = 0
    /\ rerand_requests = 0
    /\ global_page_max = 0
    /\ pt = [m \in Mappings |-> InitFrame]

\* lookup(va) that hits; the host stamps the returned entry.  A miss
\* changes nothing.
Lookup(va) ==
    LET s == Search(va)
    IN  /\ s # NoSlot
        /\ lruSeq' = Stamp(lruSeq, ValidSlots(valid), s)
        /\ UNCHANGED <<valid, entry, random_id, evict_cnt, rerand_requests,
                       global_page_max, pt>>

\* insert(vpn, pageOffset, entry) of the walk result for mapping m after
\* lookup missed, pageOffset being the entry's page size.  A free way of
\* the set vector is taken; if there is none, eviction pressure is counted
\* and at MaxEvict flushAll starts a new epoch and the new vector is
\* searched again; failing that, evict picks the victim.  The host's entry
\* carries a fresh lruSeq.
Insert(m) ==
    LET addr     == Norm(m.vaddr, m.logBytes)
        sv0      == Randomize(addr, random_id)
        pressure == FreeWays(valid, sv0) = {}
        rotate   == pressure /\ evict_cnt + 1 = MaxEvict
        rid      == IF rotate THEN random_id + 1 ELSE random_id
        v1       == RotatedValid(rotate)
        sv       == Randomize(addr, rid)
        way      == IF FreeWays(v1, sv) # {} THEN Min(FreeWays(v1, sv)) ELSE evict(sv)
        s        == <<sv[way], way>>
    IN  /\ Search(m.vaddr) = NoSlot
        /\ rid <= MaxRid
        /\ valid' = [v1 EXCEPT ![s] = TRUE]
        /\ entry' = [entry EXCEPT ![s] = [vaddr |-> m.vaddr, logBytes |-> m.logBytes,
                                          global |-> m.global, frame |-> pt[m]]]
        /\ lruSeq' = Stamp(lruSeq, ValidSlots(valid'), s)
        /\ evict_cnt' = NextEvictCnt(pressure, rotate)
        /\ random_id' = rid
        /\ rerand_requests' = IF rotate THEN rerand_requests + 1 ELSE rerand_requests
        /\ UNCHANGED <<global_page_max, pt>>

\* demapPage(va, asn): the targeted invalidate; asn is not used.
DemapPage(va) ==
    /\ valid' = DemapPageValid(va)
    /\ UNCHANGED <<entry, lruSeq, random_id, evict_cnt, rerand_requests,
                   global_page_max, pt>>

\* flushAll(): every slot invalid and a new epoch.
FlushAll ==
    /\ random_id < MaxRid
    /\ evict_cnt' = 0
    /\ valid' = [s \in Slots |-> FALSE]
    /\ random_id' = random_id + 1
    /\ UNCHANGED <<entry, lruSeq, rerand_requests, global_page_max, pt>>

\* (Mutant: flushNonGlobal relies on the new epoch alone to hide the
\* non-global entries, like the commented-out random_id++ of insert.)
NonGlobalFlushedEpochOnly == valid

\* valid after flushNonGlobal: only the valid global slots stay valid.
NonGlobalFlushed == [s \in Slots |-> valid[s] /\ entry[s].global]

\* flushNonGlobal(): countGlobalPages, then every non-global slot invalid
\* and a new epoch.  The page table is the caller's business: the OS
\* calls it when it loads another one (see X86AddressSpaces).
flushNonGlobal ==
    /\ random_id < MaxRid
    /\ global_page_max' = IF GlobalCount > global_page_max THEN GlobalCount
                          ELSE global_page_max
    /\ evict_cnt' = 0
    /\ valid' = NonGlobalFlushed
    /\ random_id' = random_id + 1
    /\ UNCHANGED <<entry, lruSeq, rerand_requests>>

FlushNonGlobal == flushNonGlobal /\ UNCHANGED pt

\* The OS points mapping m at frame f and invalidates it with demapPage.
Remap(m, f) ==
    /\ f # pt[m]
    /\ pt' = [pt EXCEPT ![m] = f]
    /\ valid' = DemapPageValid(m.vaddr)
    /\ UNCHANGED <<entry, lruSeq, random_id, evict_cnt, rerand_requests,
                   global_page_max>>

Next ==
    \/ \E va \in VAs : Lookup(va)
    \/ \E m \in Mappings : Insert(m)
    \/ \E va \in VAs : DemapPage(va)
    \/ FlushAll
    \/ FlushNonGlobal
    \/ \E m \in Mappings, f \in Frames : Remap(m, f)

Spec == Init /\ [][Next]_vars

-----------------------------------------------------------------------------
TypeOK ==
    /\ valid \in [Slots -> BOOLEAN]
    /\ entry \in [Slots -> Entries \cup {NoEntry}]
    /\ lruSeq \in [Slots -> 0..Cardinality(Slots)]
    /\ random_id \in 0..MaxRid
    /\ evict_cnt \in 0..MaxEvict-1
    /\ rerand_requests \in Nat
    /\ global_page_max \in 0..Cardinality(Slots)
    /\ pt \in [Mappings -> Frames]

\* TLB coherence: whatever lookup(va) would return carries the frame the
\* page table holds now, although the OS invalidates a page with demapPage
\* after every remap and demapPage only looks where the current epoch puts
\* the page, while flushNonGlobal starts a new epoch and keeps global pages.
LookupCoherent ==
    \A va \in VAs :
        LET s == Search(va)
        IN  s # NoSlot => entry[s].frame = pt[Tag(entry[s])]

\* Non-global translations never outlive their epoch: every valid
\* non-global entry sits where the current set vector of its page puts it,
\* however inserts, evictions, insert's flushAll and flushNonGlobal
\* interleave.  Only global pages may be left behind by an epoch change.
NonGlobalAddressable ==
    \A s \in ValidSlots(valid) :
        ~entry[s].global =>
            Randomize(Norm(entry[s].vaddr, entry[s].logBytes), random_id)[s[2]] = s[1]

\* At-most-one-presence: no two valid slots cache the same page.
AtMostOnePresence ==
    \A s1, s2 \in ValidSlots(valid) :
        s1 # s2 => Tag(entry[s1]) # Tag(entry[s2])

-----------------------------------------------------------------------------
(* Refinement: the answer the cache gives for mapping k is the frame of    *)
(* the copy that the lookup pass of k's page size reaches first.           *)

Answer == [k \in Mappings |->
              LET s == FirstMatch(k.vaddr, k.logBytes)
              IN  IF s = NoSlot THEN NoEntry ELSE entry[s].frame]
=============================================================================
