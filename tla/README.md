# TLA+ models of the TLBCoat skewed TLB caches

This directory holds TLA+ models of the randomized ("skewed") TLB caches in
`src/tlbsec_gem5`, together with the TLC configurations that check them.

## The system

The repository adds a second-level TLB cache to gem5 in two variants:

* **RISC-V, per-ASID** (`src/arch/riscv/tlb_cache.cc`, `RiscvISA::RiscVTLBCache`).
  It is a table `cacheData[set][way]` of 16 sets × 4 ways. Each slot has
  `valid` and a `TlbEntry`, whose fields are `vaddr`, `asid`, `logBytes` and
  `lruSeq`.
  * Per-ASID epoch counters: `random_id[asid]` and `evict_cnt[asid]`.
  * A statistics counter: `rerand_requests`.
* **x86, non-ASID** (`src/arch/x86/tlb_cache.cc`, `X86ISA::TLBCache`).
  * It has a single epoch `random_id`.
  * Global pages survive `flushNonGlobal`.
  * The host supplies the LRU order, and `evict` picks the minimum.
* **Index PRF** (`src/arch/x86/tlb_cache.hh`, used by both variants).
  * `encrypt(va, key)` is a reduced-round PRINCE-style block function: S-box
    layers, M′ layers (GF(2) matrices `m_0`, `m_1`), shift-rows, and round
    constants RC1 and RC2.
  * `randomize(va, asid)` cuts `encrypt(va, prince_key ^ asid ^ random_id[asid])`
    into one set index per way: nibble *w* for way *w*. So each way of an
    address lives in a different physical set.
* **tPLRU replacement** (`updatePLRUSet`, `evict`).
  * In every set, `lruSeq` ranks the ways 1..4, with 1 the most recent.
  * A hit or an insert promotes its slot to rank 1 and cascades the ranks
    below it.
  * `evict` takes the way of highest rank in the set vector.
* **Host.** This code is not in the repository.
  * The gem5 TLB calls `lookup(va, asid)`. On a miss it walks the page
    table and calls `insert(vpn, entry)`.
  * The OS changes page tables and shoots translations down with
    `demapPage(va, asn)` (a targeted search) or `demapPageComplex(va, asn)`
    (a sweep over all slots, with 0 as a wildcard). It may also call
    `flushAll()`.

The components interact as follows.
* Every lookup, insert and demapPage runs the PRF over the current epoch of
  its ASID.
* When the set vector of an insert has no free way, eviction pressure is
  counted. At `MAX_EVICT` the ASID moves to a new epoch (`random_id++`),
  which changes where all of its translations live. Old copies are left
  valid: spec.md §4.3 says they are "simply no longer addressable".

### What is hard here

* **Epoch rotation without invalidation.**
  * Copies that the new set vector does not reach stay valid.
  * After the miss that follows, the host inserts the translation again.
  * A later epoch's vector may collide with an old copy's slot and make it
    reachable again.
* **Shootdowns that search.** `demapPage` looks only where the current epoch
  puts a translation, and only up to the first match.
* **tPLRU bookkeeping.**
  * The ranks must remain a permutation in every set through any mix of
    lookups, inserts and invalidations.
  * Insert keeps the victim's `lruSeq` (`temp_lru`).
  * Invalidation leaves `lruSeq` in place.
  * The `assert(false)` in `updatePLRUSet` fires if the ranks stop being a
    permutation.
* **The cipher.** It contains an undefined shift by 64 (row 0 of
  shift-rows), and the spec's description of shift-rows differs from the
  code.

## Modules

| module | models | source |
|---|---|---|
| `Prince` | the cipher's layers as operators over a 64-bit block | `x86/tlb_cache.hh` 33–140 |
| `PrinceEncrypt` | `encrypt`, statement by statement (`output`, `pc`) | `x86/tlb_cache.hh` 121–140 |
| `PrinceVectors` | reference outputs of `encrypt` for the model's inputs | (test data) |
| `MC_PrinceEncrypt` | runs `encrypt` on all reference inputs, under both outcomes of the UB | |
| `TLBCacheRiscV` | the per-ASID cache and its host | `riscv/tlb_cache.cc` |
| `MC_TLBCacheRiscV` | instantiates it: ASIDs, mappings, frames, and the cipher as index | |
| `TLBAbstract` | what any TLB promises: answers are absent or current | spec.md §8 |
| `MC_TLBCacheRiscVRefine` | checks `TLBCacheRiscV` against `TLBAbstract` | |
| `TLBCacheX86` | the non-ASID cache and its host | `x86/tlb_cache.cc` |
| `MC_TLBCacheX86` | instantiates it: pages (with or without a global one), frames, the cipher as index | |
| `MC_TLBCacheX86Refine` | checks `TLBCacheX86` against `TLBAbstract` | |

### Prince

A 64-bit block is represented as four 16-bit words, because TLC integers are
32 bits wide. Each operation of the code becomes a word-wise operation:
* `^` is `XorWord`;
* `|` is `OrWord`;
* shifts by multiples of 16 are `ShrWords` and `ShlWords`;
* nibble loops are `NibbleMap`.

`prince_shift_rows` follows the code: `(row >> shift) | (row << (64-shift))`
with `shift = inverse ? 16i : 64-16i`. The shift by 64 of row 0 (forward) is
undefined behaviour. The constant `ShiftUB` chooses between "mask" (the count
is masked to 0, as x86 does) and "zero". `SpecShiftRows` is the spec's
reading: a left rotation by 64-16i.

### PrinceEncrypt

The variables are `input`, `tweak` (so the key is `prince_key ^ tweak`), `ub`,
`output`, `spec_output` and `pc`. There is one `Step` per statement of
`encrypt`, in the code's order:
* `^= key`
* `^= RC1`
* `m_layer`
* `s_layer_inv`
* `^= key`
* `^= RC2`
* `m_layer`
* `s_layer`
* `^= key`
* `s_layer`
* `m_prime_layer`

`spec_output` runs the same statements with `SpecShiftRows`.

### TLBCacheRiscV

State: the table `cacheData[set][way]` is split into three functions over
`Slots = sets × ways`.
* `valid` and `entry` hold the slot contents.
* `lruSeq` is a separate function because insert saves and restores it
  around the entry write.
* The epoch counters are `random_id`, `evict_cnt` and `rerand_requests`.
* `pt` is the host's page table: mapping → frame.
* `fault` records an `assert(false)` that fired.

Actions: `Init` is the constructor. Each action below covers the whole handler.
* **`Lookup`** covers the 4 KiB pass, then the 2 MiB pass (`Search`,
  `FirstMatch`), and on a hit `updatePLRUSet` with its assertion. A miss
  changes nothing and is not an action.
* **`Insert(m)`** covers:
  * the search for a free way;
  * `evict_cnt++` under pressure;
  * rotation at `MaxEvict` (`random_id++`, `rerand_requests++`, re-randomize,
    search again);
  * the `evict` fallback;
  * the entry write with `temp_lru` kept, then `updatePLRUSet`.
* **`DemapPage`**: two passes with the first match only.
* **`DemapPageComplex`**: the sweep with wildcards.
* **`FlushAll`**: every slot invalid, and a new epoch for every ASID.

The host appears in two places:
* `Insert` is enabled only when `Search` misses, as the walker does.
* `Remap(m, f)` changes the page table and, in the same step, runs the
  configured shootdown (`Shootdown` = "page" or "complex").

The `SATLB` constant selects the build flag: `(va >> lb) % sets` for every way
instead of `randomize`.

`Answer` is the refinement mapping. For every mapping it is the frame that the
lookup pass of that page size reaches first, or nothing.

### TLBCacheX86

State: `valid`, `entry` (address, page size, `global`, frame), `lruSeq`,
one `random_id`, `evict_cnt`, `rerand_requests`, `global_page_max` and the
host's page table `pt`. The code ignores the ASID everywhere, since
`randomize` is always called with process_id 0. So there is one address
space at a time.

`lruSeq` is the host's access counter, copied into the entry; the host code
is not in the repository, and the spec says the counter is monotonically
increasing. `evict` only compares the `lruSeq` of valid slots. So the model
keeps the order, not the numbers:
* `Stamp` gives the stamped slot a value above every other valid slot.
* It renumbers the other valid slots 1, 2, … in their old order.
* It is the only definition of the map modelled from the spec.

Actions: `Init` is the constructor.
* **`Lookup(va)`** runs both passes. On a hit the host stamps the slot.
* **`Insert(m)`** takes the first free way of the set vector. If there is
  none, it counts pressure; at `MAX_EVICT` it calls `flushAll` (new epoch,
  every slot invalid), randomizes again and takes way 0. Otherwise `evict`
  (minimum `lruSeq`) picks the victim. The insert is enabled only after a
  miss, and `pageOffset` is the entry's page size.
* **`DemapPage(va)`** runs the two passes with the first match only; `asn` is
  unused.
* **`FlushAll`** and **`FlushNonGlobal`** (with `countGlobalPages`) each
  start a new epoch.
* **`Remap(m, f)`** is the OS changing a page, followed by `demapPage`
  (invlpg).

`MC_TLBCacheX86`'s `View` ignores invalid slots and keeps only the order of
`lruSeq` among valid ones, the only thing any reader uses.

### X86AddressSpaces (composition of the x86 cache with the OS)

x86 `lookup` and `demapPage` take no ASID, so separation between processes
rests on the OS. The module extends `TLBCacheX86` with:
* `cur`, the running process, and `tables`, every process's page table.
  `pt` of `TLBCacheX86` is the loaded one, and `pt = tables[cur]` always.
* `CacheStep`: any cache call of the running process (lookup, insert after a
  miss, demapPage, flushAll, flushNonGlobal), leaving the OS state alone.
* `RemapCurrent(m, f)`: the running process's page changes and is shot down
  with `demapPage`.
* `RemapInactive(p, m, f)`: a switched-out process's page changes with no
  shootdown, since its translations were flushed when it was switched out.
* `ContextSwitch(p)`: load p's table and call `flushNonGlobal`
  (`flushNonGlobal` is `TLBCacheX86`'s cache part of `FlushNonGlobal`).

Global (kernel) mappings are the same in every table and are not remapped
here; remapping one is the case of `x86_global_stale`. The OS code is not in
the repository, so these host actions follow spec.md and the usual x86 OS
protocol (CR3 write, then the non-global flush).

### TLBAbstract

The state is `tlb` (translation → frame or None) and `pt`.
* `Forget`: lookup, demap, flush or eviction forget translations and learn
  none.
* `Insert(k)`: k answers with the current frame. Other translations may be
  forgotten, or may answer again with the current frame, because a rotation
  can make a copy reachable again.
* `Remap(k, f)` forgets k.

`MC_TLBCacheRiscVRefine` and `MC_TLBCacheX86Refine` keep `Answer` in an
auxiliary variable. It is
recomputed only when `valid`, `entry` or `random_id` change, so TLC evaluates
it once per step rather than at every use. It then checks `AbsAux!Spec`.

## Runs

| run | cfg | expect | checks |
|---|---|---|---|
| `riscv_skewed` | `MC_TLBCacheRiscV.cfg` | pass | `TypeOK`, `LookupCoherent` with complex shootdowns, `MaxRid` 2 |
| `riscv_satlb` | `MC_TLBCacheRiscV_satlb.cfg` | pass | `LookupCoherent`, `AtMostOnePresence`, `PLRUWellFormed` in the SATLB build at 4 ways and 1 set with demapPage shootdowns |
| `riscv_refinement` | `MC_TLBCacheRiscVRefine.cfg` | pass | `ImplementsAbstractAux`: the skewed cache with complex shootdowns implements `TLBAbstract` |
| `prince_encrypt` | `MC_PrinceEncrypt.cfg` | pass | `EncryptReturnsVector` under `FairSpec` |
| `x86_nonglobal` | `MC_TLBCacheX86.cfg` | pass | `TypeOK`, `LookupCoherent`, `AtMostOnePresence` with non-global pages only |
| `x86_refinement` | `MC_TLBCacheX86Refine.cfg` | pass | `ImplementsAbstractX86`: with non-global pages the x86 cache implements `TLBAbstract` |
| `riscv_duplicates` | `MC_TLBCacheRiscV_dup.cfg` | violation | `AtMostOnePresence` (spec.md §8.1) in the skewed build |
| `riscv_page_shootdown` | `MC_TLBCacheRiscV_page.cfg` | violation | `LookupCoherent` with demapPage shootdowns in the skewed build |
| `prince_spec_shift_rows` | `MC_PrinceEncrypt_spec.cfg` | violation | `EncryptMatchesSpec`: the code's cipher against spec.md §4.1 |
| `x86_global_stale` | `MC_TLBCacheX86_stale.cfg` | violation | `LookupCoherent` with a global huge page |
| `x86_address_spaces` | `MC_X86AddressSpaces.cfg` | pass | `AddressSpaceIsolation`, `NonGlobalAddressable`: two processes on one x86 cache with a global kernel page |
| `x86_global_duplicates` | `MC_TLBCacheX86_dup.cfg` | violation | `AtMostOnePresence` (spec.md §8.1) with a global huge page |

What the runs show:
* **The skewed cache is coherent only with sweeping shootdowns.**
  * An epoch rotation leaves old copies valid. The miss that follows
    re-inserts the translation (`riscv_duplicates`: two valid slots hold the
    same translation).
  * Sequence for `riscv_page_shootdown`:
    1. The page is remapped.
    2. `demapPage` searches only the current epoch's vector and misses a copy
       from an earlier epoch.
    3. Two rotations later, that epoch's vector collides with the copy's slot
       again.
    4. Lookup returns the freed frame.
  * With `demapPageComplex`, which sweeps every slot, the same model passes
    (`riscv_skewed`, `riscv_refinement`).
  * The SATLB build has neither problem (`riscv_satlb`).
* **The x86 cache is coherent for non-global pages, and not for global
  ones.**
  * With non-global pages only, every epoch change (`flushAll`,
    `flushNonGlobal`) invalidates every copy, so demapPage always finds the
    only copy (`x86_nonglobal`, `x86_refinement`).
  * `flushNonGlobal` starts a new epoch and keeps global pages. They are the
    only entries ever left outside the current set vector
    (`NonGlobalAddressable` in `x86_address_spaces`).
  * Those are exactly what goes wrong (`x86_global_stale`), in 5 steps:
    1. The global huge page is inserted in epoch 0.
    2. Two `flushNonGlobal` calls move to epoch 2, where way 0 of the page
       is in the other set.
    3. The OS remaps the page, and `demapPage` misses the copy.
    4. A third `flushNonGlobal` moves to epoch 3, whose vector reaches the
       copy's slot again.
    5. Lookup returns the old frame.
  * The same global page is also cached twice after a single
    `flushNonGlobal` (`x86_global_duplicates`, 3 steps): the page is
    inserted, `flushNonGlobal` keeps it but moves to a new epoch, and the
    next lookup misses, so the host inserts it again. A context switch after a use of a kernel
    page does this whenever the new epoch's set vector for the page misses
    the slot its copy is in.
* **Address spaces stay apart on the ASID-less x86 cache** as long as the OS
  calls `flushNonGlobal` at every switch (`x86_address_spaces`). Two
  processes map 0x400000 and 0x401000 to different frames, the OS edits the
  switched-out process's table without a shootdown, and lookup still only
  returns the running process's frames. The new epoch alone would not be
  enough: 0x400000 has the same set vector in epochs 0 and 1, so without the
  invalidation the next process reads the previous one's frame (the mutant
  of this run).
* **tPLRU never reaches its `assert(false)`.** Through every interleaving of
  promotions, inserts that keep `temp_lru`, evictions, rotations and
  invalidations, each set's ranks remain a permutation.
* **The cipher model matches the cipher.** The statement-by-statement model of
  `encrypt` gives the reference outputs of an independent 64-bit
  implementation. This holds under both outcomes of the undefined shift: for
  row 0, `row | row` and `0 | row` are both `row`.
* **The spec disagrees with the code on shift-rows.** spec.md's forward
  shift-rows (a left rotation by 64-16i) gives different outputs, because the
  code rotates left by 16i (`prince_spec_shift_rows`).

Mutants: each property of a passing run is broken by a plausible bug of the
code it covers. See `mutants` in PROJECT.json. The bugs are:
* no `evict_cnt` reset;
* no rank cascade;
* a sweep that stops at its first hit;
* demapPage without the 2 MiB pass;
* lookup without the 2 MiB pass;
* `^` for `|` in shift-rows;
* x86 insert's epoch change as the commented-out `random_id++`, without
  `flushAll`;
* x86 `evict_cnt` not reset.
* x86 `flushNonGlobal` that only starts a new epoch and invalidates nothing.

## Bounds and why they are enough

Cache and epoch bounds (MC_TLBCacheRiscV):

| bound | code | model | why |
|---|---|---|---|
| ways | 4 | 2 (4 in the SATLB run) | Two ways place copies of one translation in two ways and show the evict fallback. The SATLB run keeps the code's four ways, so that a promotion runs the whole cascade of `updatePLRUSet`: ranks 3 and 4, the early return and the third loop. |
| sets | 16 | 2 (1 in the SATLB run) | Indices are the low bit of each nibble of the real cipher output. With one set, every page of the SATLB run competes for the same four ways. |
| `MAX_EVICT` | 64 | 1 | Every full-vector insert rotates. Only the count between rotations differs. |
| `random_id` | unbounded | ≤ `MaxRid` | `MaxRid` is 3 in the page-shootdown and refinement runs and 2 in the other skewed run and the SATLB run. |

Why `MaxRid` is 3 in the page-shootdown run: with these cipher outputs, a copy
revives only in the fourth epoch of ASID 1 at 0x200000. Way 0 maps to set 1
in epochs 0 and 3, and to set 0 in epochs 1 and 2.

The refinement run uses three of the four mappings (the huge page of ASID 1
and both pages of ASID 2), which keeps it short. ASID 2's two pages compete
for its set vectors, so its inserts rotate its epoch and leave copies
behind. The sweep that stops at its first hit still breaks the refinement.

Mappings, frames and addresses:
* Two ASIDs and four mappings: a 2 MiB page and a 4 KiB page in ASID 1, and
  two 4 KiB pages in ASID 2. The page 0x200000 exists at both sizes, in
  different ASIDs.
* Lookups are of three addresses, including 0x201000 inside the huge page.
* Two frames; every mapping starts at `InitFrame`, and `Remap` flips a mapping
  to the other frame.

The PRF is the code's cipher with `prince_key = 0x0011223344556677`.
* TLC's worker threads cannot evaluate the nested rounds within their stack.
  So the MC reads the outputs from `PrinceVectors`, which `prince_encrypt`
  checks against the model of `encrypt`.
* `VIEW View` ignores the contents of invalid slots. Every reader tests
  `valid` first, and insert overwrites the whole entry.

x86 bounds (MC_TLBCacheX86): 2 ways, 2 sets and `MAX_EVICT` 2, so that
both `evict` and insert's `flushAll` happen. `MaxRid` is 3, or 2 for the
refinement run. The pages are:
* a 2 MiB page at 0x200000 (global in the global runs);
* the 4 KiB pages 0x400000, 0x401000 and 0x402000.

In epoch 0 the huge page, 0x401000 and 0x402000 share one set vector, so
inserting all three puts it under pressure. The set index of way i is
`encrypt(va, prince_key ^ random_id ^ i) % sets`, read from the same
reference table.

Address-space bounds (MC_X86AddressSpaces): the same geometry, `MaxRid` 3
(so three context switches or flushes), two processes and three pages: the
global huge page 0x200000 and the user pages 0x400000 and 0x401000, which
both processes map, p1 to f1 and p2 to f2. In epoch 0 the huge page and
0x401000 share way 0's set, so evictions and insert's `flushAll` happen
between switches.

## Fairness and liveness

The cache operations are calls made by the host on the single simulation
thread. The cache promises no progress of its own: "eventually rotates"
depends on the host inserting, and the host may stop at any point. So the
TLB runs assume no fairness and check no liveness. Deadlock is checked in
every TLB run.

`encrypt` is different: once called, the simulation thread runs its
straight-line body to the return. `FairSpec` of `PrinceEncrypt` adds weak
fairness of taking the next statement (`WF_pc(Advance)`, where `Advance` is
the pc move that only `Step` makes, so TLC need not evaluate the cipher
layers to decide enabledness). Under it `prince_encrypt` checks
`EncryptReturnsVector`: every call returns, with the reference output. The
cipher runs set `CHECK_DEADLOCK FALSE`, because `encrypt` stops after its
last statement.

## Not modelled

* **The host.** It is not in the repository. Where the caches depend on it,
  it is modelled from spec.md:
  * insert after a miss, with `pageOffset` equal to the page size;
  * x86 `lruSeq` stamps;
  * remaps followed by a shootdown.

  The x86 context switch is modelled in `X86AddressSpaces`, also from the
  spec. The x86 caller's `pageOffset` is taken to be the entry's page size;
  a caller that passes another would make the entry unreachable.
* **Configurations with 256 ways or sets.** x86 keeps `ways` and `sets` in
  `uint8_t`, so such a value wraps to 0. The gem5 configuration is not in
  the repository, and the model assumes at least one way and one set.
* **Destructors (`delete this`) and `malloc`.** These are memory management.
* **The `tlbleed` timing harness.** It is a fixed sequence of memory
  accesses timed with `rdtsc`. Whether an access hits depends on the gem5 TLB
  geometry and on where `malloc` puts the buffer, neither of which is in the
  repository, and its only output is the printed timings.
* **Counter wrap-around and uninitialised counters.** The header that declares
  `random_id` and `evict_cnt` is not in the repository, so the model starts
  them at 0.
* **Assertions as no-ops.** `assert(false)` is modelled as an abort (`fault`).
  With `NDEBUG` it would be a no-op. `PLRUWellFormed` shows that it is never
  reached.
