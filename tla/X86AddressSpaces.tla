-------------------------- MODULE X86AddressSpaces --------------------------
(***************************************************************************)
(* The x86 TLB cache shared by several address spaces.  lookup, insert and *)
(* demapPage take no ASID (randomize is called with process_id 0), so two  *)
(* processes that map the same virtual page to different frames compete   *)
(* for the same slots, and nothing in an entry says whose it is.  The only *)
(* separation is the OS's context switch: it loads the next process's page *)
(* table (a CR3 write) and calls flushNonGlobal, which invalidates every    *)
(* non-global slot and starts a new epoch.  Global pages (the kernel's)    *)
(* are the same in every address space and survive the switch.            *)
(*                                                                         *)
(* pt of TLBCacheX86 is the loaded page table, the one the walker reads   *)
(* when the host inserts after a miss; tables holds every process's page  *)
(* table.  The OS edits the running process's table with a shootdown     *)
(* (demapPage) and another process's table without one, since that        *)
(* process's translations are flushed when it was switched out.  Global   *)
(* mappings are not remapped here: that case is run x86_global_stale.     *)
(***************************************************************************)
EXTENDS TLBCacheX86

CONSTANTS
    Procs,      \* the processes (address spaces)
    InitProc,   \* the process running at the start
    ProcFrame   \* ProcFrame[p]: the frame p's non-global pages start at

ASSUME AssumptionsAddressSpaces ==
    /\ InitProc \in Procs
    /\ ProcFrame \in [Procs -> Frames]
    /\ ProcFrame[InitProc] = InitFrame

VARIABLES
    cur,     \* the process whose page table is loaded
    tables   \* tables[p]: the page table of process p

osVars == <<cur, tables>>
asVars == <<vars, osVars>>

NonGlobal == {m \in Mappings : ~m.global}

\* The page table a process starts with: its own frame for its pages, the
\* kernel's frame for the global ones.
InitTable(p) == [m \in Mappings |-> IF m.global THEN InitFrame ELSE ProcFrame[p]]

ASInit ==
    /\ Init
    /\ cur = InitProc
    /\ tables = [p \in Procs |-> InitTable(p)]

\* The running process's translations, fills and shootdowns.
CacheStep ==
    /\ \/ \E va \in VAs : Lookup(va)
       \/ \E m \in Mappings : Insert(m)
       \/ \E va \in VAs : DemapPage(va)
       \/ FlushAll
       \/ FlushNonGlobal
    /\ UNCHANGED osVars

\* The OS remaps a page of the running process: the page table changes and
\* the page is shot down with demapPage.
RemapCurrent(m, f) ==
    /\ Remap(m, f)
    /\ tables' = [tables EXCEPT ![cur] = pt']
    /\ UNCHANGED cur

\* The OS remaps a page of a process that is not running: no shootdown.
RemapInactive(p, m, f) ==
    /\ p # cur
    /\ f # tables[p][m]
    /\ tables' = [tables EXCEPT ![p][m] = f]
    /\ UNCHANGED <<vars, cur>>

\* The context switch to p: load p's page table and call flushNonGlobal.
ContextSwitch(p) ==
    /\ p # cur
    /\ flushNonGlobal
    /\ cur' = p
    /\ pt' = tables[p]
    /\ UNCHANGED tables

ASNext ==
    \/ CacheStep
    \/ \E m \in NonGlobal, f \in Frames : RemapCurrent(m, f)
    \/ \E p \in Procs, m \in NonGlobal, f \in Frames : RemapInactive(p, m, f)
    \/ \E p \in Procs : ContextSwitch(p)

ASSpec == ASInit /\ [][ASNext]_asVars

-----------------------------------------------------------------------------
\* Address-space isolation: whatever lookup(va) returns to the running
\* process is the frame of that process's own page table, although lookup
\* ignores the ASID, two processes map the same pages to different frames,
\* the OS edits a switched-out process's table without a shootdown, and
\* flushNonGlobal at the switch starts a new epoch besides invalidating.
AddressSpaceIsolation ==
    \A va \in VAs :
        LET s == Search(va)
        IN  s # NoSlot => entry[s].frame = tables[cur][Tag(entry[s])]
=============================================================================
