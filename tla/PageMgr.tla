------------------------------ MODULE PageMgr ------------------------------
(***************************************************************************)
(* The page manager contexts of the c-kernel, the page tables, and the     *)
(* operations of the syscore thread that use them: its own heap, the       *)
(* template page table, the threads it spawns and the page requests they   *)
(* send.  Only the syscore thread runs this code, so each operation is one *)
(* step.  Addresses are counted in pages.                                  *)
(***************************************************************************)
EXTENDS BuddyAlloc

CONSTANTS
  Context,        \* the threads syscore can spawn
  PerTable,       \* X86_PAGETABLE_SIZE
  Entries,        \* and the entries of a directory; the two bound Virtual
  Memory,         \* a bound of the pages of usable memory and of the kernel
  MemoryMaps,     \* the e820 maps the loader can hand over
  Sections,       \* what is marked as used at boot
  TemplateTables, \* __ptable_template_start: the pages after the directory
  HeapPages,      \* heap_size_pages
  PoolStart,      \* 0x7FFF0000
  PoolPages,      \* stacks and heap of a spawned thread
  RequestAt,      \* bounds of the requests: virtual addresses
  RequestSize     \* and numbers of pages

ASSUME ContextAssumption == Context \cap {"syscore", "template"} = {}

\* A region lies in the memory and is not within page 0.  Regions may begin and
\* end within a page, come in any order and overlap.
ASSUME MapAssumption ==
  \A m \in MemoryMaps :
    /\ m \in Seq([lo : Nat, hi : Nat, type : STRING])
    /\ \A i \in DOMAIN m :
         /\ m[i].lo < m[i].hi /\ m[i].hi > 2 /\ m[i].hi <= 2 * Size[MaxOrder]

ASSUME SectionAssumption ==
  /\ Sections \in Seq([first : Nat, count : Nat])
  /\ \A i \in DOMAIN Sections : Sections[i].first + Sections[i].count <= Size[MaxOrder]

\* The bound is a whole number of page tables.
ASSUME MemoryAssumption ==
  /\ Memory \in 0 .. Size[MaxOrder] /\ Memory % PerTable = 0
  /\ \A m \in MemoryMaps : \A i \in DOMAIN m : m[i].type = "free" => m[i].hi <= 2 * Memory
  /\ \A i \in DOMAIN Sections : Sections[i].first + Sections[i].count <= Memory

\* linker.ld: the pages after that of the template's directory.
ASSUME TemplateAssumption ==
  /\ TemplateTables \in Seq(Page)
  /\ \A i, j \in DOMAIN TemplateTables : TemplateTables[i] = TemplateTables[j] => i = j

ASSUME RequestAssumption ==
  /\ HeapPages \in 1 .. Size[MaxOrder]
  /\ RequestSize \subseteq 1 .. Size[MaxOrder]
  /\ RequestAt \subseteq Nat
  /\ PerTable \in Nat \ {0} /\ Entries \in Nat /\ Entries * PerTable >= Size[MaxOrder]
  /\ \A v \in RequestAt, n \in RequestSize : v + n <= Entries * PerTable

\* The pool and the addresses that requests name, of which 0 names none, lie
\* above the memory and apart.
ASSUME PoolAssumption ==
  /\ PoolPages \in 1 .. Size[MaxOrder]
  /\ PoolStart \in Nat \ {0} /\ PoolStart >= Memory
  /\ PoolStart + PoolPages <= Entries * PerTable
  /\ \A v \in RequestAt : v # 0 => v >= Memory
  /\ \A v \in RequestAt \ {0}, n \in RequestSize :
       (v .. v + n - 1) \cap (PoolStart .. PoolStart + PoolPages - 1) = {}

VARIABLES
  mmap,     \* e820_mmap
  tree,     \* g_buddy_alloc
  panicked, \* kpanic was called
  phase,    \* how far syscore_thread_entry has come
  records,  \* alloc_pages_head of each context
  stray,    \* history: the blocks in use that no context of a thread records
  dir,      \* the page directory of each thread; that of the template
  tables    \* the contents of the page tables

vars == <<mmap, tree, panicked, phase, records, stray, dir, tables>>

Nil == -1
Owners == Context \cup {"syscore"}
Dirs == Context \cup {"template"}
Pd == 0 .. Entries - 1
Virtual == 0 .. Entries * PerTable - 1
NoDir == [pd \in Pd |-> Nil]
Live == {c \in Context : dir[c] # NoDir}

-----------------------------------------------------------------------------
(* paging.c.                                                               *)

\* x86_map_pages_get_page_count: the directory entries a range needs.
Missing(d, virt) == {pd \in Pd : d[pd] = Nil /\ \E v \in virt : v \div PerTable = pd}

\* x86_map_pages takes the tables from fresh, in the order of the addresses.
MappedDir(d, frames, fresh) ==
  LET missing == Missing(d, DOMAIN frames) IN
    [pd \in Pd |-> IF pd \in missing
                   THEN fresh[Cardinality({q \in missing : q <= pd})]
                   ELSE d[pd]]

\* The tables that are touched: entries in the range, and those that were there.
MappedTables(d, frames, fresh) ==
  LET missing == Missing(d, DOMAIN frames)
      new == MappedDir(d, frames, fresh)
      touched == {v \div PerTable : v \in DOMAIN frames}
      old(pd, i) == IF pd \in missing THEN Nil ELSE tables[new[pd]][i]
      table(pd) == [i \in 0 .. PerTable - 1 |->
        IF pd * PerTable + i \in DOMAIN frames THEN frames[pd * PerTable + i] ELSE old(pd, i)]
  IN  Updated(tables, [pg \in {new[pd] : pd \in touched} |->
                         table(CHOOSE pd \in touched : new[pd] = pg)])

Seed_Frames(v, n, p) ==  \* seeded fault: the address advances before its use
  [x \in v .. v + n - 1 |-> p + (x - v) + 1]

\* n pages at v onto the frames from p.
Frames(v, n, p) == [x \in v .. v + n - 1 |-> p + (x - v)]

\* x86_get_phys_addr: the frame a thread sees at a virtual page.
Translate(d, v) ==
  LET pd == v \div PerTable IN
    IF d[pd] = Nil THEN Nil ELSE tables[d[pd]][v % PerTable]

-----------------------------------------------------------------------------
(* pagemgr.c.                                                              *)

Order(n) == CHOOSE o \in 0 .. MaxOrder : Size[o] >= n /\ (o = 0 \/ Size[o - 1] < n)

Seed_AllocatePages(s, n) ==  \* seeded fault: the node is not split
  LET node == Search(s.tree, Order(n), "free", "ram") IN
    IF s.short \/ Candidates(s.tree, Order(n), "free", "ram") = {}
    THEN [s EXCEPT !.short = TRUE]
    ELSE [s EXCEPT !.tree = SetStatus(s.tree, LeafOf(s.tree, node[2]), "used"),
                   !.got = Append(s.got, node)]

\* allocate_pages; short records that it returned ENOPAGE.
AllocatePages(s, n) ==
  LET node == Search(s.tree, Order(n), "free", "ram") IN
    IF s.short \/ Candidates(s.tree, Order(n), "free", "ram") = {}
    THEN [s EXCEPT !.short = TRUE]
    ELSE [s EXCEPT !.tree = SetStatus(SplitTo(s.tree, node), node, "used"),
                   !.got = Append(s.got, node)]

Fresh(t) == [tree |-> t, got |-> << >>, short |-> FALSE]

\* The page tables that pmgr_alloc_pages needs for the n pages it got last.
WithTables(pages, d, v, n) ==
  LET base == pages.got[Len(pages.got)][2]
      at == IF v = 0 THEN base ELSE v
      need == Cardinality(Missing(d, at .. at + n - 1))
  IN  IF pages.short \/ need = 0 THEN pages ELSE AllocatePages(pages, need)

\* pmgr_alloc_pages allocates the pages, then the page tables.
AllocateMapped(s, d, v, n) == WithTables(AllocatePages(s, n), d, v, n)

\* free_pages.
FreePages(s, block) ==
  LET t == SplitTo(s.tree, block) IN
    IF t[block].st # {"used"} THEN [s EXCEPT !.tree = t, !.ok = FALSE]
    ELSE IF t[block].mp = {"ram"}
    THEN [s EXCEPT !.tree = SetStatus(t, block, "free")]
    ELSE [s EXCEPT !.tree = SetFlags(t, block, Flag("free", "unmapped"))]

-----------------------------------------------------------------------------
(* The steps of the kernel, in the order of syscore_thread_entry.          *)

\* kernel_main calls initialize_buddy_allocator before any thread exists.
Init ==
  /\ mmap \in MemoryMaps
  /\ LET s == Boot(mmap, Sections) IN tree = s.tree /\ panicked = ~s.ok
  /\ phase = "early"
  /\ records = [o \in Owners |-> << >>]
  /\ stray = {}
  /\ dir = [d \in Dirs |-> NoDir]
  /\ tables = [pg \in {} |-> Nil]

\* The context of syscore has no heap yet: the block is not recorded.
AllocateHeap ==
  /\ phase = "early" /\ ~panicked
  /\ LET s == AllocatePages(Fresh(tree), HeapPages) IN
       /\ tree' = s.tree
       /\ panicked' = s.short     \* kpanic_on_err_ptr
       /\ stray' = stray \cup Range(s.got)
       /\ phase' = IF s.short THEN phase ELSE "heap"
  /\ UNCHANGED <<mmap, records, dir, tables>>

\* make_template_page_table maps what is used so far onto itself.
BuildTemplate ==
  /\ phase = "heap" /\ ~panicked
  /\ LET used == PagesWith(tree, UsedRam)
         same == [p \in used |-> p]
         enough == Cardinality(Missing(NoDir, used)) <= Len(TemplateTables)
     IN  /\ panicked' = ~enough
         /\ enough =>
              /\ dir' = [dir EXCEPT !["template"] = MappedDir(NoDir, same, TemplateTables)]
              /\ tables' = MappedTables(NoDir, same, TemplateTables)
         /\ phase' = IF enough THEN "run" ELSE phase
         /\ ~enough => UNCHANGED <<dir, tables>>
  /\ UNCHANGED <<mmap, tree, records, stray>>

\* syscore_spawn_thread up to kmt_create_thread: a page for the directory, a
\* copy of the template's directory, the pool and its page tables.
SpawnState ==
  LET first == AllocatePages(Fresh(tree), 1) IN
    IF first.short THEN first
    ELSE AllocateMapped(first, dir["template"], PoolStart, PoolPages)

\* The directory's page is recorded in syscore's context, the rest in that of
\* the new thread, which is lost with the thread when a later step fails.
SpawnThread(c) ==
  /\ phase = "run" /\ ~panicked
  /\ c \notin Live
  /\ LET s == SpawnState
         d == dir["template"]
         rest == IF s.got = << >> THEN << >> ELSE Tail(s.got)
         pool == Frames(PoolStart, PoolPages, rest[1][2])
         fresh == [k \in 1 .. Size[MaxOrder] |-> rest[Len(rest)][2] + k - 1]
     IN  /\ tree' = s.tree
         /\ \/ /\ ~s.short
               /\ dir' = [dir EXCEPT ![c] = MappedDir(d, pool, fresh)]
               /\ tables' = MappedTables(d, pool, fresh)
               /\ records' = [records EXCEPT !["syscore"] = Append(@, s.got[1]),
                                             ![c] = rest]
               /\ UNCHANGED stray
            \/ \* no page, or kmt_create_thread has no free thread
               /\ records' = [records EXCEPT !["syscore"] =
                                IF s.got = << >> THEN @ ELSE Append(@, s.got[1])]
               /\ stray' = stray \cup Range(rest)
               /\ UNCHANGED <<dir, tables>>
  /\ UNCHANGED <<mmap, panicked, phase>>

\* SYSCORE_FUNC_ALLOC_PAGES, with PAGE_ON_RAM or PAGE_MMIO alike: pages of RAM
\* for the caller.  Pages taken before a failure stay in its records.
AllocForCaller(c, v, n) ==
  /\ phase = "run" /\ ~panicked
  /\ c \in Live
  /\ LET s == AllocateMapped(Fresh(tree), dir[c], v, n)
         base == s.got[1][2]
         at == IF v = 0 THEN base ELSE v
         fresh == [k \in 1 .. Size[MaxOrder] |-> s.got[Len(s.got)][2] + k - 1]
     IN  /\ tree' = s.tree
         /\ records' = [records EXCEPT ![c] = @ \o s.got]
         /\ IF s.short THEN UNCHANGED <<dir, tables>>
            ELSE /\ dir' = [dir EXCEPT ![c] = MappedDir(@, Frames(at, n, base), fresh)]
                 /\ tables' = MappedTables(dir[c], Frames(at, n, base), fresh)
  /\ UNCHANGED <<mmap, panicked, phase, stray>>

\* destroy_page_mgr_ctx: the end of a thread's context, which happens once.
\* The page of the directory is syscore's and stays in use.  A freed page keeps
\* what it holds: that matters for the template's tables, which stay in use.
DestroyContext(c) ==
  /\ phase = "run" /\ ~panicked
  /\ c \in Live
  /\ LET freed[i \in 0 .. Len(records[c])] ==
           IF i = 0 THEN [tree |-> tree, ok |-> TRUE] ELSE FreePages(freed[i - 1], records[c][i])
         s == freed[Len(records[c])]
     IN  tree' = s.tree /\ panicked' = ~s.ok
  /\ records' = [records EXCEPT ![c] = << >>]
  /\ dir' = [dir EXCEPT ![c] = NoDir]
  /\ tables' = LET freed == UNION {PagesOf(b) : b \in Range(records[c])}
                   gone == freed \ Range(TemplateTables)
               IN  [pg \in DOMAIN tables \ gone |-> tables[pg]]
  /\ UNCHANGED <<mmap, phase, stray>>

Next ==
  \/ AllocateHeap
  \/ BuildTemplate
  \/ \E c \in Context : SpawnThread(c) \/ DestroyContext(c)
  \/ \E c \in Context, v \in RequestAt, n \in RequestSize : AllocForCaller(c, v, n)

Spec == Init /\ [][Next]_vars
-----------------------------------------------------------------------------
(* Properties.                                                             *)

\* Each inner node of the tree carries exactly the bits of the leaves below it
\* after every sequence of splits, merges and updates: ba_search, which prunes
\* on these bits, never walks past free memory nor into memory without any.
NodesSummariseLeaves ==
  \A n \in DOMAIN tree :
    LET below == {l \in Leaves(tree) : l = n \/ n \in Above(l)} IN
      /\ tree[n].st = UNION {tree[l].st : l \in below}
      /\ tree[n].mp = UNION {tree[l].mp : l \in below}

\* Whenever the pages of some aligned block are all free RAM, a request of its
\* order finds a node: blocks that come back are merged again, so a request
\* fails with ENOPAGE only when no such block is left (allocate_pages), and no
\* operation ends in kpanic over a block it takes or gives back.
SearchIsComplete ==
  /\ ~panicked
  /\ LET avail == PagesWith(tree, FreeRam) IN
       \A n \in Node : n[2] % Size[n[1]] = 0 /\ PagesOf(n) \subseteq avail
                        => Candidates(tree, n[1], "free", "ram") # {}

Held == stray \cup UNION {Range(records[o]) : o \in Owners}
HeldPages == UNION {PagesOf(b) : b \in Held}

Covers(r) == {p \in Page : 2 * p < r.hi /\ 2 * p + 2 > r.lo}
IsFree(r) == r.type = "free"

\* The pages a map reserves: page 0, and those a reserved region shares, unless
\* a usable region that comes later in the map shares them too.
Reserved(m) ==
  {0} \cup {p \in Page :
             \E i \in DOMAIN m :
               /\ ~IsFree(m[i]) /\ p \in Covers(m[i])
               /\ \A j \in DOMAIN m : j > i /\ IsFree(m[j]) => p \notin Covers(m[j])}

Kernel ==
  UNION {Sections[i].first .. Sections[i].first + Sections[i].count - 1 : i \in DOMAIN Sections}

\* No page of the kernel, not page 0 and no page that a region the firmware
\* reserves shares is ever part of a block handed out, also when the region
\* begins or ends within the page (initialize_buddy_allocator).  The code rounds
\* usable regions outward as well (buddy.c:367-368), and of two regions that
\* share a page the one listed last decides: what a usable region listed after
\* the reserved one takes back is not claimed, it is handed out.
ReservedPagesStay == HeldPages \cap (Reserved(mmap) \cup Kernel) = {}

\* The template's page tables, which all threads walk, are marked as used with
\* the other page tables, so that no request ever gets one of their pages
\* (initialize_buddy_allocator).
TemplateTablesStay == HeldPages \cap Range(TemplateTables) = {}

OwnPagesOnly ==
  \A c \in Live :
    LET own == UNION {PagesOf(b) : b \in Range(records[c])} IN
      /\ \A pd \in Pd : dir[c][pd] \in own \cup {Nil, dir["template"][pd]}
      /\ \A v \in Virtual :
           Translate(dir[c], v) \in own \cup {Nil, v}
      /\ \A i \in 0 .. PoolPages - 1 :
           Translate(dir[c], PoolStart + i) = records[c][1][2] + i

\* As long as no request gets a page of the template's tables, which nothing
\* marks as used: a page a live thread can reach through its directory is either
\* mapped onto itself or belongs to a block the thread's own context records,
\* and every page table it walks is its own or the template's (x86_copy_pagetable,
\* x86_map_pages).  The pages of its pool stay mapped onto one block whatever it
\* asks for later.  What a request without an address maps onto itself in one of
\* the template's tables (pagemgr.c:136-138) is there for every thread, also
\* after the end of the one that asked: mapped onto itself is all that is
\* claimed of it.
ThreadsReachOwnPages == []TemplateTablesStay => []OwnPagesOnly

\* The contexts and the tree implement the allocator of PageAllocator: what
\* the contexts record, and what was taken without a record, are disjoint
\* blocks, and exactly the rest of the usable memory can still be had.
Allocator == INSTANCE PageAllocator WITH
  PageSpace <- Page,
  Sizes <- {Size[o] : o \in 0 .. MaxOrder},
  avail <- PagesWith(tree, FreeRam),
  given <- {PagesOf(b) : b \in Held}

ImplementsPageAllocator == Allocator!Spec
=============================================================================
