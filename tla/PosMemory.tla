------------------------------ MODULE PosMemory ------------------------------
(***************************************************************************)
(* The page memory of pos-kernel (cpu/memory.cpp, std/bitmap/bitmap.cpp and *)
(* the part of cpu/paging.cpp that is called): one bit a page, set for what *)
(* is in use.  initialize_memory frees what the BIOS calls free, reserves   *)
(* the kernel and the stack, and moves what the boot loader handed over to  *)
(* pages of its own.                                                        *)
(*                                                                          *)
(* Addresses count units, PAGE_SIZE of them a page; U32 units are what 32   *)
(* bits address.                                                            *)
(***************************************************************************)
EXTENDS Integers, Sequences, FiniteSets, SequencesExt

CONSTANTS Handoffs,    \* what the boot loader can hand over
          PAGE_SIZE,   \* units in a page
          U32          \* units a 32-bit address tells apart

ASSUME MemoryAssumption ==
    /\ PAGE_SIZE \in Nat \ {0} /\ U32 \in Nat \ {0}
    /\ U32 % (8 * PAGE_SIZE) = 0

VARIABLES
    handoff,            \* KernelInfo: e820 map, kernel map, stack, where they are;
                        \* the entries of the kernel map are not behind its count,
                        \* as those of the e820 map are, but where it points to
    page_status,        \* the bitmap: page -> in use
    cached,             \* isFalseBitCached, cache_false_bit_pos
    allocator_status,
    ram,                \* what the kernel wrote to pages it took: page -> data
    copies,             \* the moved KernelInfo: part -> page, as far as it got
    unmapped            \* pages that are not mapped; the others are, to themselves

memVars == <<handoff, page_status, cached, allocator_status, ram, copies, unmapped>>

Pages == U32 \div PAGE_SIZE
npos == 0                \* page 0 is always in use
Parts == <<"e820", "kernelMap", "paging">>

DivRoundUp(p, q) == (p + q - 1) \div q
DivRoundDown(p, q) == p \div q

-----------------------------------------------------------------------------
\* std::Bitmap.  Its bytes are written whole once 8 bits are set.

Bitmap(defaultValue) == [p \in 0..Pages - 1 |-> defaultValue]

\* Bits of the bytes first \div 8 to (first + size) \div 8 that setBits writes:
\* the bytes between whole, of the first and of the last the part in the range.
BytewiseBits(first, size) ==
    LET end       == (first + size) % U32
        firstByte == first \div 8
        lastByte  == IF end % 8 = 0 THEN end \div 8 - 1 ELSE end \div 8
        lastBits  == IF end % 8 = 0 THEN 8 ELSE end % 8
    IN  {i \in 0..Pages - 1 :
            \/ i \div 8 = firstByte /\ i % 8 >= first % 8
            \/ i \div 8 \in firstByte + 1..lastByte - 1
            \/ i \div 8 = lastByte /\ i % 8 < lastBits}

\* The bits setBits writes.
BitsWritten(first, size) == IF size < 8 THEN first..first + size - 1 ELSE BytewiseBits(first, size)
setBits(bits, first, size, value) ==
    [i \in DOMAIN bits |-> IF i \in BitsWritten(first, size) THEN value ELSE bits[i]]

\* find_false, past its cache.
FirstFalse(bits) == LET free == {i \in DOMAIN bits : ~bits[i]}
                    IN  IF free = {} THEN npos ELSE Min(free)

\* find_false_bits tries the first false bit of every byte and no other.
FirstInByte(bits, i) == ~bits[i] /\ \A j \in 8 * (i \div 8)..i - 1 : bits[j]
RunAt(bits, i, n) == \A j \in i..i + n - 1 : j \in DOMAIN bits /\ ~bits[j]
find_false_bits(bits, n) ==
    LET found == {i \in DOMAIN bits : FirstInByte(bits, i) /\ RunAt(bits, i, n)}
    IN  IF found = {} THEN npos ELSE Min(found)

-----------------------------------------------------------------------------
\* initialize_memory.

\* The pages a call marks.  The arguments are 32 bits wide, the sum and the count
\* wrap.
mem_mark_free(begin, size) ==
    LET page_begin == DivRoundUp(begin % U32, PAGE_SIZE)
        page_end   == DivRoundDown((begin + size) % U32, PAGE_SIZE)
    IN  BitsWritten(page_begin, (page_end - page_begin) % U32)

\* Mutant of mem_mark_reserved: a page that is used in part is left free.
Seed_mem_mark_reserved(begin, size) ==
    LET page_begin == DivRoundDown(begin, PAGE_SIZE)
    IN  BitsWritten(page_begin, DivRoundDown(begin + size, PAGE_SIZE) - page_begin)

mem_mark_reserved(begin, size) ==
    LET page_begin == DivRoundDown(begin, PAGE_SIZE)
    IN  BitsWritten(page_begin, DivRoundUp(begin + size, PAGE_SIZE) - page_begin)

MarkFree(entry) == IF entry.free THEN mem_mark_free(entry.base, entry.size) ELSE {}
MarkKernel(section) == mem_mark_reserved(section.base, section.size)

\* Everything is reserved, then what the map calls free is not, then the kernel
\* is, and all below the frame of initialize_memory and a page above it; the
\* order of the calls that mark with one value does not matter.  The last page
\* of the 32-bit space has no bit of its own (UINT32_MAX is rounded down) but
\* lies in the last byte.
MarkedPages ==
    LET all    == Bitmap(TRUE)
        freed  == UNION {MarkFree(handoff.e820[i]) : i \in DOMAIN handoff.e820}
        kernel == UNION {MarkKernel(handoff.kernelMap[i]) : i \in DOMAIN handoff.kernelMap}
        low    == mem_mark_reserved(0, handoff.stack + PAGE_SIZE)
    IN  [p \in DOMAIN all |-> (all[p] /\ p \notin freed) \/ p \in kernel \cup low]

InitializeMemory ==
    /\ page_status = <<>>
    /\ page_status' = MarkedPages
    /\ UNCHANGED <<handoff, cached, allocator_status, ram, copies, unmapped>>

\* alloc_pages: the search leaves a cached bit that find_false takes back at
\* once; when it finds nothing the cached bit is npos, so that a request that is
\* only too large is reported as no memory at all.
alloc_pages(count) == find_false_bits(page_status, count)

\* The data a part of KernelInfo holds where the boot loader put it.
Source(part, k) ==
    LET p == handoff.at[part] + k
    IN  IF p \in DOMAIN ram THEN ram[p] ELSE <<part, k>>

\* alloc_cp of the next part; without memory its pointer becomes null.  Of the
\* kernel map that is the count, the pointer to the entries and what lies behind
\* them in the loader's memory; the entries themselves stay where they are.
CopyPart ==
    LET part  == Parts[Len(copies) + 1]
        count == DivRoundUp(handoff.units[part], PAGE_SIZE)
        page  == alloc_pages(count)
    IN
    /\ page_status # <<>> /\ Len(copies) < Len(Parts)
    /\ copies' = Append(copies, page)
    /\ cached' = [on |-> FALSE, pos |-> IF page = npos THEN npos ELSE FirstFalse(page_status)]
    /\ IF page = npos
       THEN /\ allocator_status' = allocator_status \cup {"NO_FREE_SPACE"}
            /\ UNCHANGED <<page_status, ram>>
       ELSE /\ page_status' = setBits(page_status, page, count, TRUE)
            /\ ram' = [p \in DOMAIN ram \cup page..page + count - 1 |->
                         IF p \in page..page + count - 1 THEN Source(part, p - page) ELSE ram[p]]
            /\ UNCHANGED allocator_status
    /\ UNCHANGED <<handoff, unmapped>>

setFlagsPage(p, present) == IF present THEN unmapped \ {p} ELSE unmapped \cup {p}

\* initialize_hw takes page 0 away with getFlagsPage and setFlagsPage.
DropPageZero ==
    /\ Len(copies) = Len(Parts) /\ 0 \notin unmapped
    /\ unmapped' = setFlagsPage(0, FALSE)
    /\ UNCHANGED <<handoff, page_status, cached, allocator_status, ram, copies>>

MemoryReady == Len(copies) = Len(Parts) /\ 0 \in unmapped

MemoryStep == InitializeMemory \/ CopyPart \/ DropPageZero

MemoryInit ==
    /\ handoff \in Handoffs
    /\ page_status = <<>>
    /\ cached = [on |-> FALSE, pos |-> 0]
    /\ allocator_status = {}
    /\ ram = [p \in {} |-> 0]
    /\ copies = <<>>
    /\ unmapped = {}

-----------------------------------------------------------------------------

Overlaps(p, base, size) == p * PAGE_SIZE < base + size /\ base < (p + 1) * PAGE_SIZE

\* The pages the parts are moved to when there are enough above the stack.
FirstPage(h) == DivRoundUp(h.stack + PAGE_SIZE, PAGE_SIZE)
PagesOf(h, part) == DivRoundUp(h.units[part], PAGE_SIZE)
Room(h) == FirstPage(h)..FirstPage(h) + PagesOf(h, Parts[1]) + PagesOf(h, Parts[2])
                                      + PagesOf(h, Parts[3]) - 1

\* How the boot loader lays memory out (Stage-2/memdefs.h, entry.asm and main.c): the
\* stack lies at the end of the first 64 KiB, the e820 map below it, the kernel
\* map and its entries are in the loader's pool from 128 KiB, the page tables at
\* 1 MiB and the kernel at 6 MiB, so that the pages right above the stack hold
\* none of these; and one piece of free memory covers them.
ASSUME HandoffAssumption ==
    \A h \in Handoffs :
        /\ h.stack \in Nat
        /\ \A i \in DOMAIN Parts : h.at[Parts[i]] \in Nat /\ h.units[Parts[i]] \in Nat \ {0}
        /\ \A i \in DOMAIN h.e820 : h.e820[i].base \in Nat /\ h.e820[i].size \in Nat
        /\ \A i \in DOMAIN h.kernelMap :
              LET s == h.kernelMap[i]
              IN  s.base \in Nat /\ s.size \in Nat /\ s.base + s.size < U32
        /\ \E i \in DOMAIN h.e820 :
              LET e == h.e820[i]
              IN  /\ e.free /\ e.base + e.size < U32
                  /\ \A p \in Room(h) : e.base <= p * PAGE_SIZE
                                      /\ (p + 1) * PAGE_SIZE <= e.base + e.size
        /\ \A p \in Room(h) :
              /\ p \notin h.tables \cup h.entries
              /\ \A i \in DOMAIN h.kernelMap :
                    ~Overlaps(p, h.kernelMap[i].base, h.kernelMap[i].size)
              /\ \A i \in DOMAIN Parts :
                    p \notin h.at[Parts[i]]..h.at[Parts[i]] + PagesOf(h, Parts[i]) - 1

\* Pages that lie in free memory of the e820 map, and pages that hold what runs:
\* the kernel, its stack and the page tables of the boot loader.
FreeRam == {p \in 0..Pages - 1 : \A u \in p * PAGE_SIZE..(p + 1) * PAGE_SIZE - 1 :
              \E i \in DOMAIN handoff.e820 :
                  LET e == handoff.e820[i] IN e.free /\ e.base <= u /\ u < e.base + e.size}
InUseAtStart(p) ==
    \/ \E i \in DOMAIN handoff.kernelMap :
          Overlaps(p, handoff.kernelMap[i].base, handoff.kernelMap[i].size)
    \/ p * PAGE_SIZE <= handoff.stack
    \/ p \in handoff.tables

(* What the boot loader handed over survives the start of the allocator:   *)
(* every block alloc_cp moves is moved whole, before another is moved over *)
(* it, to pages of free memory where nothing runs; no block is moved over  *)
(* the entries of the kernel map, which stay behind and to which its copy  *)
(* still points; and the pages the kernel and its stack lie in stay        *)
(* reserved, also when the map has memory above 4 GiB or pieces smaller    *)
(* than a page (initialize_memory, alloc_cp).  That the entries' pages are *)
(* reserved is not claimed: they are not.                                  *)
HandoffWhole ==
    /\ \A i \in DOMAIN copies :
          LET count == DivRoundUp(handoff.units[Parts[i]], PAGE_SIZE)
          IN  /\ copies[i] # npos
              /\ \A k \in 0..count - 1 : ram[copies[i] + k] = <<Parts[i], k>>
    /\ \A p \in DOMAIN ram : p \in FreeRam /\ ~InUseAtStart(p) /\ p \notin handoff.entries
    /\ page_status # <<>> =>
          \A p \in 0..Pages - 1 : InUseAtStart(p) /\ p \notin handoff.tables => page_status[p]
=============================================================================
