----------------------------- MODULE BuddyAlloc -----------------------------
(***************************************************************************)
(* The buddy page allocator of the c-kernel: a binary tree over the pages  *)
(* of the address space.  A node is a pair <<order, first page>>; a tree   *)
(* maps the nodes that exist to their flags, the set of status bits and    *)
(* the set of mapping bits.  PNODE_ACPI is 0: the empty set of statuses.   *)
(* The heap the nodes are taken from is large enough here.                 *)
(***************************************************************************)
EXTENDS Integers, Sequences, FiniteSets, SequencesExt

CONSTANT MaxOrder    \* BA_MAX_ORDER

ASSUME OrderAssumption == MaxOrder \in Nat

\* The pages of a node of an order: 1 << order.
Size[o \in Nat] == IF o = 0 THEN 1 ELSE 2 * Size[o - 1]

Page == 0 .. Size[MaxOrder] - 1
Node == {<<o, a>> : o \in 0 .. MaxOrder, a \in Page}

Status == {"free", "used", "blocked"}
Mapping == {"unmapped", "ram", "io", "blk"}
Flags == [st : SUBSET Status, mp : SUBSET Mapping]

Flag(st, mp) == [st |-> {st}, mp |-> {mp}]
FreeRam == Flag("free", "ram")
UsedRam == Flag("used", "ram")

Root == <<MaxOrder, 0>>
NodeAt(order, page) == <<order, page - (page % Size[order])>>
PagesOf(n) == n[2] .. n[2] + Size[n[1]] - 1
Parent(n) == NodeAt(n[1] + 1, n[2])
Children(n) == {NodeAt(n[1] - 1, n[2]), NodeAt(n[1] - 1, n[2] + Size[n[1] - 1])}
Buddy(n) == CHOOSE b \in Children(Parent(n)) : b # n
Above(n) == {NodeAt(o, n[2]) : o \in n[1] + 1 .. MaxOrder}

IsLeaf(t, n) == n[1] = 0 \/ NodeAt(n[1] - 1, n[2]) \notin DOMAIN t
Leaves(t) == {n \in DOMAIN t : IsLeaf(t, n)}
PagesWith(t, flags) == UNION {PagesOf(l) : l \in {k \in Leaves(t) : t[k] = flags}}
LeafOf(t, p) == CHOOSE l \in Leaves(t) : p \in PagesOf(l)

\* The tree t with other flags in some nodes, which may be new.
Updated(t, flags) ==
  [m \in DOMAIN t \cup DOMAIN flags |-> IF m \in DOMAIN flags THEN flags[m] ELSE t[m]]

-----------------------------------------------------------------------------
(* Splitting and merging.                                                  *)

\* ba_find_node splits the leaf over n until n exists; the new nodes take
\* the flags of the leaf.
SplitTo(t, n) ==
  IF n \in DOMAIN t THEN t
  ELSE LET leaf == LeafOf(t, n[2])
           cut == UNION {Children(a) : a \in {b \in Above(n) : b[1] <= leaf[1]}}
       IN  Updated(t, [m \in cut |-> t[leaf]])

\* One round of pnode_repair_tree.
Combine(t, parent) ==
  LET kids == Children(parent) IN
  IF /\ \A k \in kids : IsLeaf(t, k) /\ t[k].st = {"free"}
     /\ \A j, k \in kids : t[j] = t[k]
  THEN [m \in DOMAIN t \ kids |-> t[m]]
  ELSE t

\* pnode_repair_tree walks from n to the root.
Repair(t, n) ==
  LET upTo[o \in 0 .. MaxOrder] ==
        IF o <= n[1] THEN t ELSE Combine(upTo[o - 1], NodeAt(o, n[2]))
  IN  upTo[MaxOrder]

Seed_Store(t, n, flags) ==  \* seeded fault: only the parent is brought up to date
  LET joined == [st |-> flags.st \cup t[Buddy(n)].st, mp |-> flags.mp \cup t[Buddy(n)].mp]
      up == IF n = Root THEN {} ELSE {Parent(n)}
  IN  Updated(t, [m \in {n} \cup up |-> IF m = n THEN flags ELSE joined])

\* pnode_set_flags and pnode_set_status store the flags in n, then in each
\* node above the union of its children's.
Store(t, n, flags) ==
  LET off(a) == {Buddy(b) : b \in {c \in {n} \cup Above(n) : c[1] < a[1]}}
      joined(a) ==
        [st |-> flags.st \cup UNION {t[b].st : b \in off(a)},
         mp |-> flags.mp \cup UNION {t[b].mp : b \in off(a)}]
  IN  Updated(t, [m \in {n} \cup Above(n) |-> IF m = n THEN flags ELSE joined(m)])

Seed_SetFlags(t, n, flags) ==  \* seeded fault: the tree is not repaired
  Store(t, n, flags)

SetFlags(t, n, flags) == Repair(Store(t, n, flags), n)

\* The status alone: BLOCKED nodes and an equal status are left as they are.
SetStatus(t, n, st) ==
  IF "blocked" \in t[n].st \/ t[n].st = {st} THEN t
  ELSE SetFlags(t, n, [t[n] EXCEPT !.st = {st}])

\* pnode_validate_flags_update; the numeric order of the statuses is
\* ACPI < FREE < USED < BLOCKED.
Rank(st) == IF "blocked" \in st THEN 4 ELSE IF "used" \in st THEN 2
            ELSE IF "free" \in st THEN 1 ELSE 0

ValidUpdate(old, new, bypass) ==
  \/ old = new
  \/ /\ old.st = {"used"} /\ old.mp # new.mp
     /\ Rank(old.st) > Rank(new.st) /\ bypass
  \/ /\ ~(old.st = {"used"} /\ old.mp # new.mp)
     /\ bypass \/ old.st # {"blocked"} \/ old.mp # new.mp

-----------------------------------------------------------------------------
(* Searching and marking.                                                  *)

Matches(flags, st, mp) == st \in flags.st /\ mp \in flags.mp

\* The leaves ba_search can stop at: it prunes below a node that does not
\* match, and takes the first leaf of a sufficient order from the low end.
Candidates(t, order, st, mp) ==
  {l \in Leaves(t) : /\ l[1] >= order
                     /\ \A m \in {l} \cup Above(l) : Matches(t[m], st, mp)}

\* The node ba_search returns: the low end of the lowest candidate.
Search(t, order, st, mp) ==
  LET candidates == Candidates(t, order, st, mp)
      lowest == CHOOSE l \in candidates : \A k \in candidates : l[2] <= k[2]
  IN  <<order, lowest[2]>>

\* ba_mark_pages goes from leaf to leaf; the first page, and a leaf that
\* reaches beyond the range, are cut to single pages.
MarkNode(t, p, first, end) ==
  LET leaf == LeafOf(t, p) IN
    IF p = first \/ leaf[2] + Size[leaf[1]] > end THEN <<0, p>> ELSE leaf

MarkStep(acc, p, first, end, flags, bypass) ==
  IF p < acc.next THEN acc
  ELSE LET n == MarkNode(acc.tree, p, first, end)
           cut == SplitTo(acc.tree, n)
       IN  [tree |-> SetFlags(cut, n, flags),
            ok |-> acc.ok /\ ValidUpdate(cut[n], flags, bypass),
            next |-> p + Size[n[1]]]

\* ok is false once an update was invalid: the kernel panics.
MarkPages(s, first, count, flags, bypass) ==
  LET end == first + count
      run[i \in 0 .. count] ==
        IF i = 0 THEN [tree |-> s.tree, ok |-> s.ok, next |-> first]
        ELSE MarkStep(run[i - 1], first + i - 1, first, end, flags, bypass)
  IN  [tree |-> run[count].tree, ok |-> run[count].ok]

-----------------------------------------------------------------------------
(* initialize_buddy_allocator.  The bounds of a region of the memory map   *)
(* are counted in half pages: a region need not begin or end on a page.    *)

\* hdf_mmap_entry_type; the type ACPI_RECLAIMABLE has no status bit.
RegionFlags(type) ==
  CASE type = "critical" -> Flag("blocked", "ram")
    [] type = "free" -> FreeRam
    [] type = "acpi" -> [st |-> {}, mp |-> {"ram"}]
    [] type = "nvs" -> Flag("blocked", "ram")
    [] OTHER -> Flag("blocked", "unmapped")

Seed_FirstPage(r) == (r.lo + 1) \div 2   \* seeded fault: div_ceil

FirstPage(r) == r.lo \div 2
EndPage(r) == (r.hi + 1) \div 2

\* An entry of the map, rounded outward; page 0 is skipped.
MarkRegion(s, r) ==
  LET first == IF FirstPage(r) = 0 THEN 1 ELSE FirstPage(r) IN
    MarkPages(s, first, EndPage(r) - first, RegionFlags(r.type), TRUE)

\* The kernel's sections, stacks, heaps, page tables and the video memory.
MarkSection(s, r) == MarkPages(s, r.first, r.count, UsedRam, FALSE)

\* initialize_buddy_allocator: the null page, then the map, then the kernel.
Boot(regions, sections) ==
  LET root == [n \in {Root} |-> Flag("free", "unmapped")]
      null == MarkPages([tree |-> root, ok |-> TRUE], 0, 1,
                        Flag("blocked", "unmapped"), TRUE)
      mapped[i \in 0 .. Len(regions)] ==
        IF i = 0 THEN null ELSE MarkRegion(mapped[i - 1], regions[i])
      marked[i \in 0 .. Len(sections)] ==
        IF i = 0 THEN mapped[Len(regions)] ELSE MarkSection(marked[i - 1], sections[i])
  IN  marked[Len(sections)]

=============================================================================
