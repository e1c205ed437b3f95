------------------------------- MODULE KHeap -------------------------------
(***************************************************************************)
(* The heap of the kernels: a pool filled from the bottom by the heap bin, *)
(* and two lists of nodes, those in use and those free.  A node is a       *)
(* header followed by its data.  Addresses and sizes are counted in units  *)
(* of 16 bytes, the size of a header and the granularity of a request.     *)
(* The nodes below heap_bin_head are kept as a function from the address   *)
(* of the header; heap_bin_size is what the pool has above the head.       *)
(***************************************************************************)
EXTENDS Integers, Sequences, FiniteSets, SequencesExt

CONSTANTS
  PoolBase,   \* the address of the pool
  PoolSize,   \* its size
  Sizes,      \* bound: the sizes that are requested
  Aligns      \* and the alignments, powers of two

ASSUME HeapAssumption ==
  /\ PoolBase \in Nat /\ PoolSize \in Nat
  /\ Sizes \subseteq Nat \ {0} /\ Aligns \subseteq Nat \ {0}

VARIABLES
  heap,     \* heap_allocator_t
  live      \* history: what the users hold, the size each asked for

heapVars == <<heap, live>>

Null == -1
Header == 1
NewNode(size) == [size |-> size, free |-> FALSE, resizeable |-> FALSE]
Room(h) == PoolSize - h.head       \* heap_bin_size
Out(h) == [heap |-> h, ptr |-> Null]
With(f, x, v) == [y \in DOMAIN f \cup {x} |-> IF y = x THEN v ELSE f[y]]

\* construct_heap.
EmptyHeap == [head |-> 0, node |-> << >>, allocBin |-> << >>, freeBin |-> << >>]

-----------------------------------------------------------------------------
(* The lists: heap_bin.c.                                                  *)

\* bin_push appends.
Push(bin, n) == Append(bin, n)

Seed_Unlink(bin, n) ==  \* seeded fault: the head of the list is taken
  IF bin = << >> THEN bin ELSE Tail(bin)

\* bin_remove takes the node out where it stands.
Unlink(bin, n) == RemoveFirst(bin, n)

\* bin_find_node: the first node of the list that is large enough.
FindNode(h, size) ==
  LET fits == {i \in DOMAIN h.freeBin : h.node[h.freeBin[i]].size >= size} IN
    IF fits = {} THEN Null ELSE h.freeBin[CHOOSE i \in fits : \A j \in fits : i <= j]

-----------------------------------------------------------------------------
(* heap.c.                                                                 *)

\* The heap bin has room: the new node goes to its end.
Bump(h, size) ==
  [heap |-> [h EXCEPT !.head = h.head + Header + size,
                      !.node = With(@, h.head, NewNode(size)),
                      !.allocBin = Push(@, h.head)],
   ptr |-> h.head + Header]

\* A free node is used as it is, with the hint it has.
Reuse(h, n) ==
  [heap |-> [h EXCEPT !.freeBin = Unlink(@, n),
                      !.allocBin = Push(@, n),
                      !.node[n].free = FALSE],
   ptr |-> n + Header]

Seed_Split(h, n, size) ==  \* seeded fault: the header of the rest is forgotten
  LET rest == n + Header + size IN
    [heap |-> [h EXCEPT
       !.node = With(With(@, n, [NewNode(size) EXCEPT !.resizeable = TRUE]),
                     rest, [NewNode(h.node[n].size - size) EXCEPT !.free = TRUE]),
       !.allocBin = Push(@, n),
       !.freeBin = Push(Unlink(@, n), rest)],
     ptr |-> n + Header]

\* A free node is cut; what is left becomes a free node.
Split(h, n, size) ==
  LET rest == n + Header + size IN
    [heap |-> [h EXCEPT
       !.node = With(With(@, n, [NewNode(size) EXCEPT !.resizeable = TRUE]),
                     rest, [NewNode(h.node[n].size - size - Header) EXCEPT !.free = TRUE]),
       !.allocBin = Push(@, n),
       !.freeBin = Push(Unlink(@, n), rest)],
     ptr |-> n + Header]

Seed_Malloc(h, size) ==  \* seeded fault: the header needs no room
  LET toCut == FindNode(h, size + Header + 1)
      toFill == FindNode(h, size)
  IN  IF size <= Room(h) THEN Bump(h, size)
      ELSE IF toCut # Null THEN Split(h, toCut, size)
      ELSE IF toFill # Null THEN Reuse(h, toFill)
      ELSE Out(h)

\* malloc: the heap bin first, then a free node with room for a second node
\* of at least MIN_NODE_SIZE, then any free node that is large enough.
Malloc(h, size) ==
  LET toCut == FindNode(h, size + Header + 1)
      toFill == FindNode(h, size)
  IN  IF Header + size <= Room(h) THEN Bump(h, size)
      ELSE IF toCut # Null THEN Split(h, toCut, size)
      ELSE IF toFill # Null THEN Reuse(h, toFill)
      ELSE Out(h)

\* malloc_aligned fills the way to the aligned address with a free node.  The
\* room for the header is not asked for, and malloc need not use the heap bin.
MallocAligned(h, size, align) ==
  LET data == PoolBase + h.head + Header
      padding == (align - (data % align)) % align
      padded == [h EXCEPT
        !.node = With(@, h.head, [NewNode(padding - Header) EXCEPT !.free = TRUE]),
        !.freeBin = Push(@, h.head),
        !.head = @ + padding]
  IN  IF align = 1 \/ padding = 0 THEN Malloc(h, size)
      ELSE IF Room(h) < padding + size THEN Out(h)
      ELSE Malloc(padded, size)

Seed_Free(h, ptr) ==  \* seeded fault: a node at the end is listed as free, too
  LET n == ptr - Header
      freed == [h EXCEPT !.node[n].free = TRUE, !.allocBin = Unlink(@, n)]
  IN  IF ptr + h.node[n].size = h.head
      THEN [freed EXCEPT !.head = n, !.freeBin = Push(@, n)]
      ELSE [freed EXCEPT !.freeBin = Push(@, n)]

\* free gives a node at the end of the used part back to the heap bin; the
\* free nodes before it stay as they are.
Free(h, ptr) ==
  LET n == ptr - Header
      freed == [h EXCEPT !.node[n].free = TRUE, !.allocBin = Unlink(@, n)]
  IN  IF h.node[n].free THEN h     \* double free detected
      ELSE IF ptr + h.node[n].size = h.head
      THEN [freed EXCEPT !.head = n,
                         !.node = [m \in DOMAIN @ \ {n} |-> @[m]]]
      ELSE [freed EXCEPT !.freeBin = Push(@, n)]

-----------------------------------------------------------------------------
(* A user of the heap.                                                     *)

HeapInit == heap = EmptyHeap /\ live = << >>

Take(out, size) ==
  /\ heap' = out.heap
  /\ live' = IF out.ptr = Null THEN live ELSE With(live, out.ptr, size)

AskMalloc(size) == Take(Malloc(heap, size), size)

AskAligned(size, align) == Take(MallocAligned(heap, size, align), size)

GiveBack(ptr) ==
  /\ heap' = Free(heap, ptr)
  /\ live' = [p \in DOMAIN live \ {ptr} |-> live[p]]

HeapNext ==
  \/ \E size \in Sizes : AskMalloc(size)
  \/ \E size \in Sizes, align \in Aligns : AskAligned(size, align)
  \/ \E ptr \in DOMAIN live : GiveBack(ptr)

HeapSpec == HeapInit /\ [][HeapNext]_heapVars

-----------------------------------------------------------------------------
(* Properties.                                                             *)

Extent(h, n) == n .. n + Header + h.node[n].size - 1

\* After every sequence of requests and returns the nodes fill the used part
\* of the pool without a gap and without an overlap: splitting, padding and
\* the return of the last node never lose memory nor count it twice.
NodesTileThePool ==
  /\ UNION {Extent(heap, n) : n \in DOMAIN heap.node} = 0 .. heap.head - 1
  /\ \A m, n \in DOMAIN heap.node :
       m # n => Extent(heap, m) \cap Extent(heap, n) = {}

\* Each node is in one of the two lists, once, and in the one its flag names;
\* the nodes in use are those of the users, so that none is lost.
ListsAgreeWithFlags ==
  /\ IsInjective(heap.allocBin) /\ IsInjective(heap.freeBin)
  /\ Range(heap.allocBin) = {n \in DOMAIN heap.node : ~heap.node[n].free}
  /\ Range(heap.freeBin) = {n \in DOMAIN heap.node : heap.node[n].free}
  /\ {p - Header : p \in DOMAIN live} = Range(heap.allocBin)

\* The data a user holds is as large as was asked for, lies inside the pool and
\* contains no header and no data of another node: writing disturbs nobody.
DataIsPrivate ==
  \A p \in DOMAIN live :
    LET data == p .. p + live[p] - 1 IN
      /\ data \subseteq 0 .. PoolSize - 1
      /\ \A n \in DOMAIN heap.node \ {p - Header} : data \cap Extent(heap, n) = {}
      /\ heap.node[p - Header].size >= live[p]

=============================================================================
