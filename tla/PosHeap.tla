------------------------------ MODULE PosHeap ------------------------------
(***************************************************************************)
(* The heap of the pos-kernel: the allocator of module KHeap, with one     *)
(* pool for the whole kernel, realloc in use by std::vector and            *)
(* std::string, and an exception where the other kernel returns null.      *)
(***************************************************************************)
EXTENDS KHeap

VARIABLE raised     \* x86_raise(NO_HEAP_MEMORY) stopped the kernel

posHeapVars == <<heapVars, raised>>

\* initialize_heap: the pool between __heap_start and __heap_end.
PosHeapInit == HeapInit /\ raised = FALSE

Get(out, size) ==
  /\ ~raised
  /\ raised' = (out.ptr = Null)
  /\ Take(out, size)

PosMalloc(size) == Get(Malloc(heap, size), size)

PosMallocAligned(size, align) == Get(MallocAligned(heap, size, align), size)

PosFree(ptr) == ~raised /\ GiveBack(ptr) /\ UNCHANGED raised

-----------------------------------------------------------------------------
(* realloc, in the order of its cases.  A request is whole when it is a    *)
(* multiple of 16 bytes.                                                   *)

Same(h, ptr) == [heap |-> h, ptr |-> ptr]

\* The last node grows with the heap bin; the room is not looked at.
GrowLast(h, ptr, size) ==
  Same([h EXCEPT !.head = ptr + size, !.node[ptr - Header].size = size], ptr)

\* The free node after a node that was cut: the part that is needed is taken
\* off its front, and the rest is a node again.
TakeFront(h, ptr, size) ==
  LET n == ptr - Header
      next == ptr + h.node[n].size
      more == size - h.node[n].size
      rest == next + more
      cut == NewNode(h.node[next].size - (more - Header))
  IN  Same([h EXCEPT
        !.node = With(With([m \in DOMAIN @ \ {next} |-> @[m]],
                           rest, [cut EXCEPT !.free = TRUE]),
                      n, [size |-> size, free |-> FALSE, resizeable |-> TRUE]),
        !.freeBin = Push(Unlink(@, next), rest)], ptr)

\* It is too small for that: it is merged as a whole.
TakeAll(h, ptr) ==
  LET n == ptr - Header
      next == ptr + h.node[n].size
      joined == [size |-> h.node[n].size + Header + h.node[next].size,
                 free |-> FALSE, resizeable |-> h.node[next].resizeable]
  IN  Same([h EXCEPT
        !.node = With([m \in DOMAIN @ \ {next} |-> @[m]], n, joined),
        !.freeBin = Unlink(@, next)], ptr)

\* A new node, a copy, and the end of the old one.
Move(h, ptr, size) ==
  LET out == Malloc(h, size) IN
    IF out.ptr = Null THEN out ELSE [out EXCEPT !.heap = Free(out.heap, ptr)]

Realloc(h, ptr, size, whole) ==
  LET node == h.node[ptr - Header]
      next == ptr + node.size
      more == size - node.size
      canRemerge == /\ node.resizeable
                    /\ next \in DOMAIN h.node /\ h.node[next].free
                    /\ h.node[next].size + Header >= more
  IN  IF node.size > size \/ (node.size = size /\ ~whole) THEN Same(h, ptr)
      ELSE IF next = h.head THEN GrowLast(h, ptr, size)
      ELSE IF ~canRemerge THEN Move(h, ptr, size)
      ELSE IF h.node[next].size + Header >= more + Header + 1
      THEN TakeFront(h, ptr, size)
      ELSE TakeAll(h, ptr)

PosRealloc(ptr, size, whole) ==
  LET out == Realloc(heap, ptr, size, whole)
      kept == [p \in DOMAIN live \ {ptr} |-> live[p]]
  IN  /\ ~raised
      /\ raised' = (out.ptr = Null)
      /\ heap' = out.heap
      /\ live' = IF out.ptr = Null THEN live ELSE With(kept, out.ptr, size)

PosHeapNext ==
  \/ \E size \in Sizes : PosMalloc(size)
  \/ \E size \in Sizes, align \in Aligns : PosMallocAligned(size, align)
  \/ \E ptr \in DOMAIN live : PosFree(ptr)
  \/ \E ptr \in DOMAIN live, size \in Sizes, whole \in BOOLEAN :
       PosRealloc(ptr, size, whole)

PosHeapSpec == PosHeapInit /\ [][PosHeapNext]_posHeapVars

\* realloc cuts the free node after a node "so now split it" into two nodes:
\* as everywhere in the allocator, nodes of a pool do not overlap (heap.cpp).
SplitNodesAreDisjoint ==
  \A m, n \in DOMAIN heap.node :
    m # n => Extent(heap, m) \cap Extent(heap, n) = {}

=============================================================================
