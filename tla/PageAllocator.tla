--------------------------- MODULE PageAllocator ---------------------------
(***************************************************************************)
(* What the page allocator promises its users, with no tree, record or     *)
(* page table: aligned blocks of a power of two of pages are taken from    *)
(* the available ones and may come back; nobody else ever gets a page that *)
(* is handed out.                                                          *)
(***************************************************************************)
EXTENDS Integers

CONSTANTS
  PageSpace,
  Sizes     \* the powers of two a block may have

VARIABLES
  avail,    \* the pages a request may get
  given     \* the blocks handed out: sets of pages

Aligned(b) ==
  \E size \in Sizes, a \in PageSpace :
    a % size = 0 /\ b = a .. a + size - 1

Init == avail \subseteq PageSpace /\ given = {}

\* One request of the kernel takes one or several blocks.
Take ==
  /\ given \subseteq given'
  /\ LET new == given' \ given IN
       /\ \A b \in new : Aligned(b) /\ b \subseteq avail
       /\ \A b, c \in new : b = c \/ b \cap c = {}
       /\ avail' = avail \ UNION new

\* The end of a context gives back some of them.
Return ==
  /\ given' \subseteq given
  /\ avail' = avail \cup UNION (given \ given')

Next == Take \/ Return

Spec == Init /\ [][Next]_<<avail, given>>
=============================================================================
