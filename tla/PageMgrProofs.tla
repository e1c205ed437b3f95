--------------------------- MODULE PageMgrProofs ---------------------------
(***************************************************************************)
(* Proofs about the page allocator: the tree of BuddyAlloc, the memory map *)
(* it is built from, and the contexts of PageMgr.  From a well formed tree *)
(* every split, update and merge gives a well formed tree, in which only   *)
(* the flags of the pages asked for have changed.  The steps of the page   *)
(* manager are sequences of these, so that the blocks handed out stay      *)
(* leaves of the tree.  What a thread's page tables map is its own, or is  *)
(* mapped onto itself, because the tables lie in blocks of its own.        *)
(***************************************************************************)
EXTENDS PageMgr, TLAPS, NaturalsInduction, WellFoundedInduction, FiniteSetTheorems

(* Induction and iteration.                                                *)

\* There is no endless descent in the numbers.
LEMMA LessIsWellFounded ==
  IsWellFoundedOn({ss \in Nat \X Nat : ss[1] < ss[2]}, Nat)
BY NatLessThanWellFounded DEF OpToRel

\* A set of numbers that is not empty has a least member.
LEMMA LeastMember ==
  ASSUME NEW T, T \subseteq Nat, T # {}
  PROVE  \E x \in T : \A y \in T : x <= y
<1> DEFINE R == {ss \in Nat \X Nat : ss[1] < ss[2]}
<1>1. PICK x \in T : \A y \in T : <<y, x>> \notin R
  <2>1. IsWellFoundedOn(R, Nat)
    BY LessIsWellFounded
  <2> HIDE DEF R
  <2> QED BY <2>1, WFMin
<1>2. \A y \in T : ~(y < x)
  BY <1>1
<1> QED BY <1>2

\* Induction, for a set.
LEMMA Induct ==
  ASSUME NEW T, 0 \in T, \A n \in Nat : n \in T => n + 1 \in T
  PROVE  Nat \subseteq T
<1> SUFFICES ASSUME Nat \ T # {} PROVE FALSE
  OBVIOUS
<1>1. PICK x \in Nat \ T : \A y \in Nat \ T : x <= y
  <2> DEFINE U == Nat \ T
  <2> HIDE DEF U
  <2>1. U \subseteq Nat /\ U # {}
    BY DEF U
  <2>2. \E x \in U : \A y \in U : x <= y
    BY <2>1, LeastMember
  <2> QED BY <2>2 DEF U
<1>2. x # 0 /\ x - 1 \in Nat
  BY <1>1
<1>3. x - 1 \in T
  BY <1>1, <1>2
<1> QED BY <1>1, <1>2, <1>3

\* The values f takes when it starts from e and goes on by next.
Follows(f, n, e, next) ==
  f[0] = e /\ \A i \in 1 .. n : f[i] = next[<<i, f[i - 1]>>]

HasPrefix(S, n, e, next) == \E f \in [0 .. n -> S] : Follows(f, n, e, next)

\* A recursion of n steps has a solution.
LEMMA PrefixExists ==
  ASSUME NEW S, NEW e \in S, NEW next \in [Nat \X S -> S], NEW n \in Nat
  PROVE  HasPrefix(S, n, e, next)
<1> DEFINE T == {k \in Nat : HasPrefix(S, k, e, next)}
<1>1. 0 \in T
  <2> DEFINE f == [i \in 0 .. 0 |-> e]
  <2>1. f \in [0 .. 0 -> S] /\ Follows(f, 0, e, next)
    BY DEF Follows
  <2> QED BY <2>1 DEF HasPrefix
<1>2. ASSUME NEW k \in Nat, k \in T PROVE k + 1 \in T
  <2>1. PICK f \in [0 .. k -> S] : Follows(f, k, e, next)
    BY <1>2 DEF HasPrefix
  <2> DEFINE g == [i \in 0 .. k + 1 |-> IF i <= k THEN f[i] ELSE next[<<k + 1, f[k]>>]]
  <2>2. f[k] \in S /\ next[<<k + 1, f[k]>>] \in S
    OBVIOUS
  <2>3. g \in [0 .. k + 1 -> S]
    BY <2>2
  <2>4. g[0] = e
    BY <2>1 DEF Follows
  <2>5. ASSUME NEW i \in 1 .. k + 1 PROVE g[i] = next[<<i, g[i - 1]>>]
    <3>1. CASE i <= k
      <4>1. i \in 1 .. k /\ i - 1 \in 0 .. k
        BY <3>1
      <4>2. f[i] = next[<<i, f[i - 1]>>]
        BY <2>1, <4>1 DEF Follows
      <4>3. g[i] = f[i] /\ g[i - 1] = f[i - 1]
        BY <4>1
      <4> QED BY <4>2, <4>3
    <3>2. CASE i = k + 1
      <4>1. ~(k + 1 <= k) /\ k + 1 \in 0 .. k + 1 /\ k \in 0 .. k + 1 /\ (k + 1) - 1 = k
        OBVIOUS
      <4>2. g[k + 1] = next[<<k + 1, f[k]>>]
        BY <4>1
      <4>3. g[k] = f[k]
        BY <4>1
      <4> HIDE DEF g
      <4> QED BY <3>2, <4>1, <4>2, <4>3
    <3> QED BY <3>1, <3>2
  <2>6. Follows(g, k + 1, e, next)
    <3> HIDE DEF g
    <3> QED BY <2>4, <2>5 DEF Follows
  <2>7. HasPrefix(S, k + 1, e, next)
    <3> HIDE DEF g
    <3> QED BY <2>3, <2>6 DEF HasPrefix
  <2> QED BY <2>7
<1>3. Nat \subseteq T
  <2> HIDE DEF T
  <2> QED BY <1>1, <1>2, Induct
<1> QED BY <1>3

\* Two solutions agree as far as both go.
LEMMA PrefixesAgree ==
  ASSUME NEW S, NEW e \in S, NEW next \in [Nat \X S -> S],
         NEW n \in Nat, NEW m \in Nat, NEW f, NEW g,
         Follows(f, n, e, next), Follows(g, m, e, next)
  PROVE  \A i \in Nat : i <= n /\ i <= m => f[i] = g[i]
<1> DEFINE T == {i \in Nat : i <= n /\ i <= m => f[i] = g[i]}
<1>1. 0 \in T
  BY DEF Follows
<1>2. ASSUME NEW i \in Nat, i \in T PROVE i + 1 \in T
  <2> SUFFICES ASSUME i + 1 <= n, i + 1 <= m PROVE f[i + 1] = g[i + 1]
    OBVIOUS
  <2>1. i + 1 \in 1 .. n /\ i + 1 \in 1 .. m /\ (i + 1) - 1 = i
    OBVIOUS
  <2>2. f[i + 1] = next[<<i + 1, f[i]>>] /\ g[i + 1] = next[<<i + 1, g[i]>>]
    BY <2>1 DEF Follows
  <2>3. f[i] = g[i]
    BY <1>2
  <2> QED BY <2>2, <2>3
<1>3. Nat \subseteq T
  <2> HIDE DEF T
  <2> QED BY <1>1, <1>2, Induct
<1> QED BY <1>3

\* The solutions of all lengths are one function.
LEMMA Iterates ==
  ASSUME NEW S, NEW e \in S, NEW next \in [Nat \X S -> S]
  PROVE  \E f \in [Nat -> S] : \A n \in Nat : Follows(f, n, e, next)
<1> DEFINE P(n) == CHOOSE f \in [0 .. n -> S] : Follows(f, n, e, next)
           f == [n \in Nat |-> P(n)[n]]
<1>1. \A n \in Nat : P(n) \in [0 .. n -> S] /\ Follows(P(n), n, e, next)
  <2> SUFFICES ASSUME NEW n \in Nat
               PROVE  P(n) \in [0 .. n -> S] /\ Follows(P(n), n, e, next)
    OBVIOUS
  <2>1. \E f0 \in [0 .. n -> S] : Follows(f0, n, e, next)
    BY PrefixExists DEF HasPrefix
  <2> QED BY <2>1, Zenon
<1> HIDE DEF P
<1>2. f \in [Nat -> S]
  BY <1>1
<1>3. f[0] = e
  BY <1>1 DEF Follows
<1>4. ASSUME NEW i \in Nat \ {0} PROVE f[i] = next[<<i, f[i - 1]>>]
  <2>1. i - 1 \in Nat /\ i - 1 <= i /\ i \in 1 .. i
    OBVIOUS
  <2>2. P(i)[i] = next[<<i, P(i)[i - 1]>>]
    BY <1>1, <2>1 DEF Follows
  <2>3. P(i)[i - 1] = P(i - 1)[i - 1]
    <3>1. Follows(P(i), i, e, next) /\ Follows(P(i - 1), i - 1, e, next)
      BY <1>1, <2>1
    <3>2. \A k \in Nat : k <= i /\ k <= i - 1 => P(i)[k] = P(i - 1)[k]
      BY <2>1, <3>1, PrefixesAgree
    <3> QED BY <2>1, <3>2
  <2> QED BY <2>1, <2>2, <2>3
<1>5. \A n \in Nat : Follows(f, n, e, next)
  BY <1>3, <1>4 DEF Follows
<1> QED BY <1>2, <1>5

-----------------------------------------------------------------------------
(* The pages of a node.                                                    *)

\* The recursive equation of Size has a solution, in the positive numbers.
LEMMA SizeRecursion ==
  /\ Size \in [Nat -> Nat \ {0}]
  /\ Size[0] = 1 /\ \A o \in Nat : Size[o + 1] = 2 * Size[o]
<1> DEFINE S == Nat \ {0}
           next == [iu \in Nat \X S |-> 2 * iu[2]]
           F(g) == [o \in Nat |-> IF o = 0 THEN 1 ELSE 2 * g[o - 1]]
<1>1. next \in [Nat \X S -> S]
  OBVIOUS
<1>2. 1 \in S
  OBVIOUS
<1> HIDE DEF next
<1>3. PICK f \in [Nat -> S] : \A n \in Nat : Follows(f, n, 1, next)
  <2> HIDE DEF S
  <2> QED BY <1>1, <1>2, Iterates
<1>4. \A o \in Nat \ {0} : f[o] = 2 * f[o - 1]
  <2> SUFFICES ASSUME NEW o \in Nat \ {0} PROVE f[o] = 2 * f[o - 1]
    OBVIOUS
  <2>1. o \in 1 .. o /\ o - 1 \in Nat /\ f[o - 1] \in S
    OBVIOUS
  <2>2. f[o] = next[<<o, f[o - 1]>>]
    BY <1>3, <2>1 DEF Follows
  <2> QED BY <2>1, <2>2 DEF next
<1>5. f[0] = 1
  BY <1>3 DEF Follows
<1>6. f = F(f)
  BY <1>4, <1>5
<1>7. Size = F(Size)
  <2>1. Size = CHOOSE g : g = F(g)
    BY DEF Size
  <2> HIDE DEF F
  <2> QED BY <1>6, <2>1
<1>8. Size[0] = 1
  BY <1>7
<1>9. \A o \in Nat : Size[o + 1] = 2 * Size[o]
  <2> SUFFICES ASSUME NEW o \in Nat PROVE Size[o + 1] = 2 * Size[o]
    OBVIOUS
  <2>1. o + 1 \in Nat /\ o + 1 # 0 /\ (o + 1) - 1 = o
    OBVIOUS
  <2>2. F(Size)[o + 1] = 2 * Size[o]
    BY <2>1
  <2> QED BY <1>7, <2>2
<1>10. \A o \in Nat : Size[o] \in S
  <2> DEFINE T == {o \in Nat : Size[o] \in S}
  <2>1. 0 \in T
    BY <1>8
  <2>2. \A o \in Nat : o \in T => o + 1 \in T
    BY <1>9
  <2>3. Nat \subseteq T
    <3> HIDE DEF T
    <3> QED BY <2>1, <2>2, Induct
  <2> QED BY <2>3
<1>11. Size \in [Nat -> S]
  <2>1. F(Size) = [o \in Nat |-> Size[o]]
    BY <1>7
  <2> QED BY <1>7, <1>10, <2>1
<1> QED BY <1>8, <1>9, <1>11

(* Division by the size of a node.                                         *)

\* Multiplication is monotone, by a whole step.
LEMMA TimesGrows ==
  ASSUME NEW s \in Nat, NEW q \in Nat, NEW k \in Nat, q < k
  PROVE  s * q + s <= s * k
<1>1. PICK d \in Nat : k = q + 1 + d
  <2>1. k - q - 1 \in Nat /\ k = q + 1 + (k - q - 1)
    OBVIOUS
  <2> QED BY <2>1
<1>2. s * k = s * q + s + s * d
  BY <1>1
<1>3. s * d \in Nat
  OBVIOUS
<1>4. s * q \in Nat
  OBVIOUS
<1> QED BY <1>2, <1>3, <1>4

\* There is one quotient and one remainder.
LEMMA QuotientIsUnique ==
  ASSUME NEW s \in Nat \ {0}, NEW q \in Nat, NEW k \in Nat, NEW r \in 0 .. s - 1, NEW v \in 0 .. s - 1,
         s * q + r = s * k + v
  PROVE  q = k /\ r = v
<1>1. s * q \in Nat /\ s * k \in Nat
  OBVIOUS
<1>2. ~(q < k)
  <2> SUFFICES ASSUME q < k PROVE FALSE
    OBVIOUS
  <2>1. s * q + s <= s * k
    BY TimesGrows
  <2> QED BY <1>1, <2>1
<1>3. ~(k < q)
  <2> SUFFICES ASSUME k < q PROVE FALSE
    OBVIOUS
  <2>1. s * k + s <= s * q
    BY TimesGrows
  <2> QED BY <1>1, <2>1
<1>4. q = k
  BY <1>2, <1>3
<1> QED BY <1>1, <1>4

\* Quotient and remainder of a division.
LEMMA DivMod ==
  ASSUME NEW s \in Nat \ {0}, NEW p \in Nat
  PROVE  /\ p \div s \in Nat /\ p % s \in 0 .. s - 1 /\ p = s * (p \div s) + (p % s)
<1>1. p \div s \in Nat /\ p % s \in 0 .. s - 1
  OBVIOUS
<1> QED BY <1>1

\* A multiple plus a number below the divisor leaves that number.
LEMMA ModIs ==
  ASSUME NEW s \in Nat \ {0}, NEW q \in Nat, NEW r \in 0 .. s - 1
  PROVE  (s * q + r) % s = r
<1> DEFINE p == s * q + r
<1>1. p \in Nat
  <2>1. s * q \in Nat
    OBVIOUS
  <2> QED BY <2>1
<1>2. p \div s \in Nat /\ p % s \in 0 .. s - 1 /\ p = s * (p \div s) + (p % s)
  <2> HIDE DEF p
  <2> QED BY <1>1, DivMod
<1>3. s * q + r = s * (p \div s) + (p % s)
  BY <1>2
<1> HIDE DEF p
<1>4. r = p % s
  BY <1>2, <1>3, QuotientIsUnique
<1> QED BY <1>4 DEF p

\* The multiple of s that p lies above, and that of 2 * s.
LEMMA Halves ==
  ASSUME NEW s \in Nat \ {0}, NEW p \in Nat
  PROVE  \E b \in {0, s}, h \in Nat :
           /\ h <= p /\ p - (p % (2 * s)) = h
           /\ p - (p % s) = h + b
           /\ (h + b) % (2 * s) = b /\ (h + b) % s = 0
           /\ h % s = 0 /\ (h + s) % s = 0
<1> DEFINE q == p \div s
           r == p % s
           k == q \div 2
           c == q % 2
           h == (2 * s) * k
           b == s * c
<1>1. q \in Nat /\ r \in 0 .. s - 1 /\ p = s * q + r
  BY DivMod
<1> HIDE DEF q, r
<1>2. k \in Nat /\ c \in {0, 1} /\ q = 2 * k + c
  BY <1>1
<1> HIDE DEF k, c
<1>3. b \in {0, s} /\ s * k \in Nat /\ h = s * k + s * k
  BY <1>2
<1>4. s * q = s * k + s * k + b
  BY <1>2
<1>5. p = h + (b + r)
  BY <1>1, <1>3, <1>4
<1> HIDE DEF b
<1>6. h \in Nat
  BY <1>3
<1>7. b + r \in 0 .. 2 * s - 1 /\ b \in 0 .. 2 * s - 1 /\ 2 * s \in Nat \ {0}
  BY <1>1, <1>3
<1>8. p % (2 * s) = b + r
  <2>1. ((2 * s) * k + (b + r)) % (2 * s) = b + r
    BY <1>2, <1>7, ModIs
  <2> QED BY <1>5, <2>1
<1>9. (h + b) % (2 * s) = b
  BY <1>2, <1>7, ModIs
<1>10. h % s = 0 /\ (h + s) % s = 0
  <2>1. h = s * (2 * k) + 0 /\ h + s = s * (2 * k + 1) + 0
    BY <1>2
  <2>2. 2 * k \in Nat /\ 2 * k + 1 \in Nat /\ 0 \in 0 .. s - 1
    BY <1>2
  <2>3. (s * (2 * k) + 0) % s = 0 /\ (s * (2 * k + 1) + 0) % s = 0
    BY <2>2, ModIs
  <2> QED BY <2>1, <2>3
<1>11. p % s = r
  BY DEF r
<1> HIDE DEF h
<1>12. h + b = h \/ h + b = h + s
  BY <1>3
<1>13. p - (p % (2 * s)) = h /\ p - (p % s) = h + b /\ h <= p
  BY <1>1, <1>3, <1>5, <1>6, <1>7, <1>8, <1>11
<1> QED BY <1>3, <1>6, <1>9, <1>10, <1>12, <1>13

(* Nodes.                                                                  *)

Orders == 0 .. MaxOrder
TNode == {NodeAt(o, p) : o \in Orders, p \in Page}

\* The number of pages doubles from order to order.
LEMMA SizeOf ==
  ASSUME NEW o \in Nat
  PROVE  Size[o] \in Nat \ {0} /\ Size[o + 1] = 2 * Size[o]
BY SizeRecursion

\* The pages count from 0.
LEMMA PagesAreNumbers ==
  /\ Page \subseteq Nat /\ 0 \in Page
  /\ \A p \in Page, q \in Nat : q <= p => q \in Page
<1>1. MaxOrder \in Nat /\ Size[MaxOrder] \in Nat \ {0}
  BY OrderAssumption, SizeOf
<1> QED BY <1>1 DEF Page

\* The node of order o over a page, its parent, and the two halves of that.
LEMMA NodeOver ==
  ASSUME NEW o \in Nat, NEW p \in Nat
  PROVE  \E b \in {0, Size[o]}, h \in Nat :
           /\ h <= p
           /\ NodeAt(o + 1, p) = <<o + 1, h>> /\ NodeAt(o, p) = <<o, h + b>>
           /\ NodeAt(o + 1, h + b) = <<o + 1, h>>
           /\ NodeAt(o, h + b) = <<o, h + b>>
           /\ NodeAt(o, h) = <<o, h>> /\ NodeAt(o, h + Size[o]) = <<o, h + Size[o]>>
<1> DEFINE s == Size[o]
<1>1. s \in Nat \ {0} /\ Size[o + 1] = 2 * s
  BY SizeOf
<1> HIDE DEF s
<1>2. PICK b \in {0, s}, h \in Nat :
           /\ h <= p /\ p - (p % (2 * s)) = h
           /\ p - (p % s) = h + b
           /\ (h + b) % (2 * s) = b /\ (h + b) % s = 0
           /\ h % s = 0 /\ (h + s) % s = 0
  BY <1>1, Halves
<1>3. NodeAt(o + 1, p) = <<o + 1, h>>
  BY <1>1, <1>2 DEF NodeAt
<1>4. NodeAt(o, p) = <<o, h + b>>
  BY <1>2 DEF NodeAt, s
<1>5. NodeAt(o + 1, h + b) = <<o + 1, (h + b) - b>>
  BY <1>1, <1>2 DEF NodeAt
<1>6. (h + b) - b = h
  BY <1>1, <1>2
<1>7. NodeAt(o, h + b) = <<o, (h + b) - 0>> /\ NodeAt(o, h) = <<o, h - 0>>
      /\ NodeAt(o, h + s) = <<o, (h + s) - 0>>
  BY <1>2 DEF NodeAt, s
<1>8. (h + b) - 0 = h + b /\ h - 0 = h /\ (h + s) - 0 = h + s
  BY <1>1, <1>2
<1> QED BY <1>2, <1>3, <1>4, <1>5, <1>6, <1>7, <1>8 DEF s

\* What NodeAt gives.
LEMMA NodeFields ==
  ASSUME NEW o \in Nat, NEW p \in Nat
  PROVE  /\ NodeAt(o, p)[1] = o /\ NodeAt(o, p)[2] \in Nat /\ NodeAt(o, p)[2] <= p
         /\ NodeAt(o, p) = <<o, NodeAt(o, p)[2]>>
         /\ NodeAt(o, NodeAt(o, p)[2]) = NodeAt(o, p)
<1>1. PICK b \in {0, Size[o]}, h \in Nat : NodeAt(o, p) = <<o, h + b>> /\ NodeAt(o, h + b) = <<o, h + b>>
  BY NodeOver
<1>2. Size[o] \in Nat \ {0} /\ p % Size[o] \in Nat
  <2>1. Size[o] \in Nat \ {0}
    BY SizeOf
  <2> QED BY <2>1
<1>3. NodeAt(o, p)[2] = p - (p % Size[o]) /\ p - (p % Size[o]) <= p
  BY <1>2 DEF NodeAt
<1>4. h + b \in Nat
  BY <1>2
<1> QED BY <1>1, <1>3, <1>4

\* The parent of a node over a page is the node one order up.
LEMMA ParentOver ==
  ASSUME NEW o \in Nat, NEW p \in Nat
  PROVE  Parent(NodeAt(o, p)) = NodeAt(o + 1, p)
<1>1. PICK b \in {0, Size[o]}, h \in Nat :
           /\ NodeAt(o + 1, p) = <<o + 1, h>> /\ NodeAt(o, p) = <<o, h + b>>
           /\ NodeAt(o + 1, h + b) = <<o + 1, h>>
  BY NodeOver
<1> QED BY <1>1 DEF Parent

\* A node of a higher order over the first page of a node is one over all its pages.
LEMMA NodeOverNode ==
  ASSUME NEW o \in Nat, NEW k \in Nat, o <= k, NEW p \in Nat
  PROVE  NodeAt(k, NodeAt(o, p)[2]) = NodeAt(k, p)
<1> DEFINE q == NodeAt(o, p)[2]
           T == {d \in Nat : NodeAt(o + d, q) = NodeAt(o + d, p)}
<1>1. q \in Nat
  BY NodeFields
<1>2. 0 \in T
  <2>1. o + 0 = o
    OBVIOUS
  <2> QED BY <2>1, NodeFields
<1> HIDE DEF q
<1>3. ASSUME NEW d \in Nat, d \in T PROVE d + 1 \in T
  <2>1. o + d \in Nat /\ o + (d + 1) = (o + d) + 1
    OBVIOUS
  <2>2. NodeAt(o + d, q) = NodeAt(o + d, p)
    BY <1>3
  <2>3. Parent(NodeAt(o + d, q)) = NodeAt((o + d) + 1, q)
    BY <1>1, <2>1, ParentOver
  <2>4. Parent(NodeAt(o + d, p)) = NodeAt((o + d) + 1, p)
    BY <2>1, ParentOver
  <2> QED BY <2>1, <2>2, <2>3, <2>4
<1>4. Nat \subseteq T
  <2> HIDE DEF T
  <2> QED BY <1>2, <1>3, Induct
<1>5. k - o \in Nat /\ o + (k - o) = k
  OBVIOUS
<1>6. k - o \in T
  BY <1>4, <1>5
<1> QED BY <1>5, <1>6 DEF q

\* The halves of a node over a page are nodes one order down.
LEMMA ChildrenOver ==
  ASSUME NEW o \in Nat, NEW p \in Nat
  PROVE  LET h == NodeAt(o + 1, p)[2] IN
         /\ h \in Nat
         /\ Children(NodeAt(o + 1, p)) = {<<o, h>>, <<o, h + Size[o]>>}
         /\ NodeAt(o, h) = <<o, h>> /\ NodeAt(o, h + Size[o]) = <<o, h + Size[o]>>
         /\ NodeAt(o, p) \in {<<o, h>>, <<o, h + Size[o]>>}
         /\ <<o, h>> # <<o, h + Size[o]>>
<1>1. PICK b \in {0, Size[o]}, h \in Nat :
           /\ NodeAt(o + 1, p) = <<o + 1, h>> /\ NodeAt(o, p) = <<o, h + b>>
           /\ NodeAt(o, h) = <<o, h>> /\ NodeAt(o, h + Size[o]) = <<o, h + Size[o]>>
  BY NodeOver
<1>2. Size[o] \in Nat \ {0} /\ (o + 1) - 1 = o
  BY SizeOf
<1>3. NodeAt(o + 1, p)[1] = o + 1 /\ NodeAt(o + 1, p)[2] = h
  BY <1>1
<1>4. Children(NodeAt(o + 1, p)) = {<<o, h>>, <<o, h + Size[o]>>}
  BY <1>1, <1>2, <1>3 DEF Children
<1>5. NodeAt(o, p) \in {<<o, h>>, <<o, h + Size[o]>>}
  <2>1. h + 0 = h
    OBVIOUS
  <2> QED BY <1>1, <2>1
<1>6. <<o, h>> # <<o, h + Size[o]>>
  <2>1. h # h + Size[o]
    BY <1>2
  <2> QED BY <2>1
<1> QED BY <1>1, <1>3, <1>4, <1>5, <1>6

\* The pages of a node are those it lies over.
LEMMA PagesOver ==
  ASSUME NEW o \in Nat, NEW p \in Nat, NEW q \in Nat
  PROVE  q \in PagesOf(NodeAt(o, p)) <=> NodeAt(o, q) = NodeAt(o, p)
<1> DEFINE s == Size[o]
           h == p - (p % s)
<1>1. s \in Nat \ {0}
  BY SizeOf
<1>2. p % s \in 0 .. s - 1 /\ q % s \in 0 .. s - 1 /\ p \div s \in Nat /\ q \div s \in Nat
      /\ p = s * (p \div s) + (p % s) /\ q = s * (q \div s) + (q % s)
  BY <1>1, DivMod
<1>3. NodeAt(o, p) = <<o, h>> /\ NodeAt(o, q) = <<o, q - (q % s)>>
  BY DEF NodeAt
<1>4. PagesOf(NodeAt(o, p)) = h .. h + s - 1
  BY <1>3 DEF PagesOf
<1>5. h = s * (p \div s) /\ h \in Nat
  <2> DEFINE d == p \div s
  <2>1. d \in Nat /\ s \in Nat
    BY <1>1, <1>2
  <2> HIDE DEF d
  <2>2. s * d \in Nat
    BY <2>1
  <2> QED BY <1>2, <2>2 DEF d
<1> HIDE DEF h, s
<1>6. ASSUME q - (q % s) = h PROVE q \in h .. h + s - 1
  BY <1>1, <1>2, <1>5, <1>6
<1>7. ASSUME q \in h .. h + s - 1 PROVE q - (q % s) = h
  <2>1. q - h \in 0 .. s - 1 /\ q = h + (q - h)
    BY <1>1, <1>5, <1>7
  <2>2. (s * (p \div s) + (q - h)) % s = q - h
    BY <1>1, <1>2, <2>1, ModIs
  <2>3. q % s = q - h
    BY <1>5, <2>1, <2>2
  <2> QED BY <1>5, <2>3
<1>8. NodeAt(o, q) = NodeAt(o, p) <=> q - (q % s) = h
  BY <1>3
<1>9. q \in PagesOf(NodeAt(o, p)) <=> q \in h .. h + s - 1
  BY <1>4
<1> QED BY <1>6, <1>7, <1>8, <1>9

(* The nodes a tree may have.                                              *)

\* From a node to its root the first page stays within the memory.
LEMMA RootOver ==
  ASSUME NEW p \in Page
  PROVE  NodeAt(MaxOrder, p) = Root
<1>1. MaxOrder \in Nat /\ Size[MaxOrder] \in Nat \ {0} /\ p \in 0 .. Size[MaxOrder] - 1
  BY OrderAssumption, SizeOf DEF Page
<1>2. p % Size[MaxOrder] = p
  BY <1>1
<1> QED BY <1>1, <1>2 DEF NodeAt, Root

\* NodeAt gives nodes of the tree.
LEMMA NodeAtIsNode ==
  ASSUME NEW o \in Orders, NEW p \in Page
  PROVE  NodeAt(o, p) \in TNode
BY DEF TNode

\* The orders count from 0 to that of the root.
LEMMA OrdersAreNumbers ==
  /\ MaxOrder \in Nat /\ MaxOrder \in Orders /\ 0 \in Orders
  /\ \A o \in Orders : o \in Nat /\ o <= MaxOrder
BY OrderAssumption DEF Orders

\* The fields of a node.
LEMMA TNodeFields ==
  ASSUME NEW n \in TNode
  PROVE  /\ n[1] \in Orders /\ n[2] \in Page /\ n[1] \in Nat /\ n[2] \in Nat
         /\ n = NodeAt(n[1], n[2]) /\ n = <<n[1], n[2]>>
<1>1. PICK o \in Orders, p \in Page : n = NodeAt(o, p)
  BY DEF TNode
<1>2. o \in Nat /\ p \in Nat
  BY OrdersAreNumbers, PagesAreNumbers
<1>3. n[1] = o /\ n[2] \in Nat /\ n[2] <= p /\ n = <<o, n[2]>> /\ NodeAt(o, n[2]) = n
  BY <1>1, <1>2, NodeFields
<1>4. n[2] \in Page
  BY <1>3, PagesAreNumbers
<1> QED BY <1>2, <1>3, <1>4

\* The pages of a node of the tree are pages of the machine.
LEMMA PagesWithin ==
  ASSUME NEW n \in TNode
  PROVE  /\ PagesOf(n) \subseteq Page /\ n[2] \in PagesOf(n)
         /\ \A p \in Page : p \in PagesOf(n) <=> NodeAt(n[1], p) = n
<1>1. n[1] \in Orders /\ n[2] \in Page /\ n[1] \in Nat /\ n[2] \in Nat /\ n = NodeAt(n[1], n[2])
  BY TNodeFields
<1>2. \A q \in Nat : q \in PagesOf(n) <=> NodeAt(n[1], q) = n
  <2> SUFFICES ASSUME NEW q \in Nat PROVE q \in PagesOf(n) <=> NodeAt(n[1], q) = n
    OBVIOUS
  <2>1. q \in PagesOf(NodeAt(n[1], n[2])) <=> NodeAt(n[1], q) = NodeAt(n[1], n[2])
    BY <1>1, PagesOver
  <2> QED BY <1>1, <2>1
<1>3. n[2] \in PagesOf(n)
  BY <1>1, <1>2
<1>4. Size[n[1]] \in Nat
  BY <1>1, SizeOf
<1>5. PagesOf(n) \subseteq Nat
  BY <1>1, <1>4 DEF PagesOf
<1>6. ASSUME NEW q \in PagesOf(n) PROVE q \in Page
  <2>1. q \in Nat /\ NodeAt(n[1], q) = n
    BY <1>2, <1>5
  <2>2. n[1] <= MaxOrder /\ MaxOrder \in Nat
    BY <1>1, OrdersAreNumbers
  <2>3. NodeAt(MaxOrder, n[2]) = NodeAt(MaxOrder, q)
    BY <1>1, <2>1, <2>2, NodeOverNode
  <2>4. NodeAt(MaxOrder, q) = Root
    BY <1>1, <2>3, RootOver
  <2>5. q \in PagesOf(NodeAt(MaxOrder, q))
    BY <2>1, <2>2, PagesOver
  <2>6. PagesOf(Root) = Page
    <3>1. Root[1] = MaxOrder /\ Root[2] = 0
      BY DEF Root
    <3>2. Size[MaxOrder] \in Nat
      BY <2>2, SizeOf
    <3>3. 0 + Size[MaxOrder] - 1 = Size[MaxOrder] - 1
      BY <3>2
    <3> QED BY <3>1, <3>3 DEF PagesOf, Page
  <2> QED BY <2>4, <2>5, <2>6
<1>7. \A p \in Page : p \in Nat
  BY PagesAreNumbers
<1> QED BY <1>2, <1>3, <1>6, <1>7

\* The root covers all pages.
LEMMA RootIsNode ==
  /\ Root \in TNode /\ Root[1] = MaxOrder /\ PagesOf(Root) = Page
  /\ \A n \in TNode : n = Root <=> n[1] = MaxOrder
<1>1. 0 \in Page /\ MaxOrder \in Orders
  BY PagesAreNumbers, OrdersAreNumbers
<1>2. Root \in TNode
  BY <1>1, RootOver, NodeAtIsNode
<1>3. Root[1] = MaxOrder /\ Root[2] = 0
  BY DEF Root
<1>4. ASSUME NEW n \in TNode PROVE n = Root <=> n[1] = MaxOrder
  BY <1>3, TNodeFields, RootOver
<1>5. \A p \in Page : p \in PagesOf(Root)
  BY <1>2, <1>3, RootOver, PagesWithin
<1>6. PagesOf(Root) \subseteq Page
  BY <1>2, PagesWithin
<1> QED BY <1>2, <1>3, <1>4, <1>5, <1>6

\* A node other than the root lies in its parent.
LEMMA ParentNode ==
  ASSUME NEW n \in TNode, n # Root
  PROVE  /\ n[1] < MaxOrder /\ n[1] + 1 \in Orders
         /\ Parent(n) \in TNode /\ Parent(n)[1] = n[1] + 1
         /\ \A p \in PagesOf(n) : p \in PagesOf(Parent(n)) /\ Parent(n) = NodeAt(n[1] + 1, p)
<1>1. n[1] \in Orders /\ n[2] \in Page /\ n[1] \in Nat /\ n[2] \in Nat /\ n = NodeAt(n[1], n[2])
  BY TNodeFields
<1>2. n[1] < MaxOrder /\ n[1] + 1 \in Orders
  BY <1>1, RootIsNode, OrdersAreNumbers DEF Orders
<1>3. Parent(n) = NodeAt(n[1] + 1, n[2])
  BY DEF Parent
<1>4. Parent(n) \in TNode
  BY <1>1, <1>2, <1>3, NodeAtIsNode
<1>5. n[1] + 1 \in Nat
  BY <1>1
<1>6. Parent(n)[1] = n[1] + 1
  BY <1>1, <1>3, <1>5, NodeFields
<1>7. ASSUME NEW p \in PagesOf(n)
      PROVE  p \in PagesOf(Parent(n)) /\ Parent(n) = NodeAt(n[1] + 1, p)
  <2>1. p \in Page /\ NodeAt(n[1], p) = n /\ p \in Nat
    BY PagesWithin, PagesAreNumbers
  <2>2. Parent(NodeAt(n[1], p)) = NodeAt(n[1] + 1, p)
    BY <1>1, <2>1, ParentOver
  <2> QED BY <1>4, <1>6, <2>1, <2>2, PagesWithin
<1> QED BY <1>2, <1>4, <1>6, <1>7

\* The two halves of a node.
LEMMA ChildNodes ==
  ASSUME NEW m \in TNode, m[1] # 0
  PROVE  /\ m[1] - 1 \in Orders
         /\ NodeAt(m[1] - 1, m[2]) \in Children(m)
         /\ \A k \in Children(m) : /\ k \in TNode /\ k[1] = m[1] - 1 /\ k # Root /\ Parent(k) = m
                                   /\ PagesOf(k) \subseteq PagesOf(m)
         /\ \E x, y \in TNode : x # y /\ Children(m) = {x, y}
         /\ \A p \in PagesOf(m) : NodeAt(m[1] - 1, p) \in Children(m)
<1> DEFINE o == m[1] - 1
           x == <<o, m[2]>>
           y == <<o, m[2] + Size[o]>>
<1>1. m[1] \in Orders /\ m[2] \in Page /\ m[1] \in Nat /\ m[2] \in Nat /\ m = NodeAt(m[1], m[2])
  BY TNodeFields
<1>2. o \in Nat /\ o \in Orders /\ o + 1 = m[1] /\ o < MaxOrder
  BY <1>1, OrdersAreNumbers DEF Orders
<1> HIDE DEF o
<1>3. ASSUME NEW p \in Nat, NodeAt(m[1], p) = m
      PROVE  /\ Children(m) = {x, y} /\ NodeAt(o, m[2]) = x /\ NodeAt(o, m[2] + Size[o]) = y
             /\ NodeAt(o, p) \in {x, y} /\ x # y
  <2>1. NodeAt(o + 1, p) = m
    BY <1>2, <1>3
  <2> QED BY <1>2, <2>1, ChildrenOver
<1>4. /\ Children(m) = {x, y} /\ NodeAt(o, m[2]) = x /\ NodeAt(o, m[2] + Size[o]) = y /\ x # y
  BY <1>1, <1>3
<1>5. Size[o] \in Nat \ {0} /\ Size[m[1]] = 2 * Size[o]
  BY <1>2, SizeOf
<1>6. m[2] + Size[o] \in PagesOf(m)
  BY <1>1, <1>5 DEF PagesOf
<1>7. m[2] + Size[o] \in Page
  BY <1>6, PagesWithin
<1>8. x \in TNode /\ y \in TNode
  BY <1>1, <1>2, <1>4, <1>7, NodeAtIsNode
<1>9. \A p \in PagesOf(m) : NodeAt(o, p) \in Children(m)
  <2> SUFFICES ASSUME NEW p \in PagesOf(m) PROVE NodeAt(o, p) \in Children(m)
    OBVIOUS
  <2>1. p \in Page /\ p \in Nat /\ NodeAt(m[1], p) = m
    BY PagesWithin, PagesAreNumbers
  <2> QED BY <1>3, <2>1
<1>10. ASSUME NEW k \in Children(m)
       PROVE  k \in TNode /\ k[1] = o /\ k # Root /\ Parent(k) = m /\ PagesOf(k) \subseteq PagesOf(m)
  <2>1. k = x \/ k = y
    BY <1>4
  <2>2. k \in TNode /\ k[1] = o
    BY <1>8, <2>1
  <2>3. k # Root
    BY <1>2, <2>2, RootIsNode, OrdersAreNumbers
  <2>4. k[2] \in PagesOf(m)
    <3>1. m[2] \in PagesOf(m)
      BY PagesWithin
    <3> QED BY <1>6, <2>1, <3>1
  <2>5. NodeAt(m[1], k[2]) = m
    BY <2>4, PagesWithin
  <2>6. Parent(k) = m
    BY <1>2, <2>2, <2>5 DEF Parent
  <2>7. PagesOf(k) \subseteq PagesOf(m)
    BY <2>2, <2>3, <2>6, ParentNode
  <2> QED BY <2>2, <2>3, <2>6, <2>7
<1>11. m[1] - 1 = o
  BY DEF o
<1> QED BY <1>2, <1>4, <1>8, <1>9, <1>10, <1>11

\* A node is one of the two children of its parent.
LEMMA ChildOfParent ==
  ASSUME NEW n \in TNode, n # Root
  PROVE  n \in Children(Parent(n)) /\ Parent(n)[1] # 0
<1>1. /\ Parent(n) \in TNode /\ Parent(n)[1] = n[1] + 1 /\ n[1] \in Nat
      /\ n[2] \in PagesOf(Parent(n)) /\ n = NodeAt(n[1], n[2])
  BY ParentNode, TNodeFields, PagesWithin
<1>2. Parent(n)[1] # 0 /\ Parent(n)[1] - 1 = n[1]
  BY <1>1
<1>3. NodeAt(Parent(n)[1] - 1, n[2]) \in Children(Parent(n))
  BY <1>1, <1>2, ChildNodes
<1> QED BY <1>1, <1>2, <1>3

\* A node and its buddy are the halves of their parent.
LEMMA BuddyNode ==
  ASSUME NEW n \in TNode, n # Root
  PROVE  Buddy(n) # n /\ Children(Parent(n)) = {n, Buddy(n)}
<1>1. Parent(n) \in TNode /\ n \in Children(Parent(n)) /\ Parent(n)[1] # 0
  BY ParentNode, ChildOfParent
<1>2. PICK x, y \in TNode : x # y /\ Children(Parent(n)) = {x, y}
  BY <1>1, ChildNodes
<1>3. \E b \in Children(Parent(n)) : b # n
  BY <1>1, <1>2
<1>4. Buddy(n) \in Children(Parent(n)) /\ Buddy(n) # n
  BY <1>3 DEF Buddy
<1> QED BY <1>1, <1>2, <1>4

\* The nodes above a node are those of a higher order over its pages.
LEMMA AboveNode ==
  ASSUME NEW n \in TNode, NEW m
  PROVE  /\ m \in Above(n) => /\ m \in TNode /\ m[1] > n[1] /\ m[1] \in Orders
                              /\ PagesOf(n) \subseteq PagesOf(m)
                              /\ \A p \in PagesOf(n) : m = NodeAt(m[1], p)
         /\ m \in TNode /\ m[1] > n[1] /\ (\E p \in PagesOf(n) : p \in PagesOf(m)) => m \in Above(n)
<1>1. n[1] \in Orders /\ n[2] \in Page /\ n[1] \in Nat /\ n[2] \in Nat
  BY TNodeFields
<1>2. ASSUME NEW p \in PagesOf(n), NEW k \in Orders, k > n[1]
      PROVE  NodeAt(k, p) = NodeAt(k, n[2])
  <2>1. p \in Page /\ p \in Nat /\ NodeAt(n[1], p) = n /\ k \in Nat
    BY PagesWithin, PagesAreNumbers, OrdersAreNumbers
  <2>2. NodeAt(k, NodeAt(n[1], p)[2]) = NodeAt(k, p)
    BY <1>1, <1>2, <2>1, NodeOverNode
  <2> QED BY <2>1, <2>2
<1>3. ASSUME m \in Above(n)
      PROVE  /\ m \in TNode /\ m[1] > n[1] /\ m[1] \in Orders
             /\ PagesOf(n) \subseteq PagesOf(m)
             /\ \A p \in PagesOf(n) : m = NodeAt(m[1], p)
  <2>1. PICK k \in n[1] + 1 .. MaxOrder : m = NodeAt(k, n[2])
    BY <1>3 DEF Above
  <2>2. k \in Orders /\ k > n[1] /\ k \in Nat
    BY <1>1, OrdersAreNumbers DEF Orders
  <2>3. m \in TNode /\ m[1] = k
    BY <1>1, <2>1, <2>2, NodeAtIsNode, NodeFields
  <2>4. \A p \in PagesOf(n) : m = NodeAt(m[1], p)
    BY <1>2, <2>1, <2>2, <2>3
  <2>5. \A p \in PagesOf(n) : p \in Page
    BY PagesWithin
  <2>6. PagesOf(n) \subseteq PagesOf(m)
    BY <2>3, <2>4, <2>5, PagesWithin
  <2> QED BY <2>2, <2>3, <2>4, <2>6
<1>4. ASSUME m \in TNode, m[1] > n[1], NEW p \in PagesOf(n), p \in PagesOf(m)
      PROVE  m \in Above(n)
  <2>1. m[1] \in Orders /\ m[1] \in Nat /\ m = NodeAt(m[1], p)
    BY <1>4, TNodeFields, PagesWithin
  <2>2. m = NodeAt(m[1], n[2])
    BY <1>2, <1>4, <2>1
  <2>3. m[1] \in n[1] + 1 .. MaxOrder
    BY <1>1, <1>4, <2>1, OrdersAreNumbers
  <2> QED BY <2>2, <2>3 DEF Above
<1> QED BY <1>3, <1>4

(* The shape of a tree: the chain of nodes over a page ends in one leaf.   *)

\* A tree has a root, and a node is there with its parent and its buddy.
Shape(t) ==
  /\ DOMAIN t \subseteq TNode /\ Root \in DOMAIN t
  /\ \A n \in DOMAIN t : n # Root => Parent(n) \in DOMAIN t /\ Children(Parent(n)) \subseteq DOMAIN t

\* A node without children is a leaf, any other has both.
LEMMA LeafOrKids ==
  ASSUME NEW t, Shape(t), NEW n \in DOMAIN t
  PROVE  /\ n \in Leaves(t) <=> IsLeaf(t, n)
         /\ n \in Leaves(t) => n[1] = 0 \/ \A k \in Children(n) : k \notin DOMAIN t
         /\ n \notin Leaves(t) => n[1] # 0 /\ Children(n) \subseteq DOMAIN t
<1>1. n \in TNode
  BY DEF Shape
<1>2. n \in Leaves(t) <=> IsLeaf(t, n)
  BY DEF Leaves
<1>3. CASE n[1] = 0
  BY <1>2, <1>3 DEF IsLeaf
<1>4. CASE n[1] # 0
  <2>1. /\ NodeAt(n[1] - 1, n[2]) \in Children(n)
        /\ \A k \in Children(n) : k # Root /\ Parent(k) = n
    BY <1>1, <1>4, ChildNodes
  <2>2. \A k \in Children(n) : k \in DOMAIN t => Children(n) \subseteq DOMAIN t
    BY <2>1 DEF Shape
  <2>3. IsLeaf(t, n) <=> NodeAt(n[1] - 1, n[2]) \notin DOMAIN t
    BY <1>4 DEF IsLeaf
  <2> QED BY <1>2, <1>4, <2>1, <2>2, <2>3
<1> QED BY <1>3, <1>4

\* Above a node of the tree all nodes exist.
LEMMA ChainUp ==
  ASSUME NEW t, Shape(t), NEW p \in Page, NEW o \in Orders, NodeAt(o, p) \in DOMAIN t
  PROVE  \A k \in Orders : o <= k => NodeAt(k, p) \in DOMAIN t
<1>1. o \in Nat /\ p \in Nat /\ MaxOrder \in Nat
  BY OrdersAreNumbers, PagesAreNumbers
<1> DEFINE T == {d \in Nat : o + d <= MaxOrder => NodeAt(o + d, p) \in DOMAIN t}
<1>2. 0 \in T
  <2>1. o + 0 = o
    BY <1>1
  <2> QED BY <2>1
<1>3. ASSUME NEW d \in Nat, d \in T PROVE d + 1 \in T
  <2> SUFFICES ASSUME o + (d + 1) <= MaxOrder PROVE NodeAt(o + (d + 1), p) \in DOMAIN t
    OBVIOUS
  <2>1. o + d \in Nat /\ o + d <= MaxOrder /\ o + (d + 1) = (o + d) + 1 /\ o + d # MaxOrder
    BY <1>1
  <2>2. NodeAt(o + d, p) \in DOMAIN t
    BY <1>3, <2>1
  <2>3. NodeAt(o + d, p)[1] = o + d
    BY <1>1, <2>1, NodeFields
  <2>4. NodeAt(o + d, p) # Root
    BY <2>1, <2>3, RootIsNode
  <2>5. Parent(NodeAt(o + d, p)) \in DOMAIN t
    BY <2>2, <2>4 DEF Shape
  <2>6. Parent(NodeAt(o + d, p)) = NodeAt((o + d) + 1, p)
    BY <1>1, <2>1, ParentOver
  <2> QED BY <2>1, <2>5, <2>6
<1>4. Nat \subseteq T
  <2> HIDE DEF T
  <2> QED BY <1>2, <1>3, Induct
<1>5. ASSUME NEW k \in Orders, o <= k PROVE NodeAt(k, p) \in DOMAIN t
  <2>1. k \in Nat /\ k <= MaxOrder
    BY OrdersAreNumbers
  <2>2. k - o \in Nat /\ o + (k - o) = k
    BY <1>1, <1>5, <2>1
  <2>3. k - o \in T
    BY <1>4, <2>2
  <2> QED BY <2>1, <2>2, <2>3
<1> QED BY <1>5

\* Each page lies in exactly one leaf, the lowest node over it.
LEMMA LeafFacts ==
  ASSUME NEW t, Shape(t), NEW p \in Page
  PROVE  LET l == LeafOf(t, p) IN
         /\ l \in Leaves(t) /\ l \in DOMAIN t /\ l \in TNode /\ p \in PagesOf(l)
         /\ l[1] \in Orders /\ l = NodeAt(l[1], p)
         /\ \A m \in Leaves(t) : p \in PagesOf(m) => m = l
         /\ \A m \in DOMAIN t : p \in PagesOf(m) => m[1] >= l[1]
         /\ \A k \in Orders : l[1] <= k => NodeAt(k, p) \in DOMAIN t
<1> DEFINE T == {o \in Orders : NodeAt(o, p) \in DOMAIN t}
<1>1. T \subseteq Nat
  BY OrdersAreNumbers
<1>2. MaxOrder \in T
  BY RootOver, OrdersAreNumbers DEF Shape
<1>3. PICK o \in T : \A k \in T : o <= k
  <2> HIDE DEF T
  <2> QED BY <1>1, <1>2, LeastMember
<1> DEFINE l == NodeAt(o, p)
<1>4. o \in Orders /\ o \in Nat /\ p \in Nat /\ l \in DOMAIN t /\ l \in TNode
  BY <1>1, <1>3, PagesAreNumbers DEF Shape
<1>5. l[1] = o
  BY <1>4, NodeFields
<1>6. p \in PagesOf(l)
  BY <1>4, <1>5, PagesWithin
<1> HIDE DEF l
<1>7. l \in Leaves(t)
  <2> SUFFICES ASSUME l \notin Leaves(t) PROVE FALSE
    OBVIOUS
  <2>1. l[1] # 0 /\ Children(l) \subseteq DOMAIN t
    BY <1>4, LeafOrKids
  <2>2. NodeAt(l[1] - 1, p) \in Children(l) /\ l[1] - 1 \in Orders
    BY <1>4, <1>6, <2>1, ChildNodes
  <2>3. o - 1 \in T
    BY <1>5, <2>1, <2>2
  <2> QED BY <1>1, <1>3, <2>3
<1>8. ASSUME NEW m \in DOMAIN t, p \in PagesOf(m)
      PROVE  m = NodeAt(m[1], p) /\ m[1] >= o /\ m \in TNode /\ m[1] \in Nat
  <2>1. m \in TNode
    BY DEF Shape
  <2>2. m[1] \in Orders /\ m = NodeAt(m[1], p)
    BY <1>8, <2>1, TNodeFields, PagesWithin
  <2>3. m[1] \in T
    BY <2>2
  <2> QED BY <1>1, <1>3, <2>1, <2>2, <2>3
<1>9. \A k \in Orders : o <= k => NodeAt(k, p) \in DOMAIN t
  BY <1>3, <1>4, ChainUp
<1>10. ASSUME NEW m \in Leaves(t), p \in PagesOf(m)
       PROVE  m = l
  <2>1. m \in DOMAIN t
    BY DEF Leaves
  <2>2. m = NodeAt(m[1], p) /\ m[1] >= o /\ m \in TNode /\ m[1] \in Nat
    BY <1>8, <1>10, <2>1
  <2>3. CASE m[1] = o
    BY <2>2, <2>3 DEF l
  <2>4. CASE m[1] > o
    <3>1. m[1] # 0 /\ m[1] - 1 >= o
      BY <1>4, <2>2, <2>4
    <3>2. m[1] - 1 \in Orders /\ NodeAt(m[1] - 1, p) \in Children(m)
      BY <1>10, <2>2, <3>1, ChildNodes
    <3>3. NodeAt(m[1] - 1, p) \in DOMAIN t
      BY <1>9, <3>1, <3>2
    <3> QED BY <2>1, <3>1, <3>2, <3>3, LeafOrKids
  <2> QED BY <1>4, <2>2, <2>3, <2>4
<1>11. LeafOf(t, p) = l
  <2>1. \E x \in Leaves(t) : p \in PagesOf(x)
    BY <1>6, <1>7
  <2>2. LeafOf(t, p) \in Leaves(t) /\ p \in PagesOf(LeafOf(t, p))
    BY <2>1 DEF LeafOf
  <2> QED BY <1>10, <2>2
<1> HIDE DEF T
<1>12. l = NodeAt(l[1], p)
  BY <1>5 DEF l
<1> QED BY <1>4, <1>5, <1>6, <1>7, <1>8, <1>9, <1>10, <1>11, <1>12

\* A leaf is the leaf of its pages; two leaves share none.
LEMMA LeafOfLeaf ==
  ASSUME NEW t, Shape(t), NEW l \in Leaves(t)
  PROVE  /\ l \in DOMAIN t /\ l \in TNode
         /\ \A p \in PagesOf(l) : p \in Page /\ LeafOf(t, p) = l
         /\ \A m \in Leaves(t) : m = l \/ PagesOf(l) \cap PagesOf(m) = {}
<1>1. l \in DOMAIN t /\ l \in TNode
  BY DEF Leaves, Shape
<1>2. \A p \in PagesOf(l) : p \in Page
  BY <1>1, PagesWithin
<1>3. ASSUME NEW p \in PagesOf(l) PROVE LeafOf(t, p) = l /\ \A m \in Leaves(t) : p \in PagesOf(m) => m = l
  <2>1. p \in Page
    BY <1>2
  <2> QED BY <2>1, LeafFacts
<1> QED BY <1>1, <1>2, <1>3

(* The flags of a tree.                                                    *)

\* The flags a leaf may have: at most one status and exactly one mapping.
LeafFlags == {f \in Flags : /\ f.st = {} \/ \E st \in Status : f.st = {st}
                            /\ \E mp \in Mapping : f.mp = {mp}}

JoinedAt(t, n) ==
  /\ t[n].st = UNION {t[k].st : k \in Children(n)}
  /\ t[n].mp = UNION {t[k].mp : k \in Children(n)}

Tree(t) ==
  /\ Shape(t)
  /\ t \in [DOMAIN t -> Flags]
  /\ \A n \in Leaves(t) : t[n] \in LeafFlags
  /\ \A n \in DOMAIN t : n \notin Leaves(t) => JoinedAt(t, n)

\* A node whose two halves are free RAM and could be one leaf.
Mergeable(t, m) ==
  m[1] # 0 /\ \A k \in Children(m) : k \in Leaves(t) /\ t[k] = FreeRam

Merged(t) == \A m \in DOMAIN t : ~Mergeable(t, m)

FlagOf(t, p) == t[LeafOf(t, p)]

\* The pages with some flags are those whose leaf has them.
LEMMA PagesByFlag ==
  ASSUME NEW t, Shape(t), NEW f
  PROVE  PagesWith(t, f) = {p \in Page : FlagOf(t, p) = f}
<1>1. ASSUME NEW p \in PagesWith(t, f) PROVE p \in Page /\ FlagOf(t, p) = f
  <2>1. PICK l \in Leaves(t) : t[l] = f /\ p \in PagesOf(l)
    BY DEF PagesWith
  <2> QED BY <2>1, LeafOfLeaf DEF FlagOf
<1>2. ASSUME NEW p \in Page, FlagOf(t, p) = f PROVE p \in PagesWith(t, f)
  <2>1. LeafOf(t, p) \in Leaves(t) /\ p \in PagesOf(LeafOf(t, p))
    BY LeafFacts
  <2> QED BY <1>2, <2>1 DEF PagesWith, FlagOf
<1> QED BY <1>1, <1>2

(* Storing flags in a leaf and in the nodes above it.                      *)

Path(n) == {n} \cup Above(n)

\* The buddies of the nodes on the path from n below the order of a.
Off(n, a) == {Buddy(b) : b \in {c \in Path(n) : c[1] < a[1]}}

\* What a node on the path from n to the root is.
LEMMA PathFacts ==
  ASSUME NEW n \in TNode, NEW x \in Path(n)
  PROVE  /\ x \in TNode /\ x[1] \in Orders /\ x[1] >= n[1] /\ x = NodeAt(x[1], n[2])
         /\ PagesOf(n) \subseteq PagesOf(x)
         /\ x # n => x \in Above(n) /\ x[1] > n[1]
         /\ x # Root => Parent(x) \in Above(n)
<1>1. n[1] \in Orders /\ n[1] \in Nat /\ n = NodeAt(n[1], n[2]) /\ n[2] \in PagesOf(n)
  BY TNodeFields, PagesWithin
<1>2. x \in TNode /\ PagesOf(n) \subseteq PagesOf(x) /\ (x # n => x \in Above(n) /\ x[1] > n[1])
  BY AboveNode DEF Path
<1>3. x[1] \in Orders /\ x[1] \in Nat
  BY <1>2, TNodeFields
<1>4. x[1] >= n[1]
  BY <1>1, <1>2, <1>3
<1>5. x = NodeAt(x[1], n[2])
  BY <1>1, <1>2, AboveNode
<1>6. ASSUME x # Root PROVE Parent(x) \in Above(n)
  <2>1. Parent(x) \in TNode /\ Parent(x)[1] = x[1] + 1 /\ n[2] \in PagesOf(Parent(x))
    BY <1>1, <1>2, <1>6, ParentNode
  <2>2. Parent(x)[1] > n[1]
    BY <1>1, <1>3, <1>4, <2>1
  <2> QED BY <1>1, <2>1, <2>2, AboveNode
<1> QED BY <1>2, <1>3, <1>4, <1>5, <1>6

\* The nodes over the first page of n, from its order up, are its path.
LEMMA PathNode ==
  ASSUME NEW n \in TNode, NEW k \in Orders, k >= n[1]
  PROVE  NodeAt(k, n[2]) \in Path(n)
<1>1. n[1] \in Nat /\ n[2] \in Nat /\ n[2] \in Page /\ n = NodeAt(n[1], n[2]) /\ n[2] \in PagesOf(n) /\ k \in Nat
  BY TNodeFields, PagesWithin, OrdersAreNumbers
<1>2. CASE k = n[1]
  BY <1>1, <1>2 DEF Path
<1>3. CASE k > n[1]
  <2>1. NodeAt(k, n[2]) \in TNode /\ NodeAt(k, n[2])[1] = k
    BY <1>1, NodeAtIsNode, NodeFields
  <2>2. n[2] \in PagesOf(NodeAt(k, n[2]))
    BY <1>1, <2>1, PagesWithin
  <2> QED BY <1>1, <1>3, <2>1, <2>2, AboveNode DEF Path
<1> QED BY <1>1, <1>2, <1>3

\* A node on the path has one child on it; the other is off the path.
LEMMA PathChild ==
  ASSUME NEW n \in TNode, NEW a \in Above(n)
  PROVE  \E c \in Path(n) :
           /\ c # Root /\ Parent(c) = a /\ a[1] = c[1] + 1 /\ Children(a) = {c, Buddy(c)}
           /\ Buddy(c) \notin Path(n) /\ Buddy(c) # c
<1>1. a \in TNode /\ a[1] > n[1] /\ a[1] \in Orders /\ n[2] \in PagesOf(a) /\ a[1] \in Nat /\ n[1] \in Nat
  BY AboveNode, PagesWithin, TNodeFields
<1>2. a[1] # 0 /\ a[1] - 1 >= n[1]
  BY <1>1
<1> DEFINE c == NodeAt(a[1] - 1, n[2])
<1>3. c \in Children(a) /\ a[1] - 1 \in Orders
  BY <1>1, <1>2, ChildNodes
<1>4. c \in Path(n)
  BY <1>2, <1>3, PathNode
<1> HIDE DEF c
<1>5. c \in TNode /\ c # Root /\ Parent(c) = a /\ c[1] = a[1] - 1
  BY <1>1, <1>2, <1>3, ChildNodes
<1>6. Buddy(c) # c /\ Children(a) = {c, Buddy(c)}
  BY <1>5, BuddyNode
<1>7. Buddy(c)[1] = c[1]
  BY <1>1, <1>2, <1>5, <1>6, ChildNodes
<1>8. Buddy(c) \notin Path(n)
  BY <1>4, <1>6, <1>7, PathFacts
<1>9. a[1] = c[1] + 1
  BY <1>1, <1>5
<1> QED BY <1>4, <1>5, <1>6, <1>8, <1>9

\* A path of a tree is part of the tree, and below a node of it one buddy is added.
LEMMA PathInTree ==
  ASSUME NEW t, Shape(t), NEW n \in DOMAIN t
  PROVE  /\ Path(n) \subseteq DOMAIN t
         /\ \A a \in Path(n) : \A b \in Off(n, a) : b \in DOMAIN t /\ b \notin Path(n)
         /\ Off(n, n) = {}
         /\ \A c \in Path(n), a \in Path(n) :
              a[1] = c[1] + 1 => Off(n, a) = Off(n, c) \cup {Buddy(c)}
<1>1. n \in TNode /\ n[1] \in Orders /\ n[2] \in Page /\ n = NodeAt(n[1], n[2])
  BY TNodeFields DEF Shape
<1>2. \A k \in Orders : n[1] <= k => NodeAt(k, n[2]) \in DOMAIN t
  BY <1>1, ChainUp
<1>3. \A x \in Path(n) : /\ x \in TNode /\ x[1] \in Orders /\ x[1] \in Nat /\ x[1] >= n[1]
                         /\ x = NodeAt(x[1], n[2])
  BY <1>1, PathFacts, TNodeFields
<1>4. Path(n) \subseteq DOMAIN t
  BY <1>1, <1>2, <1>3, OrdersAreNumbers
<1>5. ASSUME NEW a \in Path(n), NEW b \in Off(n, a)
      PROVE  b \in DOMAIN t /\ b \notin Path(n)
  <2>1. PICK c \in Path(n) : c[1] < a[1] /\ b = Buddy(c)
    BY DEF Off
  <2>2. c \in TNode /\ c # Root
    BY <1>3, <2>1, RootIsNode, OrdersAreNumbers
  <2>3. Buddy(c) # c /\ Children(Parent(c)) = {c, Buddy(c)} /\ Parent(c)[1] # 0 /\ Parent(c) \in TNode
    BY <2>2, BuddyNode, ChildOfParent, ParentNode
  <2>4. b \in DOMAIN t
    BY <1>4, <2>1, <2>2, <2>3 DEF Shape
  <2>5. b[1] = c[1]
    BY <2>1, <2>3, ChildNodes
  <2> QED BY <1>3, <2>1, <2>3, <2>4, <2>5
<1>6. Off(n, n) = {}
  <2>1. \A c \in Path(n) : ~(c[1] < n[1])
    <3>1. n[1] \in Nat
      BY <1>1, OrdersAreNumbers
    <3> QED BY <1>3, <3>1
  <2> QED BY <2>1 DEF Off
<1>7. ASSUME NEW c \in Path(n), NEW a \in Path(n), a[1] = c[1] + 1
      PROVE  Off(n, a) = Off(n, c) \cup {Buddy(c)}
  <2>1. \A x \in Path(n) : x[1] < a[1] <=> x[1] < c[1] \/ x[1] = c[1]
    BY <1>3, <1>7
  <2>2. \A x \in Path(n) : x[1] < a[1] <=> x[1] < c[1] \/ x = c
    BY <1>3, <2>1
  <2>3. {x \in Path(n) : x[1] < a[1]} = {x \in Path(n) : x[1] < c[1]} \cup {c}
    BY <2>2
  <2> QED BY <2>3 DEF Off
<1> QED BY <1>4, <1>5, <1>6, <1>7

\* pnode_set_flags up to the repair: the flags of inner nodes join again.
LEMMA StoreEffect ==
  ASSUME NEW t, Tree(t), NEW n \in Leaves(t), NEW f \in LeafFlags
  PROVE  LET u == Store(t, n, f) IN
         /\ Tree(u) /\ DOMAIN u = DOMAIN t /\ Leaves(u) = Leaves(t) /\ u[n] = f
         /\ \A m \in DOMAIN t : m \notin Path(n) => u[m] = t[m]
         /\ \A l \in Leaves(t) : l # n => u[l] = t[l]
<1> DEFINE u == Store(t, n, f)
           st(a) == UNION {t[b].st : b \in Off(n, a)}
           mp(a) == UNION {t[b].mp : b \in Off(n, a)}
<1>1. Shape(t) /\ n \in DOMAIN t /\ n \in TNode /\ t \in [DOMAIN t -> Flags] /\ f \in Flags
  BY LeafOfLeaf DEF Tree, LeafFlags
<1>2. /\ Path(n) \subseteq DOMAIN t
      /\ \A a \in Path(n) : \A b \in Off(n, a) : b \in DOMAIN t /\ b \notin Path(n)
      /\ Off(n, n) = {}
      /\ \A c \in Path(n), a \in Path(n) :
           a[1] = c[1] + 1 => Off(n, a) = Off(n, c) \cup {Buddy(c)}
  BY <1>1, PathInTree
<1>3. u = Updated(t, [m \in Path(n) |-> IF m = n THEN f
                        ELSE [st |-> f.st \cup st(m), mp |-> f.mp \cup mp(m)]])
  BY DEF Store, Path, Off
<1>4. /\ DOMAIN u = DOMAIN t
      /\ u[n] = f
      /\ \A m \in DOMAIN t : m \notin Path(n) => u[m] = t[m]
      /\ \A m \in Path(n) : m # n => u[m] = [st |-> f.st \cup st(m), mp |-> f.mp \cup mp(m)]
  <2>1. n \in Path(n)
    BY DEF Path
  <2> HIDE DEF u, st, mp
  <2> QED BY <1>2, <1>3, <2>1 DEF Updated
<1>5. u \in [DOMAIN t -> Flags]
  <2>1. ASSUME NEW m \in Path(n) PROVE st(m) \subseteq Status /\ mp(m) \subseteq Mapping
    <3>1. ASSUME NEW b \in Off(n, m) PROVE t[b].st \subseteq Status /\ t[b].mp \subseteq Mapping
      BY <1>1, <1>2 DEF Flags
    <3> QED BY <3>1
  <2>2. ASSUME NEW m \in DOMAIN t PROVE u[m] \in Flags
    <3>1. CASE m \notin Path(n)
      BY <1>1, <1>4, <3>1
    <3>2. CASE m = n
      BY <1>1, <1>4, <3>2
    <3>3. CASE m \in Path(n) /\ m # n
      <4> HIDE DEF u, st, mp
      <4>1. f.st \subseteq Status /\ f.mp \subseteq Mapping
        BY <1>1 DEF Flags
      <4>2. f.st \cup st(m) \subseteq Status /\ f.mp \cup mp(m) \subseteq Mapping
        BY <2>1, <3>3, <4>1
      <4>3. u[m] = [st |-> f.st \cup st(m), mp |-> f.mp \cup mp(m)]
        BY <1>4, <3>3
      <4> QED BY <4>2, <4>3 DEF Flags
    <3> QED BY <3>1, <3>2, <3>3
  <2>3. u = [m \in DOMAIN u |-> u[m]]
    BY <1>3 DEF Updated
  <2> HIDE DEF u
  <2> QED BY <1>4, <2>2, <2>3
<1>6. Leaves(u) = Leaves(t) /\ Shape(u)
  <2> HIDE DEF u
  <2> QED BY <1>1, <1>4 DEF Leaves, IsLeaf, Shape
<1>7. ASSUME NEW l \in Leaves(t), l # n PROVE u[l] = t[l]
  <2>1. l \in DOMAIN t /\ l \in TNode /\ PagesOf(l) \cap PagesOf(n) = {}
    BY <1>1, <1>7, LeafOfLeaf
  <2>2. l \notin Path(n)
    BY <1>1, <2>1, PathFacts, PagesWithin
  <2> QED BY <1>4, <2>1, <2>2
<1>8. \A m \in Path(n) : u[m].st = f.st \cup st(m) /\ u[m].mp = f.mp \cup mp(m)
  <2>1. st(n) = {} /\ mp(n) = {}
    BY <1>2
  <2> HIDE DEF u, st, mp
  <2>2. u[n].st = f.st \cup st(n) /\ u[n].mp = f.mp \cup mp(n)
    BY <1>4, <2>1
  <2>3. ASSUME NEW m \in Path(n), m # n PROVE u[m].st = f.st \cup st(m) /\ u[m].mp = f.mp \cup mp(m)
    <3>1. u[m] = [st |-> f.st \cup st(m), mp |-> f.mp \cup mp(m)]
      BY <1>4, <2>3
    <3> QED BY <3>1
  <2> QED BY <2>2, <2>3
<1>9. ASSUME NEW m \in DOMAIN u, m \notin Leaves(u) PROVE JoinedAt(u, m)
  <2>1. m \in DOMAIN t /\ m \notin Leaves(t) /\ m \in TNode
    BY <1>1, <1>4, <1>6, <1>9 DEF Shape
  <2>2. JoinedAt(t, m) /\ m[1] # 0 /\ Children(m) \subseteq DOMAIN t
    BY <1>1, <2>1, LeafOrKids DEF Tree
  <2>3. CASE m \in Path(n)
    <3>1. m \in Above(n)
      BY <2>1, <2>3 DEF Path
    <3>2. PICK c \in Path(n) :
             /\ c # Root /\ Parent(c) = m /\ m[1] = c[1] + 1 /\ Children(m) = {c, Buddy(c)}
             /\ Buddy(c) \notin Path(n) /\ Buddy(c) # c
      BY <1>1, <3>1, PathChild
    <3>3. Off(n, m) = Off(n, c) \cup {Buddy(c)}
      BY <1>2, <2>3, <3>2
    <3>4. st(m) = st(c) \cup t[Buddy(c)].st /\ mp(m) = mp(c) \cup t[Buddy(c)].mp
      BY <3>3
    <3>5. u[Buddy(c)] = t[Buddy(c)]
      BY <1>4, <2>2, <3>2
    <3> HIDE DEF u, st, mp
    <3>6. /\ u[m].st = f.st \cup st(m) /\ u[m].mp = f.mp \cup mp(m)
          /\ u[c].st = f.st \cup st(c) /\ u[c].mp = f.mp \cup mp(c)
      BY <1>8, <2>3
    <3>7. u[m].st = u[c].st \cup u[Buddy(c)].st /\ u[m].mp = u[c].mp \cup u[Buddy(c)].mp
      BY <3>4, <3>5, <3>6
    <3>8. /\ UNION {u[k].st : k \in {c, Buddy(c)}} = u[c].st \cup u[Buddy(c)].st
          /\ UNION {u[k].mp : k \in {c, Buddy(c)}} = u[c].mp \cup u[Buddy(c)].mp
      OBVIOUS
    <3> QED BY <3>2, <3>7, <3>8 DEF JoinedAt
  <2>4. CASE m \notin Path(n)
    <3>1. ASSUME NEW k \in Children(m) PROVE u[k] = t[k]
      <4>1. k \in TNode /\ k # Root /\ Parent(k) = m /\ k \in DOMAIN t
        BY <2>1, <2>2, ChildNodes
      <4>2. k \notin Path(n)
        BY <1>1, <2>4, <4>1, PathFacts DEF Path
      <4> QED BY <1>4, <4>1, <4>2
    <3>2. u[m] = t[m]
      BY <1>4, <2>1, <2>4
    <3> HIDE DEF u
    <3>3. /\ {u[k].st : k \in Children(m)} = {t[k].st : k \in Children(m)}
          /\ {u[k].mp : k \in Children(m)} = {t[k].mp : k \in Children(m)}
      BY <3>1
    <3> QED BY <2>2, <3>2, <3>3 DEF JoinedAt
  <2> QED BY <2>3, <2>4
<1>10. \A l \in Leaves(u) : u[l] \in LeafFlags
  <2>1. \A l \in Leaves(t) : l = n \/ u[l] = t[l]
    BY <1>7
  <2> QED BY <1>4, <1>6, <2>1 DEF Tree
<1>11. Tree(u)
  <2> HIDE DEF u
  <2> QED BY <1>4, <1>5, <1>6, <1>9, <1>10 DEF Tree
<1> QED BY <1>4, <1>6, <1>7, <1>11

(* Merging.                                                                *)

\* What a step that only merges or splits keeps: the flags of every page, and
\* the leaves that are not free.
KeepsPages(t, u) ==
  /\ \A p \in Page : FlagOf(u, p) = FlagOf(t, p)
  /\ \A l \in Leaves(t) : t[l].st # {"free"} => l \in Leaves(u) /\ u[l] = t[l]

\* One round of the repair keeps the tree and the flags of all pages.
LEMMA CombineEffect ==
  ASSUME NEW t, Tree(t), NEW parent \in DOMAIN t, parent \notin Leaves(t)
  PROVE  LET u == Combine(t, parent) IN
         /\ Tree(u) /\ KeepsPages(t, u)
         /\ DOMAIN u \subseteq DOMAIN t
         /\ \A m \in DOMAIN t : m[1] >= parent[1] => m \in DOMAIN u
         /\ ~Mergeable(u, parent)
         /\ \A m \in DOMAIN u : Mergeable(u, m) => Mergeable(t, m) \/ (parent # Root /\ m = Parent(parent))
<1> DEFINE kids == Children(parent)
           u == Combine(t, parent)
           Merges == /\ \A k \in kids : IsLeaf(t, k) /\ t[k].st = {"free"}
                     /\ \A j, k \in kids : t[j] = t[k]
<1>1. Shape(t) /\ parent \in TNode /\ t \in [DOMAIN t -> Flags]
      /\ DOMAIN t \subseteq TNode /\ Root \in DOMAIN t
  BY DEF Tree, Shape
<1>2. parent[1] # 0 /\ kids \subseteq DOMAIN t /\ JoinedAt(t, parent)
  BY <1>1, LeafOrKids DEF Tree
<1>3. /\ \A k \in kids : /\ k \in TNode /\ k[1] = parent[1] - 1 /\ k # Root /\ Parent(k) = parent
                         /\ PagesOf(k) \subseteq PagesOf(parent)
      /\ NodeAt(parent[1] - 1, parent[2]) \in kids
      /\ \A p \in PagesOf(parent) : NodeAt(parent[1] - 1, p) \in kids
      /\ parent[1] \in Nat
  BY <1>1, <1>2, ChildNodes, TNodeFields
<1>4. \A k \in kids : k \in Leaves(t) <=> IsLeaf(t, k)
  BY <1>1, <1>2, LeafOrKids
<1>5. CASE ~Merges
  <2>1. u = t
    BY <1>5 DEF Combine
  <2>2. ~Mergeable(t, parent)
    <3> SUFFICES ASSUME Mergeable(t, parent) PROVE FALSE
      OBVIOUS
    <3>1. \A k \in kids : k \in Leaves(t) /\ t[k] = FreeRam
      BY DEF Mergeable
    <3>2. FreeRam.st = {"free"}
      BY DEF FreeRam, Flag
    <3> QED BY <1>4, <1>5, <3>1, <3>2
  <2>3. KeepsPages(t, t)
    BY DEF KeepsPages
  <2> QED BY <2>1, <2>2, <2>3
<1>6. CASE Merges
  <2>1. u = [m \in DOMAIN t \ kids |-> t[m]]
    BY <1>6 DEF Combine
  <2>2. kids \subseteq Leaves(t) /\ \A k \in kids : t[k].st = {"free"}
    BY <1>4, <1>6
  <2>3. DOMAIN u = DOMAIN t \ kids /\ \A m \in DOMAIN u : u[m] = t[m]
    BY <2>1
  <2>4. u \in [DOMAIN u -> Flags]
    <3>1. \A m \in DOMAIN t \ kids : t[m] \in Flags
      BY <1>1
    <3> QED BY <2>1, <3>1
  <2> DEFINE kid == NodeAt(parent[1] - 1, parent[2])
  <2>5. kid \in kids /\ \A k \in kids : t[k] = t[kid]
    BY <1>3, <1>6
  <2>6. t[parent] = t[kid]
    <3> HIDE DEF kid
    <3>1. UNION {t[k].st : k \in kids} = t[kid].st /\ UNION {t[k].mp : k \in kids} = t[kid].mp
      BY <2>5
    <3>2. t[parent].st = t[kid].st /\ t[parent].mp = t[kid].mp
      BY <1>2, <3>1 DEF JoinedAt
    <3>3. t[parent] \in Flags /\ t[kid] \in Flags
      BY <1>1, <1>2, <2>5
    <3> QED BY <3>2, <3>3 DEF Flags
  <2> HIDE DEF u, Merges
  <2>7. parent \in DOMAIN u /\ Root \in DOMAIN u
    <3>1. parent \notin kids
      BY <1>3
    <3> QED BY <1>1, <1>3, <2>3, <3>1
  <2>8. Shape(u)
    <3>1. ASSUME NEW n \in DOMAIN u, n # Root
          PROVE  Parent(n) \in DOMAIN u /\ Children(Parent(n)) \subseteq DOMAIN u
      <4>1. n \in DOMAIN t /\ n \notin kids /\ n \in TNode
        BY <1>1, <2>3
      <4>2. Parent(n) \in DOMAIN t /\ Children(Parent(n)) \subseteq DOMAIN t
        BY <1>1, <3>1, <4>1 DEF Shape
      <4>3. n \in Children(Parent(n)) /\ Parent(n)[1] # 0
        BY <3>1, <4>1, ChildOfParent
      <4>4. Parent(n) \notin kids
        <5> SUFFICES ASSUME Parent(n) \in kids PROVE FALSE
          OBVIOUS
        <5>1. Parent(n) \in Leaves(t)
          BY <2>2
        <5> QED BY <1>1, <4>1, <4>2, <4>3, <5>1, LeafOrKids
      <4>5. ASSUME NEW k \in Children(Parent(n)), k \in kids PROVE FALSE
        <5>1. Parent(n) \in TNode
          BY <1>1, <4>2
        <5>2. Parent(k) = Parent(n)
          BY <4>3, <5>1, ChildNodes
        <5>3. Parent(k) = parent
          BY <1>3, <4>5
        <5> QED BY <4>1, <4>3, <5>2, <5>3
      <4> QED BY <2>3, <4>2, <4>4, <4>5
    <3> QED BY <1>1, <2>3, <2>7, <3>1 DEF Shape
  <2>9. \A m \in DOMAIN u : m \in Leaves(u) <=> m \in Leaves(t) \/ m = parent
    <3> SUFFICES ASSUME NEW m \in DOMAIN u
                 PROVE  m \in Leaves(u) <=> m \in Leaves(t) \/ m = parent
      OBVIOUS
    <3>1. m \in DOMAIN t /\ m \in TNode
      BY <1>1, <2>3
    <3>2. (m \in Leaves(u) <=> IsLeaf(u, m)) /\ (m \in Leaves(t) <=> IsLeaf(t, m))
      BY <3>1 DEF Leaves
    <3>3. CASE m[1] = 0
      BY <3>2, <3>3 DEF IsLeaf
    <3>4. CASE m = parent
      <4>1. kid \notin DOMAIN u
        BY <2>3, <2>5
      <4> QED BY <3>2, <3>4, <4>1 DEF IsLeaf
    <3>5. CASE m # parent /\ m[1] # 0
      <4>1. Parent(NodeAt(m[1] - 1, m[2])) = m
        BY <3>1, <3>5, ChildNodes
      <4>2. NodeAt(m[1] - 1, m[2]) \notin kids
        BY <1>3, <3>5, <4>1
      <4>3. NodeAt(m[1] - 1, m[2]) \in DOMAIN t <=> NodeAt(m[1] - 1, m[2]) \in DOMAIN u
        BY <2>3, <4>2
      <4> QED BY <3>2, <3>5, <4>3 DEF IsLeaf
    <3> QED BY <3>3, <3>4, <3>5
  <2>10. /\ \A l \in Leaves(t) : l \notin kids => l \in Leaves(u) /\ u[l] = t[l]
         /\ parent \in Leaves(u)
         /\ \A l \in Leaves(u) : l \in DOMAIN u /\ (l \in Leaves(t) \/ l = parent)
         /\ \A l \in Leaves(t) : l \in DOMAIN t
    <3>1. \A l \in Leaves(u) : l \in DOMAIN u
      BY DEF Leaves
    <3>2. \A l \in Leaves(t) : l \in DOMAIN t
      BY DEF Leaves
    <3> QED BY <2>3, <2>7, <2>9, <3>1, <3>2
  <2>11. \A l \in Leaves(u) : u[l] \in LeafFlags
    <3>1. \A l \in Leaves(t) : t[l] \in LeafFlags
      BY DEF Tree
    <3>2. t[kid] \in LeafFlags
      BY <2>2, <2>5, <3>1
    <3> QED BY <2>3, <2>6, <2>10, <3>1, <3>2
  <2>12. ASSUME NEW m \in DOMAIN u, m \notin Leaves(u) PROVE JoinedAt(u, m)
    <3>1. m \in DOMAIN t /\ m \notin Leaves(t)
      BY <2>3, <2>9, <2>12
    <3>2. JoinedAt(t, m)
      BY <3>1 DEF Tree
    <3>3. Children(m) \subseteq DOMAIN u
      BY <2>8, <2>12, LeafOrKids
    <3>4. {u[k].st : k \in Children(m)} = {t[k].st : k \in Children(m)}
          /\ {u[k].mp : k \in Children(m)} = {t[k].mp : k \in Children(m)}
      BY <2>3, <3>3
    <3> QED BY <2>3, <3>2, <3>4 DEF JoinedAt
  <2>13. Tree(u)
    BY <2>4, <2>8, <2>11, <2>12 DEF Tree
  <2>14. ASSUME NEW p \in Page PROVE FlagOf(u, p) = FlagOf(t, p)
    <3>1. LeafOf(t, p) \in Leaves(t) /\ p \in PagesOf(LeafOf(t, p))
      BY <1>1, LeafFacts
    <3>2. CASE LeafOf(t, p) \notin kids
      <4>1. LeafOf(t, p) \in Leaves(u) /\ u[LeafOf(t, p)] = t[LeafOf(t, p)]
        BY <2>10, <3>1, <3>2
      <4>2. LeafOf(u, p) = LeafOf(t, p)
        BY <2>8, <3>1, <4>1, LeafOfLeaf
      <4> QED BY <4>1, <4>2 DEF FlagOf
    <3>3. CASE LeafOf(t, p) \in kids
      <4>1. p \in PagesOf(parent)
        BY <1>3, <3>1, <3>3
      <4>2. LeafOf(u, p) = parent
        BY <2>8, <2>10, <4>1, LeafOfLeaf
      <4>3. t[LeafOf(t, p)] = t[kid]
        BY <2>5, <3>3
      <4> QED BY <2>3, <2>6, <2>7, <4>2, <4>3 DEF FlagOf
    <3> QED BY <3>2, <3>3
  <2>15. KeepsPages(t, u)
    BY <2>2, <2>10, <2>14 DEF KeepsPages
  <2>16. ASSUME NEW m \in DOMAIN t, m[1] >= parent[1] PROVE m \in DOMAIN u
    <3>1. m \notin kids
      BY <1>3, <2>16
    <3> QED BY <2>3, <3>1
  <2>17. ~Mergeable(u, parent)
    <3>1. kid \notin Leaves(u)
      BY <2>3, <2>5, <2>10
    <3> QED BY <2>5, <3>1 DEF Mergeable
  <2>18. ASSUME NEW m \in DOMAIN u, Mergeable(u, m)
         PROVE  Mergeable(t, m) \/ (parent # Root /\ m = Parent(parent))
    <3>1. m \in TNode /\ m[1] # 0 /\ \A k \in Children(m) : k \in Leaves(u) /\ u[k] = FreeRam
      BY <1>1, <2>3, <2>18 DEF Mergeable
    <3>2. CASE parent \in Children(m)
      BY <3>1, <3>2, ChildNodes
    <3>3. CASE parent \notin Children(m)
      <4>1. \A k \in Children(m) : k \in Leaves(t) /\ t[k] = FreeRam
        BY <2>3, <2>10, <3>1, <3>3
      <4> QED BY <3>1, <4>1 DEF Mergeable
    <3> QED BY <3>2, <3>3
  <2>19. DOMAIN u \subseteq DOMAIN t
    BY <2>3
  <2> QED BY <2>13, <2>15, <2>16, <2>17, <2>18, <2>19 DEF u
<1> QED BY <1>5, <1>6

\* Trees and what is not one: the functions a merge stays within.
FlagMaps == UNION {[D -> Flags] : D \in SUBSET TNode}

\* A function from nodes to flags is in FlagMaps.
LEMMA TreesAreMaps ==
  ASSUME NEW t, t \in [DOMAIN t -> Flags], DOMAIN t \subseteq TNode
  PROVE  t \in FlagMaps
BY DEF FlagMaps

\* A round of the repair gives such a function.
LEMMA CombineStays ==
  ASSUME NEW t \in FlagMaps, NEW m
  PROVE  Combine(t, m) \in FlagMaps
<1>1. PICK D \in SUBSET TNode : t \in [D -> Flags]
  BY DEF FlagMaps
<1> DEFINE u == [k \in DOMAIN t \ Children(m) |-> t[k]]
<1>2. u \in [DOMAIN u -> Flags] /\ DOMAIN u \subseteq TNode
  BY <1>1
<1>3. u \in FlagMaps
  <2> HIDE DEF u
  <2> QED BY <1>2, TreesAreMaps
<1>4. Combine(t, m) = t \/ Combine(t, m) = u
  BY DEF Combine
<1> QED BY <1>3, <1>4

\* Only nodes above n may still have two free halves.
MergedBut(t, n) == \A m \in DOMAIN t : Mergeable(t, m) => m \in Above(n)

\* The walk of pnode_repair_tree as a function of the order it has reached.
Walk(t, n, f) ==
  /\ DOMAIN f = 0 .. MaxOrder
  /\ \A o \in 0 .. MaxOrder :
       f[o] = IF o <= n[1] THEN t ELSE Combine(f[o - 1], NodeAt(o, n[2]))

\* The rounds of the repair are well defined.
LEMMA RepairWalks ==
  ASSUME NEW t, Tree(t), NEW n \in TNode
  PROVE  \E f : Walk(t, n, f) /\ Repair(t, n) = f[MaxOrder]
<1> DEFINE next == [x \in Nat \X FlagMaps |->
                      IF x[1] <= n[1] THEN t ELSE Combine(x[2], NodeAt(x[1], n[2]))]
           F(g) == [o \in 0 .. MaxOrder |->
                      IF o <= n[1] THEN t ELSE Combine(g[o - 1], NodeAt(o, n[2]))]
<1>1. t \in FlagMaps
  BY TreesAreMaps DEF Tree, Shape
<1>2. next \in [Nat \X FlagMaps -> FlagMaps]
  <2>1. \A x \in Nat \X FlagMaps : Combine(x[2], NodeAt(x[1], n[2])) \in FlagMaps
    BY CombineStays
  <2> QED BY <1>1, <2>1
<1>3. MaxOrder \in Nat /\ n[1] \in Nat
  BY OrderAssumption, TNodeFields
<1>4. PICK f \in [0 .. MaxOrder -> FlagMaps] : Follows(f, MaxOrder, t, next)
  <2> HIDE DEF next
  <2> QED BY <1>1, <1>2, <1>3, PrefixExists DEF HasPrefix
<1>5. ASSUME NEW o \in 0 .. MaxOrder
      PROVE  f[o] = IF o <= n[1] THEN t ELSE Combine(f[o - 1], NodeAt(o, n[2]))
  <2>1. CASE o = 0
    BY <1>3, <1>4, <2>1 DEF Follows
  <2>2. CASE o # 0
    <3>1. o \in 1 .. MaxOrder /\ o \in Nat /\ o - 1 \in 0 .. MaxOrder
      BY <1>3, <2>2
    <3>2. f[o] = next[<<o, f[o - 1]>>] /\ f[o - 1] \in FlagMaps
      BY <1>4, <3>1 DEF Follows
    <3>3. <<o, f[o - 1]>> \in Nat \X FlagMaps
      BY <3>1, <3>2
    <3> HIDE DEF next
    <3>4. next[<<o, f[o - 1]>>] = IF o <= n[1] THEN t ELSE Combine(f[o - 1], NodeAt(o, n[2]))
      BY <3>3 DEF next
    <3> QED BY <3>2, <3>4
  <2> QED BY <2>1, <2>2
<1> HIDE DEF next
<1>6. f = F(f)
  BY <1>5
<1> DEFINE upTo == CHOOSE g : g = F(g)
<1>7. upTo = F(upTo)
  <2> HIDE DEF F
  <2> QED BY <1>6
<1>8. Repair(t, n) = upTo[MaxOrder]
  BY DEF Repair
<1> HIDE DEF upTo
<1>9. Walk(t, n, upTo)
  BY <1>7 DEF Walk
<1> QED BY <1>8, <1>9

\* The walk has reached order o: what is left to merge is above it.
Reached(t, n, u, o) ==
  /\ Tree(u) /\ KeepsPages(t, u)
  /\ DOMAIN u \subseteq DOMAIN t
  /\ \A m \in DOMAIN t : m[1] >= o => m \in DOMAIN u
  /\ \A m \in DOMAIN u : Mergeable(u, m) => m \in Above(n) /\ m[1] > o

\* A round of the repair moves the one node that can be merged up.
LEMMA RepairStep ==
  ASSUME NEW t, Tree(t), NEW n \in DOMAIN t, NEW u, NEW o \in Nat, n[1] <= o, o < MaxOrder,
         Reached(t, n, u, o)
  PROVE  Reached(t, n, Combine(u, NodeAt(o + 1, n[2])), o + 1)
<1> DEFINE parent == NodeAt(o + 1, n[2])
           v == Combine(u, parent)
<1>1. /\ Shape(t) /\ n \in TNode /\ n[1] \in Nat /\ n[2] \in Page /\ n[1] \in Orders /\ n[2] \in Nat
      /\ n = NodeAt(n[1], n[2]) /\ n[2] \in PagesOf(n) /\ Shape(u)
  BY TNodeFields, PagesWithin DEF Tree, Shape, Reached
<1>2. o \in Orders /\ o + 1 \in Orders /\ o + 1 \in Nat
  BY OrdersAreNumbers DEF Orders
<1>3. NodeAt(o, n[2]) \in DOMAIN t /\ parent \in DOMAIN t
  BY <1>1, <1>2, ChainUp
<1>4. NodeAt(o, n[2])[1] = o /\ parent[1] = o + 1
  BY <1>1, <1>2, NodeFields
<1>5. Parent(NodeAt(o, n[2])) = parent
  BY <1>1, <1>2, ParentOver
<1> HIDE DEF parent
<1>6. NodeAt(o, n[2]) \in DOMAIN u /\ parent \in DOMAIN u
  BY <1>2, <1>3, <1>4 DEF Reached
<1>7. NodeAt(o, n[2]) \in TNode /\ NodeAt(o, n[2]) # Root /\ parent \in TNode
  BY <1>1, <1>3, <1>4, RootIsNode DEF Shape
<1>8. NodeAt(o, n[2]) \in Children(parent) /\ parent[1] # 0
  BY <1>5, <1>7, ChildOfParent
<1>9. parent \notin Leaves(u)
  BY <1>1, <1>6, <1>8, LeafOrKids
<1>10. /\ Tree(v) /\ KeepsPages(u, v)
       /\ DOMAIN v \subseteq DOMAIN u
       /\ \A m \in DOMAIN u : m[1] >= parent[1] => m \in DOMAIN v
       /\ ~Mergeable(v, parent)
       /\ \A m \in DOMAIN v : Mergeable(v, m) => Mergeable(u, m) \/ (parent # Root /\ m = Parent(parent))
  <2>1. Tree(u)
    BY DEF Reached
  <2> QED BY <1>6, <1>9, <2>1, CombineEffect
<1> HIDE DEF v
<1>11. KeepsPages(t, v)
  BY <1>10 DEF KeepsPages, Reached
<1>12. ASSUME NEW m \in DOMAIN t, m[1] >= o + 1 PROVE m \in DOMAIN v
  <2>1. m[1] \in Nat
    BY <1>1, TNodeFields DEF Shape
  <2>2. m \in DOMAIN u
    BY <1>12, <2>1 DEF Reached
  <2> QED BY <1>4, <1>10, <1>12, <2>2
<1>13. ASSUME NEW m \in DOMAIN v, Mergeable(v, m) PROVE m \in Above(n) /\ m[1] > o + 1
  <2>1. CASE Mergeable(u, m)
    <3>1. m \in DOMAIN u
      BY <1>10
    <3>2. m \in Above(n) /\ m[1] > o
      BY <2>1, <3>1 DEF Reached
    <3>3. m \in TNode /\ m[1] \in Nat /\ m = NodeAt(m[1], n[2])
      BY <1>1, <3>2, AboveNode, TNodeFields
    <3>4. m[1] # o + 1
      BY <1>10, <1>13, <3>3 DEF parent
    <3> QED BY <3>2, <3>3, <3>4
  <2>2. CASE parent # Root /\ m = Parent(parent)
    <3>1. parent \in Path(n)
      BY <1>1, <1>2, PathNode DEF parent
    <3>2. m \in Above(n)
      BY <1>1, <2>2, <3>1, PathFacts
    <3>3. m[1] = parent[1] + 1
      BY <1>7, <2>2, ParentNode
    <3> QED BY <1>4, <3>2, <3>3
  <2> QED BY <1>10, <1>13, <2>1, <2>2
<1>14. DOMAIN v \subseteq DOMAIN t
  BY <1>10 DEF Reached
<1> QED BY <1>10, <1>11, <1>12, <1>13, <1>14 DEF Reached, v, parent

\* After the repair no two free buddies with equal flags are left.
LEMMA RepairEffect ==
  ASSUME NEW t, Tree(t), NEW n \in Leaves(t), MergedBut(t, n)
  PROVE  Tree(Repair(t, n)) /\ Merged(Repair(t, n)) /\ KeepsPages(t, Repair(t, n))
<1>1. Shape(t) /\ n \in DOMAIN t /\ n \in TNode /\ n[1] \in Nat /\ n[1] \in Orders /\ n[1] <= MaxOrder /\ MaxOrder \in Nat
  BY LeafOfLeaf, TNodeFields, OrdersAreNumbers DEF Tree
<1>2. PICK f : Walk(t, n, f) /\ Repair(t, n) = f[MaxOrder]
  BY <1>1, RepairWalks
<1> DEFINE T == {o \in Nat : n[1] <= o /\ o <= MaxOrder => Reached(t, n, f[o], o)}
<1>3. Reached(t, n, t, n[1])
  <2>1. KeepsPages(t, t)
    BY DEF KeepsPages
  <2>2. ASSUME NEW m \in DOMAIN t, Mergeable(t, m) PROVE m \in Above(n) /\ m[1] > n[1]
    BY <1>1, <2>2, AboveNode DEF MergedBut
  <2> QED BY <2>1, <2>2 DEF Reached
<1>4. f[n[1]] = t
  <2>1. n[1] \in 0 .. MaxOrder /\ n[1] <= n[1]
    BY <1>1
  <2>2. f[n[1]] = IF n[1] <= n[1] THEN t ELSE Combine(f[n[1] - 1], NodeAt(n[1], n[2]))
    BY <1>2, <2>1 DEF Walk
  <2> QED BY <2>1, <2>2
<1>5. 0 \in T
  <2> SUFFICES ASSUME n[1] <= 0 PROVE Reached(t, n, f[0], 0)
    OBVIOUS
  <2>1. n[1] = 0
    BY <1>1
  <2> QED BY <1>3, <1>4, <2>1
<1>6. ASSUME NEW o \in Nat, o \in T PROVE o + 1 \in T
  <2> SUFFICES ASSUME n[1] <= o + 1, o + 1 <= MaxOrder PROVE Reached(t, n, f[o + 1], o + 1)
    OBVIOUS
  <2>1. CASE o + 1 = n[1]
    BY <1>3, <1>4, <2>1
  <2>2. CASE o + 1 # n[1]
    <3>1. n[1] <= o /\ o <= MaxOrder /\ o < MaxOrder /\ o + 1 \in 0 .. MaxOrder /\ ~(o + 1 <= n[1])
          /\ (o + 1) - 1 = o
      BY <1>1, <2>2
    <3>2. Reached(t, n, f[o], o)
      BY <1>6, <3>1
    <3>3. f[o + 1] = Combine(f[o], NodeAt(o + 1, n[2]))
      BY <1>2, <3>1 DEF Walk
    <3> QED BY <1>1, <3>1, <3>2, <3>3, RepairStep
  <2> QED BY <2>1, <2>2
<1>7. Nat \subseteq T
  <2> HIDE DEF T
  <2> QED BY <1>5, <1>6, Induct
<1>8. Reached(t, n, Repair(t, n), MaxOrder)
  BY <1>1, <1>2, <1>7
<1>9. Merged(Repair(t, n))
  <2> DEFINE u == Repair(t, n)
  <2>1. ASSUME NEW m \in DOMAIN u, Mergeable(u, m) PROVE FALSE
    <3>1. m \in Above(n) /\ m[1] > MaxOrder
      BY <1>8, <2>1 DEF Reached
    <3>2. m[1] \in Nat /\ m[1] <= MaxOrder
      BY <1>1, <3>1, AboveNode, OrdersAreNumbers
    <3> QED BY <1>1, <3>1, <3>2
  <2> HIDE DEF u
  <2>2. Merged(u)
    BY <2>1 DEF Merged
  <2> QED BY <2>2 DEF u
<1> QED BY <1>8, <1>9 DEF Reached

\* pnode_set_flags in a leaf: only the pages of the leaf change.
LEMMA SetFlagsEffect ==
  ASSUME NEW t, Tree(t), NEW n \in Leaves(t), MergedBut(t, n), NEW f \in LeafFlags
  PROVE  LET u == SetFlags(t, n, f) IN
         /\ Tree(u) /\ Merged(u)
         /\ \A p \in Page : FlagOf(u, p) = IF p \in PagesOf(n) THEN f ELSE FlagOf(t, p)
         /\ \A l \in Leaves(t) : l # n /\ t[l].st # {"free"} => l \in Leaves(u) /\ u[l] = t[l]
         /\ f.st # {"free"} => n \in Leaves(u) /\ u[n] = f
<1> DEFINE v == Store(t, n, f)
           u == Repair(v, n)
<1>1. /\ Tree(v) /\ DOMAIN v = DOMAIN t /\ Leaves(v) = Leaves(t) /\ v[n] = f
      /\ \A m \in DOMAIN t : m \notin Path(n) => v[m] = t[m]
      /\ \A l \in Leaves(t) : l # n => v[l] = t[l]
  BY StoreEffect
<1>2. Shape(t) /\ n \in DOMAIN t /\ n \in TNode /\ \A p \in PagesOf(n) : LeafOf(t, p) = n
  BY LeafOfLeaf DEF Tree
<1> HIDE DEF v
<1>3. MergedBut(v, n)
  <2>1. ASSUME NEW m \in DOMAIN v, Mergeable(v, m) PROVE m \in Above(n)
    <3>1. m \in DOMAIN t /\ m \in TNode /\ m[1] # 0
      BY <1>1, <1>2, <2>1 DEF Shape, Mergeable
    <3>2. CASE n \in Children(m)
      <4>1. Parent(n) = m /\ n # Root
        BY <3>1, <3>2, ChildNodes
      <4> QED BY <1>2, <4>1, PathFacts DEF Path
    <3>3. CASE n \notin Children(m)
      <4>1. \A k \in Children(m) : k \in Leaves(t) /\ t[k] = FreeRam
        BY <1>1, <2>1, <3>3 DEF Mergeable
      <4>2. Mergeable(t, m)
        BY <3>1, <4>1 DEF Mergeable
      <4> QED BY <3>1, <4>2 DEF MergedBut
    <3> QED BY <3>2, <3>3
  <2> QED BY <2>1 DEF MergedBut
<1>4. Tree(u) /\ Merged(u) /\ KeepsPages(v, u)
  BY <1>1, <1>3, RepairEffect
<1> HIDE DEF u
<1>5. ASSUME NEW p \in Page PROVE FlagOf(v, p) = IF p \in PagesOf(n) THEN f ELSE FlagOf(t, p)
  <2>1. LeafOf(v, p) = LeafOf(t, p)
    BY <1>1 DEF LeafOf
  <2>2. LeafOf(t, p) \in Leaves(t) /\ p \in PagesOf(LeafOf(t, p))
    BY <1>2, LeafFacts
  <2>3. CASE p \in PagesOf(n)
    BY <1>1, <1>2, <2>1, <2>3 DEF FlagOf
  <2>4. CASE p \notin PagesOf(n)
    BY <1>1, <2>1, <2>2, <2>4 DEF FlagOf
  <2> QED BY <2>3, <2>4
<1>6. \A p \in Page : FlagOf(u, p) = IF p \in PagesOf(n) THEN f ELSE FlagOf(t, p)
  BY <1>4, <1>5 DEF KeepsPages
<1>7. ASSUME NEW l \in Leaves(t), l # n, t[l].st # {"free"} PROVE l \in Leaves(u) /\ u[l] = t[l]
  BY <1>1, <1>4, <1>7 DEF KeepsPages
<1>8. ASSUME f.st # {"free"} PROVE n \in Leaves(u) /\ u[n] = f
  BY <1>1, <1>4, <1>8 DEF KeepsPages
<1>9. SetFlags(t, n, f) = u
  BY DEF SetFlags, u, v
<1> QED BY <1>4, <1>6, <1>7, <1>8, <1>9

(* Splitting a leaf until a node exists.                                   *)

\* Two sets of flags that are equal join to the same.
LEMMA FlagsOfBoth ==
  ASSUME NEW u, NEW x, NEW y, NEW f, u[x] = f, u[y] = f
  PROVE  UNION {u[k].st : k \in {x, y}} = f.st /\ UNION {u[k].mp : k \in {x, y}} = f.mp
OBVIOUS

\* The nodes a split adds: the children of the path from n up to the leaf.
Cut(n, leaf) == UNION {Children(a) : a \in {b \in Above(n) : b[1] <= leaf[1]}}

\* They lie under the leaf, two and two.
LEMMA CutFacts ==
  ASSUME NEW t, Shape(t), NEW n \in TNode, n \notin DOMAIN t
  PROVE  LET leaf == LeafOf(t, n[2])
             cut == Cut(n, leaf) IN
         /\ leaf \in Leaves(t) /\ leaf \in Above(n)
         /\ n \in cut /\ cut \cap DOMAIN t = {} /\ cut \subseteq TNode
         /\ \A x \in cut : /\ x # Root /\ Parent(x) \in Above(n) /\ Children(Parent(x)) \subseteq cut
                           /\ Parent(x) = leaf \/ Parent(x) \in cut
                           /\ PagesOf(x) \subseteq PagesOf(leaf)
         /\ \A m \in TNode : m[1] # 0 /\ m \in Above(n) /\ (m = leaf \/ m \in cut) => Children(m) \subseteq cut
         /\ \A m \in TNode : m[1] # 0 /\ m \in cut /\ m \notin Above(n) => Children(m) \cap (cut \cup DOMAIN t) = {}
<1> DEFINE leaf == LeafOf(t, n[2])
           cut == Cut(n, leaf)
<1>1. n[1] \in Orders /\ n[1] \in Nat /\ n[2] \in Page /\ n = NodeAt(n[1], n[2]) /\ n[2] \in PagesOf(n)
  BY TNodeFields, PagesWithin
<1>2. /\ leaf \in Leaves(t) /\ leaf \in DOMAIN t /\ leaf \in TNode /\ n[2] \in PagesOf(leaf)
      /\ leaf[1] \in Orders /\ leaf[1] \in Nat
      /\ \A k \in Orders : leaf[1] <= k => NodeAt(k, n[2]) \in DOMAIN t
  BY <1>1, LeafFacts, OrdersAreNumbers
<1> HIDE DEF leaf
<1>3. n[1] < leaf[1]
  BY <1>1, <1>2
<1>4. leaf \in Above(n)
  BY <1>1, <1>2, <1>3, AboveNode
<1>5. ASSUME NEW a \in Above(n), a[1] <= leaf[1]
      PROVE  /\ a \in TNode /\ a[1] # 0 /\ a[1] \in Nat /\ n[2] \in PagesOf(a) /\ a[1] > n[1]
             /\ PagesOf(a) \subseteq PagesOf(leaf)
             /\ a = leaf \/ (a # Root /\ leaf \in Above(a) /\ Parent(a) \in Above(n) /\ Parent(a)[1] <= leaf[1])
  <2>1. a \in TNode /\ a[1] # 0 /\ a[1] \in Nat /\ n[2] \in PagesOf(a) /\ a[1] > n[1] /\ a = NodeAt(a[1], n[2])
    BY <1>1, AboveNode, TNodeFields
  <2>2. CASE a = leaf
    BY <2>1, <2>2
  <2>3. CASE a # leaf
    <3>1. a[1] # leaf[1]
      BY <1>1, <1>4, <2>1, <2>3, AboveNode
    <3>2. a[1] < leaf[1]
      BY <1>2, <1>5, <2>1, <3>1
    <3>3. leaf \in Above(a)
      BY <1>2, <2>1, <3>2, AboveNode
    <3>4. PagesOf(a) \subseteq PagesOf(leaf)
      BY <2>1, <3>3, AboveNode
    <3>5. a # Root
      BY <1>2, <2>1, <3>2, RootIsNode, OrdersAreNumbers
    <3>6. Parent(a) \in Above(n) /\ Parent(a)[1] = a[1] + 1
      BY <2>1, <3>5, PathFacts, ParentNode DEF Path
    <3>7. Parent(a)[1] <= leaf[1]
      BY <1>2, <2>1, <3>2, <3>6
    <3> QED BY <2>1, <3>3, <3>4, <3>5, <3>6, <3>7
  <2> QED BY <2>2, <2>3
<1>6. ASSUME NEW x \in cut
      PROVE  /\ x \in TNode /\ x # Root /\ Parent(x) \in Above(n) /\ Parent(x)[1] <= leaf[1]
             /\ x[1] < leaf[1] /\ x[1] >= n[1] /\ PagesOf(x) \subseteq PagesOf(leaf)
             /\ Children(Parent(x)) \subseteq cut
  <2>1. PICK a \in Above(n) : a[1] <= leaf[1] /\ x \in Children(a)
    BY DEF Cut
  <2>2. a \in TNode /\ a[1] # 0 /\ a[1] \in Nat /\ PagesOf(a) \subseteq PagesOf(leaf) /\ a[1] > n[1]
    BY <1>5, <2>1
  <2>3. x \in TNode /\ x # Root /\ Parent(x) = a /\ x[1] = a[1] - 1 /\ PagesOf(x) \subseteq PagesOf(a)
    BY <2>1, <2>2, ChildNodes
  <2>4. Children(a) \subseteq cut
    BY <2>1 DEF Cut
  <2>5. x[1] < leaf[1] /\ x[1] >= n[1]
    BY <1>1, <1>2, <2>1, <2>2, <2>3
  <2> QED BY <2>1, <2>2, <2>3, <2>4, <2>5
<1>7. ASSUME NEW a \in Above(n), a[1] <= leaf[1] PROVE Children(a) \subseteq cut
  BY <1>7 DEF Cut
<1>8. n \in cut
  <2>1. n # Root
    BY <1>1, <1>2, <1>3, RootIsNode, OrdersAreNumbers
  <2>2. Parent(n) \in Above(n) /\ Parent(n)[1] = n[1] + 1 /\ n \in Children(Parent(n))
    BY <2>1, PathFacts, ParentNode, ChildOfParent DEF Path
  <2>3. Parent(n)[1] <= leaf[1]
    BY <1>1, <1>2, <1>3, <2>2
  <2> QED BY <1>7, <2>2, <2>3
<1>9. ASSUME NEW x \in cut, x \in DOMAIN t PROVE FALSE
  <2>1. x \in TNode /\ x[1] < leaf[1] /\ PagesOf(x) \subseteq PagesOf(leaf)
    BY <1>6
  <2>2. x[2] \in Page /\ x[2] \in PagesOf(x) /\ x[1] \in Nat
    BY <2>1, TNodeFields, PagesWithin
  <2>3. LeafOf(t, x[2]) = leaf
    BY <1>2, <2>1, <2>2, LeafOfLeaf
  <2>4. x[1] >= leaf[1]
    BY <1>9, <2>2, <2>3, LeafFacts
  <2> QED BY <1>2, <2>1, <2>2, <2>4
<1>10. ASSUME NEW x \in cut PROVE Parent(x) = leaf \/ Parent(x) \in cut
  <2>1. Parent(x) \in Above(n) /\ Parent(x)[1] <= leaf[1]
    BY <1>6
  <2>2. CASE Parent(x) # leaf
    <3>1. /\ Parent(x) \in TNode /\ Parent(x) # Root
          /\ Parent(Parent(x)) \in Above(n) /\ Parent(Parent(x))[1] <= leaf[1]
      BY <1>5, <2>1, <2>2
    <3>2. Parent(x) \in Children(Parent(Parent(x)))
      BY <3>1, ChildOfParent
    <3> QED BY <1>7, <3>1, <3>2
  <2> QED BY <2>2
<1>11. ASSUME NEW m \in TNode, m \in Above(n), m = leaf \/ m \in cut PROVE Children(m) \subseteq cut
  <2>1. m[1] \in Nat
    BY TNodeFields
  <2>2. m[1] <= leaf[1]
    BY <1>2, <1>6, <1>11, <2>1
  <2> QED BY <1>7, <1>11, <2>2
<1>12. ASSUME NEW m \in TNode, m[1] # 0, m \in cut, m \notin Above(n) PROVE Children(m) \cap (cut \cup DOMAIN t) = {}
  <2> SUFFICES ASSUME NEW k \in Children(m), k \in cut \/ k \in DOMAIN t PROVE FALSE
    OBVIOUS
  <2>1. PagesOf(m) \subseteq PagesOf(leaf) /\ m[1] < leaf[1] /\ m[1] >= n[1] /\ m[1] \in Nat
    BY <1>6, <1>12, TNodeFields
  <2>2. k \in TNode /\ Parent(k) = m /\ k[1] = m[1] - 1 /\ PagesOf(k) \subseteq PagesOf(m)
    BY <1>12, ChildNodes
  <2>3. k \notin cut
    BY <1>6, <1>12, <2>2
  <2>4. k \in DOMAIN t
    BY <2>3
  <2>5. k[2] \in Page /\ k[2] \in PagesOf(k) /\ k[1] \in Nat
    BY <2>2, TNodeFields, PagesWithin
  <2>6. LeafOf(t, k[2]) = leaf
    BY <1>2, <2>1, <2>2, <2>5, LeafOfLeaf
  <2>7. k[1] >= leaf[1]
    BY <2>4, <2>5, <2>6, LeafFacts
  <2> QED BY <1>2, <2>1, <2>2, <2>5, <2>7
<1> QED BY <1>2, <1>4, <1>6, <1>8, <1>9, <1>10, <1>11, <1>12 DEF leaf

\* A split adds nodes with the flags of the leaf and changes no page.
LEMMA SplitEffect ==
  ASSUME NEW t, Tree(t), NEW n \in TNode, n \in DOMAIN t => n \in Leaves(t)
  PROVE  LET u == SplitTo(t, n) IN
         /\ Tree(u) /\ n \in Leaves(u) /\ u[n] = FlagOf(t, n[2])
         /\ \A p \in Page : FlagOf(u, p) = FlagOf(t, p)
         /\ \A l \in Leaves(t) : n[2] \notin PagesOf(l) => l \in Leaves(u) /\ u[l] = t[l]
         /\ Merged(t) => MergedBut(u, n)
<1> DEFINE leaf == LeafOf(t, n[2])
           cut == Cut(n, leaf)
           u == SplitTo(t, n)
<1>1. Shape(t) /\ n[2] \in Page /\ n[2] \in PagesOf(n) /\ t \in [DOMAIN t -> Flags] /\ DOMAIN t \subseteq TNode
  BY TNodeFields, PagesWithin DEF Tree, Shape
<1>2. CASE n \in DOMAIN t
  <2>1. u = t
    BY <1>2 DEF SplitTo
  <2>2. LeafOf(t, n[2]) = n
    BY <1>1, <1>2, LeafOfLeaf
  <2>3. Merged(t) => MergedBut(t, n)
    BY DEF Merged, MergedBut
  <2> QED BY <1>2, <2>1, <2>2, <2>3 DEF FlagOf
<1>3. CASE n \notin DOMAIN t
  <2>1. u = Updated(t, [m \in cut |-> t[leaf]])
    BY <1>3 DEF SplitTo, Cut
  <2>2. /\ leaf \in Leaves(t) /\ leaf \in Above(n)
        /\ n \in cut /\ cut \cap DOMAIN t = {} /\ cut \subseteq TNode
        /\ \A x \in cut : /\ x # Root /\ Parent(x) \in Above(n) /\ Children(Parent(x)) \subseteq cut
                          /\ Parent(x) = leaf \/ Parent(x) \in cut
                          /\ PagesOf(x) \subseteq PagesOf(leaf)
        /\ \A m \in TNode : m[1] # 0 /\ m \in Above(n) /\ (m = leaf \/ m \in cut) => Children(m) \subseteq cut
        /\ \A m \in TNode : m[1] # 0 /\ m \in cut /\ m \notin Above(n) => Children(m) \cap (cut \cup DOMAIN t) = {}
    BY <1>1, <1>3, CutFacts
  <2> HIDE DEF leaf, cut
  <2>3. /\ DOMAIN u = DOMAIN t \cup cut
        /\ \A m \in cut : u[m] = t[leaf]
        /\ \A m \in DOMAIN t : u[m] = t[m]
        /\ u = [m \in DOMAIN u |-> u[m]]
    <3> HIDE DEF u
    <3> QED BY <2>1, <2>2 DEF Updated
  <2> HIDE DEF u
  <2>4. leaf \in DOMAIN t /\ leaf \in TNode /\ t[leaf] \in LeafFlags /\ t[leaf] \in Flags
        /\ \A p \in PagesOf(leaf) : LeafOf(t, p) = leaf
    BY <1>1, <2>2, LeafOfLeaf DEF Tree
  <2>5. u \in [DOMAIN u -> Flags]
    <3>1. \A m \in DOMAIN u : u[m] \in Flags
      BY <1>1, <2>3, <2>4
    <3> QED BY <2>3, <3>1
  <2>6. Shape(u)
    <3>1. DOMAIN u \subseteq TNode /\ Root \in DOMAIN u
      BY <1>1, <2>2, <2>3 DEF Shape
    <3>2. ASSUME NEW x \in DOMAIN u, x # Root
          PROVE  Parent(x) \in DOMAIN u /\ Children(Parent(x)) \subseteq DOMAIN u
      <4>1. CASE x \in cut
        BY <2>2, <2>3, <2>4, <4>1
      <4>2. CASE x \in DOMAIN t
        BY <1>1, <2>3, <3>2, <4>2 DEF Shape
      <4> QED BY <2>3, <4>1, <4>2
    <3> QED BY <3>1, <3>2 DEF Shape
  <2>7. ASSUME NEW m \in DOMAIN t
        PROVE  m \in Leaves(u) <=> m \in Leaves(t) /\ m # leaf
    <3>1. m \in TNode /\ m \in DOMAIN u
      BY <1>1, <2>3
    <3>2. (m \in Leaves(u) <=> IsLeaf(u, m)) /\ (m \in Leaves(t) <=> IsLeaf(t, m))
      BY <3>1 DEF Leaves
    <3>3. CASE m = leaf
      <4>1. m[1] # 0
        BY <2>2, <3>3, AboveNode, TNodeFields
      <4>2. NodeAt(m[1] - 1, m[2]) \in Children(m)
        BY <3>1, <4>1, ChildNodes
      <4>3. NodeAt(m[1] - 1, m[2]) \in DOMAIN u
        BY <2>2, <2>3, <3>1, <3>3, <4>1, <4>2
      <4> QED BY <3>2, <3>3, <4>1, <4>3 DEF IsLeaf
    <3>4. CASE m # leaf /\ m[1] = 0
      BY <3>2, <3>4 DEF IsLeaf
    <3>5. CASE m # leaf /\ m[1] # 0
      <4>1. Parent(NodeAt(m[1] - 1, m[2])) = m
        BY <3>1, <3>5, ChildNodes
      <4>2. NodeAt(m[1] - 1, m[2]) \notin cut
        BY <2>2, <3>5, <4>1
      <4> QED BY <2>3, <3>2, <3>5, <4>2 DEF IsLeaf
    <3> QED BY <3>3, <3>4, <3>5
  <2>8. ASSUME NEW m \in cut
        PROVE  m \in Leaves(u) <=> m \notin Above(n)
    <3>1. m \in TNode /\ m \in DOMAIN u
      BY <2>2, <2>3
    <3>2. m \in Leaves(u) <=> IsLeaf(u, m)
      BY <3>1 DEF Leaves
    <3>3. CASE m[1] = 0
      <4>1. m \notin Above(n)
        BY <3>3, AboveNode, TNodeFields
      <4> QED BY <3>2, <3>3, <4>1 DEF IsLeaf
    <3>4. CASE m[1] # 0
      <4>1. NodeAt(m[1] - 1, m[2]) \in Children(m)
        BY <3>1, <3>4, ChildNodes
      <4>2. CASE m \in Above(n)
        <5>1. NodeAt(m[1] - 1, m[2]) \in DOMAIN u
          BY <2>2, <2>3, <3>1, <3>4, <4>1, <4>2
        <5> QED BY <3>2, <3>4, <4>2, <5>1 DEF IsLeaf
      <4>3. CASE m \notin Above(n)
        <5>1. NodeAt(m[1] - 1, m[2]) \notin DOMAIN u
          BY <2>2, <2>3, <3>1, <3>4, <4>1, <4>3
        <5> QED BY <3>2, <4>3, <5>1 DEF IsLeaf
      <4> QED BY <4>2, <4>3
    <3> QED BY <3>3, <3>4
  <2>9. n \in Leaves(u)
    <3>1. n \notin Above(n)
      BY AboveNode, TNodeFields
    <3> QED BY <2>2, <2>8, <3>1
  <2>10. \A l \in Leaves(u) : l \in DOMAIN u
    BY DEF Leaves
  <2>11. \A l \in Leaves(u) : u[l] \in LeafFlags
    <3>1. \A l \in Leaves(t) : t[l] \in LeafFlags
      BY DEF Tree
    <3> QED BY <2>3, <2>4, <2>7, <2>10, <3>1
  <2>12. ASSUME NEW m \in DOMAIN u, m \notin Leaves(u) PROVE JoinedAt(u, m)
    <3>1. m \in TNode /\ m[1] # 0 /\ Children(m) \subseteq DOMAIN u
      BY <2>6, <2>12, LeafOrKids DEF Shape
    <3>2. CASE m \in cut \/ m = leaf
      <4>1. m \in Above(n)
        BY <2>2, <2>8, <2>12, <3>2
      <4>2. Children(m) \subseteq cut /\ u[m] = t[leaf]
        BY <2>2, <2>3, <2>4, <3>1, <3>2, <4>1
      <4>3. PICK x, y \in TNode : x # y /\ Children(m) = {x, y}
        BY <3>1, ChildNodes
      <4>4. u[x] = t[leaf] /\ u[y] = t[leaf]
        BY <2>3, <4>2, <4>3
      <4>5. UNION {u[k].st : k \in {x, y}} = t[leaf].st /\ UNION {u[k].mp : k \in {x, y}} = t[leaf].mp
        BY <4>4, FlagsOfBoth
      <4> QED BY <4>2, <4>3, <4>5 DEF JoinedAt
    <3>3. CASE m \in DOMAIN t /\ m # leaf
      <4>1. m \notin Leaves(t)
        BY <2>7, <2>12, <3>3
      <4>2. JoinedAt(t, m) /\ Children(m) \subseteq DOMAIN t
        BY <1>1, <3>3, <4>1, LeafOrKids DEF Tree
      <4>3. /\ {u[k].st : k \in Children(m)} = {t[k].st : k \in Children(m)}
            /\ {u[k].mp : k \in Children(m)} = {t[k].mp : k \in Children(m)}
        BY <2>3, <4>2
      <4> QED BY <2>3, <3>3, <4>2, <4>3 DEF JoinedAt
    <3> QED BY <2>3, <3>2, <3>3
  <2>13. Tree(u)
    BY <2>5, <2>6, <2>11, <2>12 DEF Tree
  <2>14. ASSUME NEW p \in Page PROVE FlagOf(u, p) = FlagOf(t, p)
    <3>1. LeafOf(u, p) \in Leaves(u) /\ p \in PagesOf(LeafOf(u, p)) /\ LeafOf(u, p) \in DOMAIN u
      BY <2>6, LeafFacts
    <3>2. CASE LeafOf(u, p) \in cut
      <4>1. LeafOf(t, p) = leaf
        BY <2>2, <2>4, <3>1, <3>2
      <4> QED BY <2>3, <3>2, <4>1 DEF FlagOf
    <3>3. CASE LeafOf(u, p) \in DOMAIN t
      <4>1. LeafOf(u, p) \in Leaves(t)
        BY <2>7, <3>1, <3>3
      <4>2. LeafOf(t, p) = LeafOf(u, p)
        BY <1>1, <3>1, <4>1, LeafOfLeaf
      <4> QED BY <2>3, <3>3, <4>2 DEF FlagOf
    <3> QED BY <2>3, <3>1, <3>2, <3>3
  <2>15. ASSUME NEW l \in Leaves(t), n[2] \notin PagesOf(l) PROVE l \in Leaves(u) /\ u[l] = t[l]
    <3>1. l \in DOMAIN t
      BY DEF Leaves
    <3>2. n[2] \in PagesOf(leaf)
      BY <1>1, <2>2, AboveNode
    <3> QED BY <2>3, <2>7, <2>15, <3>1, <3>2
  <2>16. ASSUME Merged(t), NEW m \in DOMAIN u, Mergeable(u, m), m \notin Above(n) PROVE FALSE
    <3>1. m \in TNode /\ m[1] # 0 /\ \A k \in Children(m) : k \in Leaves(u) /\ k \in DOMAIN u /\ u[k] = FreeRam
      BY <2>6, <2>10, <2>16 DEF Shape, Mergeable
    <3>2. NodeAt(m[1] - 1, m[2]) \in Children(m) /\ \A k \in Children(m) : Parent(k) = m
      BY <3>1, ChildNodes
    <3>3. m \notin cut
      BY <2>2, <2>3, <2>16, <3>1, <3>2
    <3>4. \A k \in Children(m) : k \in Leaves(t) /\ t[k] = FreeRam
      BY <2>2, <2>3, <2>7, <2>16, <3>1, <3>2
    <3>5. m \in DOMAIN t /\ Mergeable(t, m)
      BY <2>3, <3>1, <3>3, <3>4 DEF Mergeable
    <3> QED BY <2>16, <3>5 DEF Merged
  <2>17. Merged(t) => MergedBut(u, n)
    BY <2>16 DEF MergedBut
  <2>18. u[n] = FlagOf(t, n[2])
    BY <2>2, <2>3 DEF FlagOf, leaf
  <2> QED BY <2>9, <2>13, <2>14, <2>15, <2>17, <2>18 DEF u
<1> QED BY <1>2, <1>3

(* What the flags of an inner node say of the leaves below it.             *)

Below(t, n) == {l \in Leaves(t) : l = n \/ n \in Above(l)}

SummarisedAt(t, n) ==
  /\ t[n].st = UNION {t[l].st : l \in Below(t, n)}
  /\ t[n].mp = UNION {t[l].mp : l \in Below(t, n)}

\* Below a leaf is only the leaf.
LEMMA BelowLeaf ==
  ASSUME NEW t, Shape(t), NEW n \in Leaves(t)
  PROVE  Below(t, n) = {n}
<1>1. n \in TNode
  BY LeafOfLeaf
<1>2. ASSUME NEW l \in Leaves(t), n \in Above(l) PROVE FALSE
  <2>1. l \in TNode /\ (n = l \/ PagesOf(l) \cap PagesOf(n) = {})
    BY LeafOfLeaf
  <2>2. l[2] \in PagesOf(l) /\ n[1] > l[1] /\ l[2] \in PagesOf(n) /\ l[1] \in Nat /\ n[1] \in Nat
    BY <1>1, <1>2, <2>1, AboveNode, PagesWithin, TNodeFields
  <2> QED BY <2>1, <2>2
<1> QED BY <1>2 DEF Below

\* Below an inner node are the leaves below its children.
LEMMA BelowInner ==
  ASSUME NEW t, Shape(t), NEW n \in DOMAIN t, n \notin Leaves(t)
  PROVE  Below(t, n) = UNION {Below(t, k) : k \in Children(n)}
<1>1. n \in TNode /\ n[1] # 0
  BY LeafOrKids DEF Shape
<1>2. ASSUME NEW l \in Below(t, n) PROVE \E k \in Children(n) : l \in Below(t, k)
  <2>1. l \in Leaves(t) /\ n \in Above(l) /\ l \in TNode
    BY LeafOfLeaf DEF Below
  <2>2. l[2] \in PagesOf(n) /\ l[2] \in PagesOf(l) /\ l[1] < n[1] /\ l = NodeAt(l[1], l[2])
        /\ l[1] \in Nat /\ n[1] \in Nat /\ l[2] \in Page
    BY <1>1, <2>1, AboveNode, PagesWithin, TNodeFields
  <2> DEFINE k == NodeAt(n[1] - 1, l[2])
  <2>3. k \in Children(n)
    BY <1>1, <2>2, ChildNodes
  <2>4. k \in TNode /\ k[1] = n[1] - 1
    BY <1>1, <2>3, ChildNodes
  <2>5. l[2] \in PagesOf(k)
    BY <2>2, <2>4, PagesWithin
  <2>6. k = l \/ k \in Above(l)
    <3>1. CASE k[1] = l[1]
      BY <2>2, <2>4, <3>1
    <3>2. CASE k[1] > l[1]
      <4> HIDE DEF k
      <4> QED BY <2>1, <2>2, <2>4, <2>5, <3>2, AboveNode
    <3> QED BY <2>2, <2>4, <3>1, <3>2
  <2> QED BY <2>1, <2>3, <2>6 DEF Below
<1>3. ASSUME NEW k \in Children(n), NEW l \in Below(t, k) PROVE l \in Below(t, n)
  <2>1. k \in TNode /\ k # Root /\ Parent(k) = n
    BY <1>1, ChildNodes
  <2>2. l \in Leaves(t) /\ l \in TNode /\ k \in Path(l)
    BY LeafOfLeaf DEF Below, Path
  <2>3. n \in Above(l)
    BY <2>1, <2>2, PathFacts
  <2> QED BY <2>2, <2>3 DEF Below
<1> QED BY <1>2, <1>3

\* Joining the flags over two sets of leaves.
LEMMA FlagsOfTwoSets ==
  ASSUME NEW t, NEW x, NEW y, NEW A, NEW B,
         t[x].st = UNION {t[l].st : l \in A}, t[y].st = UNION {t[l].st : l \in B},
         t[x].mp = UNION {t[l].mp : l \in A}, t[y].mp = UNION {t[l].mp : l \in B}
  PROVE  /\ UNION {t[k].st : k \in {x, y}} = UNION {t[l].st : l \in A \cup B}
         /\ UNION {t[k].mp : k \in {x, y}} = UNION {t[l].mp : l \in A \cup B}
<1>1. UNION {t[k].st : k \in {x, y}} = t[x].st \cup t[y].st
      /\ UNION {t[k].mp : k \in {x, y}} = t[x].mp \cup t[y].mp
  OBVIOUS
<1>2. UNION {t[l].st : l \in A \cup B} = (UNION {t[l].st : l \in A}) \cup UNION {t[l].st : l \in B}
  OBVIOUS
<1>3. UNION {t[l].mp : l \in A \cup B} = (UNION {t[l].mp : l \in A}) \cup UNION {t[l].mp : l \in B}
  OBVIOUS
<1> QED BY <1>1, <1>2, <1>3

\* Each node carries the joined flags of the leaves below it.
LEMMA TreesSummarise ==
  ASSUME NEW t, Tree(t)
  PROVE  \A n \in DOMAIN t : SummarisedAt(t, n)
<1>1. Shape(t) /\ \A n \in DOMAIN t : n \in TNode /\ n[1] \in Nat
  BY TNodeFields DEF Tree, Shape
<1> DEFINE T == {o \in Nat : \A n \in DOMAIN t : n[1] = o => SummarisedAt(t, n)}
<1>2. ASSUME NEW n \in Leaves(t) PROVE SummarisedAt(t, n)
  <2>1. Below(t, n) = {n}
    BY <1>1, BelowLeaf
  <2>2. UNION {t[l].st : l \in {n}} = t[n].st /\ UNION {t[l].mp : l \in {n}} = t[n].mp
    OBVIOUS
  <2> QED BY <2>1, <2>2 DEF SummarisedAt
<1>3. 0 \in T
  <2>1. \A n \in DOMAIN t : n[1] = 0 => n \in Leaves(t)
    BY DEF Leaves, IsLeaf
  <2> QED BY <1>2, <2>1
<1>4. ASSUME NEW o \in Nat, o \in T PROVE o + 1 \in T
  <2> SUFFICES ASSUME NEW n \in DOMAIN t, n[1] = o + 1, n \notin Leaves(t)
               PROVE  SummarisedAt(t, n)
    BY <1>2
  <2>1. JoinedAt(t, n) /\ n[1] # 0 /\ Children(n) \subseteq DOMAIN t
    BY <1>1, LeafOrKids DEF Tree
  <2>2. \A k \in Children(n) : k[1] = n[1] - 1
    BY <1>1, <2>1, ChildNodes
  <2>3. \A k \in Children(n) : SummarisedAt(t, k)
    BY <1>4, <2>1, <2>2
  <2>4. PICK x, y \in TNode : Children(n) = {x, y}
    BY <1>1, <2>1, ChildNodes
  <2>5. Below(t, n) = Below(t, x) \cup Below(t, y)
    <3>1. Below(t, n) = UNION {Below(t, k) : k \in {x, y}}
      BY <1>1, <2>4, BelowInner
    <3> QED BY <3>1
  <2>6. SummarisedAt(t, x) /\ SummarisedAt(t, y)
    BY <2>3, <2>4
  <2>7. /\ UNION {t[k].st : k \in {x, y}} = UNION {t[l].st : l \in Below(t, x) \cup Below(t, y)}
        /\ UNION {t[k].mp : k \in {x, y}} = UNION {t[l].mp : l \in Below(t, x) \cup Below(t, y)}
    <3> DEFINE A == Below(t, x)
               B == Below(t, y)
    <3>1. /\ t[x].st = UNION {t[l].st : l \in A} /\ t[y].st = UNION {t[l].st : l \in B}
          /\ t[x].mp = UNION {t[l].mp : l \in A} /\ t[y].mp = UNION {t[l].mp : l \in B}
      BY <2>6 DEF SummarisedAt
    <3> HIDE DEF A, B
    <3>2. /\ UNION {t[k].st : k \in {x, y}} = UNION {t[l].st : l \in A \cup B}
          /\ UNION {t[k].mp : k \in {x, y}} = UNION {t[l].mp : l \in A \cup B}
      BY <3>1, FlagsOfTwoSets
    <3> QED BY <3>2 DEF A, B
  <2> QED BY <2>1, <2>4, <2>5, <2>7 DEF SummarisedAt, JoinedAt
<1>5. Nat \subseteq T
  <2> HIDE DEF T
  <2> QED BY <1>3, <1>4, Induct
<1> QED BY <1>1, <1>5

(* Searching.                                                              *)

\* A leaf whose flags match is FREE RAM; the nodes above it match as well.
LEMMA MatchingLeaf ==
  ASSUME NEW t, Tree(t), NEW l \in Leaves(t)
  PROVE  /\ Matches(t[l], "free", "ram") <=> t[l] = FreeRam
         /\ t[l] = FreeRam => \A m \in {l} \cup Above(l) : m \in DOMAIN t => Matches(t[m], "free", "ram")
<1>1. t[l] \in LeafFlags
  BY DEF Tree
<1>2. Matches(t[l], "free", "ram") <=> t[l] = FreeRam
  <2>1. PICK mp \in Mapping : t[l].mp = {mp}
    BY <1>1 DEF LeafFlags
  <2>2. t[l] \in Flags /\ (t[l].st = {} \/ \E st \in Status : t[l].st = {st})
    BY <1>1 DEF LeafFlags
  <2>3. "free" \in t[l].st <=> t[l].st = {"free"}
    BY <2>2
  <2>4. "ram" \in t[l].mp <=> t[l].mp = {"ram"}
    BY <2>1
  <2>5. t[l] = FreeRam <=> t[l].st = {"free"} /\ t[l].mp = {"ram"}
    BY <2>2 DEF Flags, FreeRam, Flag
  <2> QED BY <2>3, <2>4, <2>5 DEF Matches
<1>3. ASSUME t[l] = FreeRam, NEW m \in {l} \cup Above(l), m \in DOMAIN t
      PROVE  Matches(t[m], "free", "ram")
  <2>1. SummarisedAt(t, m)
    BY <1>3, TreesSummarise
  <2>2. l \in Below(t, m)
    BY <1>3 DEF Below
  <2>3. "free" \in t[l].st /\ "ram" \in t[l].mp
    BY <1>3 DEF FreeRam, Flag
  <2> QED BY <2>1, <2>2, <2>3 DEF SummarisedAt, Matches
<1> QED BY <1>2, <1>3

\* In a merged tree a block of free RAM lies in one leaf, or is split in vain.
LEMMA SearchFinds ==
  ASSUME NEW t, Tree(t), Merged(t), NEW n \in TNode,
         PagesOf(n) \subseteq PagesWith(t, FreeRam)
  PROVE  Candidates(t, n[1], "free", "ram") # {}
<1> DEFINE l == LeafOf(t, n[2])
<1>1. Shape(t) /\ n[2] \in Page /\ n[2] \in PagesOf(n) /\ n[1] \in Orders /\ n[1] \in Nat /\ n = NodeAt(n[1], n[2])
  BY TNodeFields, PagesWithin DEF Tree
<1>2. /\ l \in Leaves(t) /\ l \in DOMAIN t /\ l \in TNode /\ n[2] \in PagesOf(l) /\ l[1] \in Orders /\ l[1] \in Nat
      /\ \A m \in Leaves(t) : n[2] \in PagesOf(m) => m = l
      /\ \A k \in Orders : l[1] <= k => NodeAt(k, n[2]) \in DOMAIN t
  BY <1>1, LeafFacts, OrdersAreNumbers
<1>3. \A p \in PagesOf(n) : p \in Page /\ FlagOf(t, p) = FreeRam
  BY <1>1, PagesByFlag
<1>4. CASE l[1] >= n[1]
  <2>1. t[l] = FreeRam
    BY <1>1, <1>3 DEF FlagOf
  <2>2. {l} \cup Above(l) \subseteq DOMAIN t
    <3> HIDE DEF l
    <3> QED BY <1>1, <1>2, PathInTree DEF Path
  <2> HIDE DEF l
  <2>3. \A m \in {l} \cup Above(l) : Matches(t[m], "free", "ram")
    BY <1>2, <2>1, <2>2, MatchingLeaf
  <2>4. l \in Candidates(t, n[1], "free", "ram")
    BY <1>2, <1>4, <2>3 DEF Candidates
  <2> QED BY <2>4
<1>5. CASE l[1] < n[1]
  <2> DEFINE S == {m \in DOMAIN t : m \notin Leaves(t) /\ PagesOf(m) \subseteq PagesOf(n)}
             T == {m[1] : m \in S}
  <2>1. n \in DOMAIN t /\ n # l
    BY <1>1, <1>2, <1>5
  <2> HIDE DEF l
  <2>2. n \notin Leaves(t)
    BY <1>1, <1>2, <2>1
  <2>3. n \in S
    BY <2>1, <2>2
  <2>4. \A m \in S : m \in TNode /\ m[1] \in Nat
    BY <1>1, TNodeFields DEF Shape
  <2>5. PICK o \in T : \A k \in T : o <= k
    <3>1. T \subseteq Nat /\ T # {}
      BY <2>3, <2>4
    <3> HIDE DEF T
    <3> QED BY <3>1, LeastMember
  <2>6. PICK m \in S : m[1] = o
    BY <2>5
  <2>7. m \in DOMAIN t /\ m \in TNode /\ m \notin Leaves(t) /\ PagesOf(m) \subseteq PagesOf(n) /\ m[1] \in Nat
    BY <2>4, <2>6
  <2>8. m[1] # 0 /\ Children(m) \subseteq DOMAIN t
    BY <1>1, <2>7, LeafOrKids
  <2>9. ASSUME NEW k \in Children(m) PROVE k \in Leaves(t) /\ t[k] = FreeRam
    <3>1. k \in TNode /\ k[1] = m[1] - 1 /\ PagesOf(k) \subseteq PagesOf(m) /\ k \in DOMAIN t /\ k[2] \in PagesOf(k)
      BY <2>7, <2>8, ChildNodes, PagesWithin
    <3>2. k \notin S
      <4> SUFFICES ASSUME k \in S PROVE FALSE
        OBVIOUS
      <4>1. k[1] \in T
        OBVIOUS
      <4>2. o <= k[1]
        BY <2>5, <4>1
      <4> QED BY <2>6, <2>7, <2>8, <3>1, <4>2
    <3>3. k \in Leaves(t)
      BY <2>7, <3>1, <3>2
    <3>4. LeafOf(t, k[2]) = k /\ k[2] \in PagesOf(n)
      BY <1>1, <2>7, <3>1, <3>3, LeafOfLeaf
    <3> QED BY <1>3, <3>3, <3>4 DEF FlagOf
  <2>10. Mergeable(t, m)
    BY <2>8, <2>9 DEF Mergeable
  <2> QED BY <2>7, <2>10 DEF Merged
<1> QED BY <1>1, <1>2, <1>4, <1>5

\* A node starts where one of a lower order does.
LEMMA SameStart ==
  ASSUME NEW n \in TNode, NEW o \in Orders, o <= n[1]
  PROVE  /\ NodeAt(o, n[2]) = <<o, n[2]>> /\ NodeAt(o, n[2]) \in TNode
         /\ PagesOf(NodeAt(o, n[2])) \subseteq PagesOf(n)
<1>1. n[1] \in Nat /\ n[2] \in Nat /\ n[2] \in Page /\ n = NodeAt(n[1], n[2]) /\ o \in Nat
  BY TNodeFields, OrdersAreNumbers
<1> DEFINE x == NodeAt(o, n[2])
<1>2. /\ x[1] = o /\ x[2] \in Nat /\ x[2] <= n[2] /\ x = <<o, x[2]>> /\ x \in TNode
  BY <1>1, NodeFields, NodeAtIsNode
<1>3. NodeAt(n[1], x[2]) = n
  BY <1>1, NodeOverNode
<1> HIDE DEF x
<1>4. n[2] <= x[2]
  BY <1>1, <1>2, <1>3, NodeFields
<1>5. x[2] = n[2]
  BY <1>1, <1>2, <1>4
<1>6. PagesOf(x) \subseteq PagesOf(n)
  <2>1. n[2] \in PagesOf(x) /\ n[2] \in PagesOf(n)
    BY <1>2, <1>5, PagesWithin
  <2>2. CASE o = n[1]
    BY <1>1, <2>2 DEF x
  <2>3. CASE o < n[1]
    <3>1. n \in Above(x)
      BY <1>2, <2>1, <2>3, AboveNode
    <3> QED BY <1>2, <3>1, AboveNode
  <2> QED BY <1>1, <2>2, <2>3
<1> QED BY <1>2, <1>5, <1>6 DEF x

\* ba_search returns a block of free RAM within one leaf.
LEMMA SearchNode ==
  ASSUME NEW t, Tree(t), NEW o \in Orders, Candidates(t, o, "free", "ram") # {}
  PROVE  LET n == Search(t, o, "free", "ram") IN
         /\ n \in TNode /\ n[1] = o
         /\ n \in DOMAIN t => n \in Leaves(t)
         /\ FlagOf(t, n[2]) = FreeRam
         /\ \A p \in PagesOf(n) : p \in Page /\ LeafOf(t, p) = LeafOf(t, n[2])
<1> DEFINE C == Candidates(t, o, "free", "ram")
           T == {l[2] : l \in C}
           lowest == CHOOSE l \in C : \A k \in C : l[2] <= k[2]
           n == Search(t, o, "free", "ram")
<1>1. Shape(t)
  BY DEF Tree
<1>2. ASSUME NEW l \in C
      PROVE  l \in Leaves(t) /\ l[1] >= o /\ l \in TNode /\ l[2] \in Nat /\ t[l] = FreeRam
  <2>1. l \in Leaves(t) /\ l[1] >= o /\ Matches(t[l], "free", "ram")
    BY DEF Candidates
  <2> QED BY <1>1, <2>1, LeafOfLeaf, TNodeFields, MatchingLeaf
<1> HIDE DEF C
<1>3. \E l \in C : \A k \in C : l[2] <= k[2]
  <2>1. T \subseteq Nat /\ T # {}
    BY <1>2 DEF C
  <2>2. PICK x \in T : \A y \in T : x <= y
    <3> HIDE DEF T
    <3> QED BY <2>1, LeastMember
  <2>3. PICK l \in C : l[2] = x
    BY <2>2
  <2>4. \A k \in C : k[2] \in T
    OBVIOUS
  <2> QED BY <2>2, <2>3, <2>4
<1>4. lowest \in C
  BY <1>3, Zenon
<1>5. n = <<o, lowest[2]>>
  BY DEF Search, C
<1> HIDE DEF lowest, n
<1>6. lowest \in Leaves(t) /\ o <= lowest[1] /\ lowest \in TNode /\ t[lowest] = FreeRam
      /\ lowest[1] \in Nat /\ o \in Nat /\ lowest = NodeAt(lowest[1], lowest[2])
  BY <1>2, <1>4, TNodeFields, OrdersAreNumbers
<1>7. n = NodeAt(o, lowest[2]) /\ n \in TNode /\ PagesOf(n) \subseteq PagesOf(lowest)
      /\ n[1] = o /\ n[2] = lowest[2]
  BY <1>5, <1>6, SameStart
<1>8. \A p \in PagesOf(n) : p \in Page /\ LeafOf(t, p) = lowest
  BY <1>1, <1>6, <1>7, LeafOfLeaf
<1>9. n[2] \in PagesOf(n)
  BY <1>7, PagesWithin
<1>10. FlagOf(t, n[2]) = FreeRam
  BY <1>6, <1>8, <1>9 DEF FlagOf
<1>11. ASSUME n \in DOMAIN t PROVE n \in Leaves(t)
  <2>1. n[2] \in Page /\ LeafOf(t, n[2]) = lowest
    BY <1>8, <1>9
  <2>2. o >= lowest[1]
    BY <1>1, <1>7, <1>9, <1>11, <2>1, LeafFacts
  <2>3. o = lowest[1]
    BY <1>6, <2>2
  <2> QED BY <1>6, <1>7, <2>3
<1>12. \A p \in PagesOf(n) : LeafOf(t, p) = LeafOf(t, n[2])
  BY <1>8, <1>9
<1> QED BY <1>7, <1>8, <1>10, <1>11, <1>12 DEF n

(* Taking and giving back a block.                                         *)

\* The flags of free and of used memory.
LEMMA ConstantFlags ==
  /\ FreeRam \in LeafFlags /\ UsedRam \in LeafFlags /\ FreeRam # UsedRam
  /\ FreeRam.st = {"free"} /\ UsedRam.st = {"used"} /\ UsedRam.mp = {"ram"}
  /\ [FreeRam EXCEPT !.st = {"used"}] = UsedRam
  /\ [UsedRam EXCEPT !.st = {"free"}] = FreeRam
<1>1. FreeRam = [st |-> {"free"}, mp |-> {"ram"}] /\ UsedRam = [st |-> {"used"}, mp |-> {"ram"}]
  BY DEF FreeRam, UsedRam, Flag
<1>2. {"free"} # {"used"}
  OBVIOUS
<1>3. FreeRam # UsedRam
  <2>1. FreeRam.st # UsedRam.st
    BY <1>1, <1>2
  <2> QED BY <2>1
<1>4. FreeRam \in Flags /\ UsedRam \in Flags
  BY <1>1 DEF Flags, Status, Mapping
<1>5. FreeRam \in LeafFlags /\ UsedRam \in LeafFlags
  BY <1>1, <1>4 DEF LeafFlags, Status, Mapping
<1> QED BY <1>1, <1>3, <1>5

\* Taking a block changes its pages alone, and keeps other used leaves.
LEMMA TakeEffect ==
  ASSUME NEW t, Tree(t), Merged(t), NEW o \in Orders, Candidates(t, o, "free", "ram") # {}
  PROVE  LET n == Search(t, o, "free", "ram")
             u == SetStatus(SplitTo(t, n), n, "used") IN
         /\ n \in TNode /\ n[1] = o
         /\ Tree(u) /\ Merged(u) /\ n \in Leaves(u) /\ u[n] = UsedRam
         /\ \A p \in PagesOf(n) : p \in Page /\ FlagOf(t, p) = FreeRam
         /\ \A p \in Page : FlagOf(u, p) = IF p \in PagesOf(n) THEN UsedRam ELSE FlagOf(t, p)
         /\ \A l \in Leaves(t) : t[l].st # {"free"} => l \in Leaves(u) /\ u[l] = t[l] /\ l # n
<1> DEFINE n == Search(t, o, "free", "ram")
           v == SplitTo(t, n)
           u == SetFlags(v, n, UsedRam)
<1>1. /\ n \in TNode /\ n[1] = o
      /\ n \in DOMAIN t => n \in Leaves(t)
      /\ FlagOf(t, n[2]) = FreeRam
      /\ \A p \in PagesOf(n) : p \in Page /\ LeafOf(t, p) = LeafOf(t, n[2])
  BY SearchNode
<1> HIDE DEF n
<1>2. /\ Tree(v) /\ n \in Leaves(v) /\ v[n] = FreeRam
      /\ \A p \in Page : FlagOf(v, p) = FlagOf(t, p)
      /\ \A l \in Leaves(t) : n[2] \notin PagesOf(l) => l \in Leaves(v) /\ v[l] = t[l]
      /\ MergedBut(v, n)
  BY <1>1, SplitEffect
<1> HIDE DEF v
<1>3. /\ Tree(u) /\ Merged(u)
      /\ \A p \in Page : FlagOf(u, p) = IF p \in PagesOf(n) THEN UsedRam ELSE FlagOf(v, p)
      /\ \A l \in Leaves(v) : l # n /\ v[l].st # {"free"} => l \in Leaves(u) /\ u[l] = v[l]
      /\ UsedRam.st # {"free"} => n \in Leaves(u) /\ u[n] = UsedRam
  BY <1>2, ConstantFlags, SetFlagsEffect
<1> HIDE DEF u
<1>4. n \in Leaves(u) /\ u[n] = UsedRam
  <2>1. UsedRam.st # {"free"}
    <3>1. {"used"} # {"free"}
      OBVIOUS
    <3> QED BY <3>1, ConstantFlags
  <2> QED BY <1>3, <2>1
<1>5. SetStatus(v, n, "used") = u
  <2>1. ~("blocked" \in v[n].st \/ v[n].st = {"used"})
    <3>1. v[n].st = {"free"} /\ {"free"} # {"used"} /\ "blocked" \notin {"free"}
      BY <1>2, ConstantFlags
    <3> QED BY <3>1
  <2>2. [v[n] EXCEPT !.st = {"used"}] = UsedRam
    BY <1>2, ConstantFlags
  <2> QED BY <2>1, <2>2 DEF SetStatus, u
<1>6. \A p \in PagesOf(n) : p \in Page /\ FlagOf(t, p) = FreeRam
  BY <1>1 DEF FlagOf
<1>7. \A p \in Page : FlagOf(u, p) = IF p \in PagesOf(n) THEN UsedRam ELSE FlagOf(t, p)
  BY <1>2, <1>3
<1>8. ASSUME NEW l \in Leaves(t), t[l].st # {"free"}
      PROVE  l \in Leaves(u) /\ u[l] = t[l] /\ l # n
  <2>1. n[2] \notin PagesOf(l)
    <3> SUFFICES ASSUME n[2] \in PagesOf(l) PROVE FALSE
      OBVIOUS
    <3>1. LeafOf(t, n[2]) = l
      BY LeafOfLeaf DEF Tree
    <3> QED BY <1>1, <1>8, <3>1, ConstantFlags DEF FlagOf
  <2>2. l \in Leaves(v) /\ v[l] = t[l]
    BY <1>2, <2>1
  <2>3. l # n
    BY <1>1, <2>1, PagesWithin
  <2> QED BY <1>3, <1>8, <2>2, <2>3
<1> QED BY <1>1, <1>3, <1>4, <1>5, <1>6, <1>7, <1>8 DEF n, v

\* Giving a block back makes its pages free and keeps other used leaves.
LEMMA GiveEffect ==
  ASSUME NEW t, Tree(t), Merged(t), NEW b \in Leaves(t), t[b] = UsedRam, NEW ok
  PROVE  LET s == FreePages([tree |-> t, ok |-> ok], b) IN
         /\ s = [tree |-> s.tree, ok |-> ok]
         /\ Tree(s.tree) /\ Merged(s.tree)
         /\ \A p \in Page : FlagOf(s.tree, p) = IF p \in PagesOf(b) THEN FreeRam ELSE FlagOf(t, p)
         /\ \A l \in Leaves(t) : l # b /\ t[l].st # {"free"} => l \in Leaves(s.tree) /\ s.tree[l] = t[l]
<1> DEFINE s0 == [tree |-> t, ok |-> ok]
           u == SetFlags(t, b, FreeRam)
<1>1. b \in DOMAIN t /\ Shape(t)
  BY DEF Leaves, Tree
<1>2. SplitTo(t, b) = t
  BY <1>1 DEF SplitTo
<1>3. t[b].st = {"used"} /\ t[b].mp = {"ram"}
  BY ConstantFlags
<1>4. SetStatus(t, b, "free") = u
  <2>1. ~("blocked" \in t[b].st \/ t[b].st = {"free"})
    <3>1. {"used"} # {"free"} /\ "blocked" \notin {"used"}
      OBVIOUS
    <3> QED BY <1>3, <3>1
  <2>2. [t[b] EXCEPT !.st = {"free"}] = FreeRam
    BY ConstantFlags
  <2> QED BY <2>1, <2>2 DEF SetStatus
<1>5. MergedBut(t, b)
  BY DEF Merged, MergedBut
<1>6. /\ Tree(u) /\ Merged(u)
      /\ \A p \in Page : FlagOf(u, p) = IF p \in PagesOf(b) THEN FreeRam ELSE FlagOf(t, p)
      /\ \A l \in Leaves(t) : l # b /\ t[l].st # {"free"} => l \in Leaves(u) /\ u[l] = t[l]
  BY <1>5, ConstantFlags, SetFlagsEffect
<1> HIDE DEF u
<1>7. s0.tree = t
  OBVIOUS
<1>8. FreePages(s0, b) = [s0 EXCEPT !.tree = u]
  <2>1. FreePages(s0, b) = IF t[b].st # {"used"} THEN [s0 EXCEPT !.tree = t, !.ok = FALSE]
                           ELSE IF t[b].mp = {"ram"} THEN [s0 EXCEPT !.tree = SetStatus(t, b, "free")]
                           ELSE [s0 EXCEPT !.tree = SetFlags(t, b, Flag("free", "unmapped"))]
    <3> HIDE DEF s0
    <3> QED BY <1>2, <1>7 DEF FreePages
  <2> HIDE DEF s0
  <2> QED BY <1>3, <1>4, <2>1
<1>9. FreePages(s0, b) = [tree |-> u, ok |-> ok]
  BY <1>8
<1>10. FreePages(s0, b).tree = u
  BY <1>9
<1> QED BY <1>6, <1>9, <1>10

(* Marking a range of pages.                                               *)

\* The node of a single page.
LEMMA PageNode ==
  ASSUME NEW p \in Page
  PROVE  <<0, p>> \in TNode /\ PagesOf(<<0, p>>) = {p} /\ Size[0] = 1
<1>1. 0 \in Orders /\ p \in Nat /\ Size[0] = 1
  BY OrdersAreNumbers, PagesAreNumbers, SizeRecursion
<1>2. p % 1 = 0 /\ p - 0 = p
  BY <1>1
<1>3. NodeAt(0, p) = <<0, p>>
  BY <1>1, <1>2 DEF NodeAt
<1>4. <<0, p>> \in TNode
  BY <1>1, <1>3, NodeAtIsNode
<1>5. PagesOf(<<0, p>>) = p .. p + 1 - 1
  BY <1>1 DEF PagesOf
<1>6. p .. p + 1 - 1 = {p}
  BY <1>1
<1> QED BY <1>1, <1>4, <1>5, <1>6

\* The node a step of ba_mark_pages goes on with.
LEMMA MarkNodeFacts ==
  ASSUME NEW t, Tree(t), NEW p \in Page, NEW first, NEW end
  PROVE  LET n == MarkNode(t, p, first, end) IN
         /\ n \in TNode /\ p \in PagesOf(n) /\ (n \in DOMAIN t => n \in Leaves(t))
         /\ \/ n = <<0, p>>
            \/ p # first /\ n = LeafOf(t, p) /\ ~(n[2] + Size[n[1]] > end)
<1>1. Shape(t)
  BY DEF Tree
<1>2. LeafOf(t, p) \in Leaves(t) /\ LeafOf(t, p) \in TNode /\ p \in PagesOf(LeafOf(t, p))
  BY <1>1, LeafFacts
<1>3. <<0, p>> \in TNode /\ p \in PagesOf(<<0, p>>)
  BY PageNode
<1>4. <<0, p>> \in DOMAIN t => <<0, p>> \in Leaves(t)
  BY DEF Leaves, IsLeaf
<1> QED BY <1>2, <1>3, <1>4 DEF MarkNode

\* Setting the flags of the pages of a node that may still have to be cut.
LEMMA CutAndSet ==
  ASSUME NEW t, Tree(t), Merged(t), NEW n \in TNode, n \in DOMAIN t => n \in Leaves(t),
         NEW f \in LeafFlags
  PROVE  LET u == SetFlags(SplitTo(t, n), n, f) IN
         /\ Tree(u) /\ Merged(u)
         /\ \A p \in Page : FlagOf(u, p) = IF p \in PagesOf(n) THEN f ELSE FlagOf(t, p)
         /\ f.st # {"free"} => n \in Leaves(u)
<1> DEFINE v == SplitTo(t, n)
           u == SetFlags(v, n, f)
<1>1. /\ Tree(v) /\ n \in Leaves(v) /\ \A p \in Page : FlagOf(v, p) = FlagOf(t, p)
      /\ MergedBut(v, n)
  BY SplitEffect
<1> HIDE DEF v
<1>2. /\ Tree(u) /\ Merged(u)
      /\ \A p \in Page : FlagOf(u, p) = IF p \in PagesOf(n) THEN f ELSE FlagOf(v, p)
      /\ f.st # {"free"} => n \in Leaves(u) /\ u[n] = f
  BY <1>1, SetFlagsEffect
<1> QED BY <1>1, <1>2 DEF v

MarkStates == {a \in [tree : FlagMaps, ok : BOOLEAN, next : Nat] : Tree(a.tree) /\ Merged(a.tree)}

\* A step of ba_mark_pages goes from good states to good states.
LEMMA MarkStepStays ==
  ASSUME NEW a \in MarkStates, NEW p \in Page, NEW first, NEW end, NEW f \in LeafFlags, NEW bypass
  PROVE  MarkStep(a, p, first, end, f, bypass) \in MarkStates
<1> DEFINE n == MarkNode(a.tree, p, first, end)
           u == SetFlags(SplitTo(a.tree, n), n, f)
           ok == a.ok /\ ValidUpdate(SplitTo(a.tree, n)[n], f, bypass)
<1>1. CASE p < a.next
  BY <1>1 DEF MarkStep
<1>2. CASE ~(p < a.next)
  <2>1. Tree(a.tree) /\ Merged(a.tree)
    BY DEF MarkStates
  <2>2. n \in TNode /\ (n \in DOMAIN a.tree => n \in Leaves(a.tree))
    BY <2>1, MarkNodeFacts
  <2> HIDE DEF n
  <2>3. Tree(u) /\ Merged(u)
    BY <2>1, <2>2, CutAndSet
  <2> HIDE DEF u
  <2>4. u \in FlagMaps
    BY <2>3, TreesAreMaps DEF Tree, Shape
  <2>5. p + Size[n[1]] \in Nat
    <3>1. p \in Nat /\ n[1] \in Nat
      BY <2>2, PagesAreNumbers, TNodeFields
    <3>2. Size[n[1]] \in Nat
      BY <3>1, SizeOf
    <3> QED BY <3>1, <3>2
  <2>6. ok \in BOOLEAN
    OBVIOUS
  <2>7. MarkStep(a, p, first, end, f, bypass) = [tree |-> u, ok |-> ok, next |-> p + Size[n[1]]]
    BY <1>2 DEF MarkStep, n, u
  <2> HIDE DEF ok
  <2> QED BY <2>3, <2>4, <2>5, <2>6, <2>7 DEF MarkStates
<1> QED BY <1>1, <1>2

\* After i pages of the range the flags of a page are the old or the new ones;
\* unless they are those of free memory, every page so far has the new ones
\* and the next leaf starts at the next page.
Marked(t, a, i, first, end, f) ==
  /\ Tree(a.tree) /\ Merged(a.tree) /\ a.next \in Nat /\ a.next >= first + i
  /\ i = 0 => a.next = first
  /\ \A q \in Page : \/ FlagOf(a.tree, q) = FlagOf(t, q)
                     \/ q >= first /\ q < end /\ FlagOf(a.tree, q) = f
  /\ i > 0 => FlagOf(a.tree, first) = f
  /\ f.st # {"free"} =>
       /\ \A q \in Page : first <= q /\ q < a.next => q < end /\ FlagOf(a.tree, q) = f
       /\ i > 0 => \A l \in Leaves(a.tree) : ~(a.next - 1 \in PagesOf(l) /\ a.next \in PagesOf(l))

\* A step of ba_mark_pages marks pages of the range alone.
LEMMA MarkStepEffect ==
  ASSUME NEW t, NEW a, NEW i \in Nat, NEW first \in Nat, NEW end \in Nat, NEW f \in LeafFlags, NEW bypass,
         first + i < end, end <= Size[MaxOrder],
         Marked(t, a, i, first, end, f)
  PROVE  Marked(t, MarkStep(a, first + i, first, end, f, bypass), i + 1, first, end, f)
<1> DEFINE p == first + i
           n == MarkNode(a.tree, p, first, end)
           u == SetFlags(SplitTo(a.tree, n), n, f)
           b == MarkStep(a, p, first, end, f, bypass)
<1>1. MaxOrder \in Nat /\ Size[MaxOrder] \in Nat /\ p \in Nat /\ p < end
  BY OrdersAreNumbers, SizeOf
<1>2. \A q \in Nat : q < end => q \in Page
  BY <1>1 DEF Page
<1>3. p \in Page /\ first \in Page
  BY <1>1, <1>2
<1>4. Tree(a.tree) /\ Merged(a.tree) /\ Shape(a.tree) /\ a.next \in Nat /\ a.next >= p
  BY DEF Marked, Tree
<1>5. CASE p < a.next
  <2>1. b = a
    BY <1>5 DEF MarkStep
  <2>2. a.next >= first + (i + 1) /\ i + 1 > 0 /\ i + 1 # 0 /\ i > 0
    <3>1. i # 0
      BY <1>5 DEF Marked
    <3> QED BY <1>4, <1>5, <3>1
  <2>3. Marked(t, a, i + 1, first, end, f)
    BY <2>2 DEF Marked
  <2> QED BY <2>1, <2>3
<1>6. CASE ~(p < a.next)
  <2>1. a.next = p
    BY <1>1, <1>4, <1>6
  <2>2. /\ n \in TNode /\ p \in PagesOf(n) /\ (n \in DOMAIN a.tree => n \in Leaves(a.tree))
        /\ \/ n = <<0, p>>
           \/ p # first /\ n = LeafOf(a.tree, p) /\ ~(n[2] + Size[n[1]] > end)
    BY <1>3, <1>4, MarkNodeFacts
  <2>3. b.tree = u /\ b.next = p + Size[n[1]]
    BY <1>6 DEF MarkStep
  <2> HIDE DEF n, b
  <2>4. /\ Tree(u) /\ Merged(u) /\ Shape(u)
        /\ \A q \in Page : FlagOf(u, q) = IF q \in PagesOf(n) THEN f ELSE FlagOf(a.tree, q)
        /\ f.st # {"free"} => n \in Leaves(u)
    BY <1>4, <2>2, CutAndSet DEF Tree
  <2> HIDE DEF u
  <2>5. /\ n[1] \in Nat /\ n[2] \in Nat /\ Size[n[1]] \in Nat \ {0}
        /\ PagesOf(n) = n[2] .. n[2] + Size[n[1]] - 1 /\ PagesOf(n) \subseteq Page
    <3>1. n[1] \in Nat /\ n[2] \in Nat
      BY <2>2, TNodeFields
    <3>2. Size[n[1]] \in Nat \ {0}
      BY <3>1, SizeOf
    <3> QED BY <2>2, <3>1, <3>2, PagesWithin DEF PagesOf
  <2>6. b.next \in Nat /\ b.next >= first + (i + 1) /\ i + 1 > 0 /\ i + 1 # 0
    BY <1>1, <2>3, <2>5
  <2>7. n = <<0, p>> => PagesOf(n) = {p} /\ n[2] = p /\ Size[n[1]] = 1
    <3>1. PagesOf(<<0, p>>) = {p} /\ Size[0] = 1
      BY <1>3, PageNode
    <3> QED BY <3>1
  <2>8. CASE i = 0
    <3>1. p = first
      BY <2>8
    <3>2. n = <<0, p>>
      BY <2>2, <3>1
    <3>3. PagesOf(n) = {first} /\ b.next = first + 1
      BY <2>3, <2>7, <3>1, <3>2
    <3>4. FlagOf(u, first) = f
      BY <1>3, <2>4, <3>3
    <3>5. ASSUME NEW q \in Page
          PROVE  FlagOf(u, q) = FlagOf(t, q) \/ (q >= first /\ q < end /\ FlagOf(u, q) = f)
      <4>1. CASE q = first
        BY <1>1, <3>1, <3>4, <4>1
      <4>2. CASE q # first
        <5>1. FlagOf(u, q) = FlagOf(a.tree, q)
          BY <2>4, <3>3, <4>2
        <5>2. FlagOf(a.tree, q) = FlagOf(t, q) \/ (q >= first /\ q < end /\ FlagOf(a.tree, q) = f)
          BY DEF Marked
        <5> QED BY <5>1, <5>2
      <4> QED BY <4>1, <4>2
    <3>6. ASSUME NEW q \in Page, first <= q, q < b.next PROVE q < end /\ FlagOf(u, q) = f
      <4>1. q = first
        BY <1>2, <3>3, <3>6, PagesAreNumbers
      <4> QED BY <1>1, <3>1, <3>4, <4>1
    <3>7. ASSUME f.st # {"free"}, NEW l \in Leaves(u), b.next - 1 \in PagesOf(l), b.next \in PagesOf(l) PROVE FALSE
      <4>1. b.next - 1 \in PagesOf(n) /\ b.next \notin PagesOf(n)
        BY <3>3
      <4> QED BY <2>4, <3>7, <4>1, LeafOfLeaf
    <3> QED BY <2>3, <2>4, <2>6, <3>4, <3>5, <3>6, <3>7 DEF Marked, b
  <2>9. CASE i # 0
    <3>1. FlagOf(a.tree, first) = f /\ i > 0 /\ p # first /\ p > first
      BY <2>9 DEF Marked
    <3>2. FlagOf(u, first) = f
      BY <1>3, <2>4, <3>1
    <3>3. \A q \in PagesOf(n) : q < end
      <4>1. CASE n = <<0, p>>
        BY <1>1, <2>7, <4>1
      <4>2. CASE ~(n[2] + Size[n[1]] > end)
        BY <1>1, <2>5, <4>2
      <4> QED BY <2>2, <4>1, <4>2
    <3>4. ASSUME NEW q \in PagesOf(n), q < first PROVE FlagOf(a.tree, q) = f
      <4>1. n = LeafOf(a.tree, p)
        BY <1>1, <2>2, <2>7, <3>1, <3>4
      <4>2. n \in Leaves(a.tree)
        BY <1>3, <1>4, <4>1, LeafFacts
      <4>3. first \in PagesOf(n)
        <5>1. n[2] <= q /\ p <= n[2] + Size[n[1]] - 1 /\ q \in Nat
          BY <2>2, <2>5
        <5>2. n[2] <= first /\ first <= n[2] + Size[n[1]] - 1
          BY <1>1, <2>5, <3>1, <3>4, <5>1
        <5> QED BY <1>1, <2>5, <5>2
      <4>4. LeafOf(a.tree, q) = n /\ LeafOf(a.tree, first) = n
        BY <1>4, <4>2, <4>3, LeafOfLeaf
      <4> QED BY <3>1, <4>4 DEF FlagOf
    <3>5. ASSUME NEW q \in Page
          PROVE  FlagOf(u, q) = FlagOf(t, q) \/ (q >= first /\ q < end /\ FlagOf(u, q) = f)
      <4>1. FlagOf(a.tree, q) = FlagOf(t, q) \/ (q >= first /\ q < end /\ FlagOf(a.tree, q) = f)
        BY DEF Marked
      <4>2. CASE q \notin PagesOf(n)
        BY <2>4, <4>1, <4>2
      <4>3. CASE q \in PagesOf(n) /\ q < first
        <5>1. q \in Nat
          BY PagesAreNumbers
        <5>2. FlagOf(a.tree, q) = FlagOf(t, q)
          BY <4>1, <4>3, <5>1
        <5> QED BY <2>4, <3>4, <4>3, <5>2
      <4>4. CASE q \in PagesOf(n) /\ ~(q < first)
        <5>1. q \in Nat
          BY PagesAreNumbers
        <5> QED BY <2>4, <3>3, <4>4, <5>1
      <4> QED BY <4>2, <4>3, <4>4
    <3>6. ASSUME f.st # {"free"} PROVE n[2] = p
      <4>1. CASE n = <<0, p>>
        BY <4>1
      <4>2. CASE n = LeafOf(a.tree, p)
        <5>1. n \in Leaves(a.tree)
          BY <1>3, <1>4, <4>2, LeafFacts
        <5>2. ~(a.next - 1 \in PagesOf(n) /\ a.next \in PagesOf(n))
          BY <3>1, <3>6, <5>1 DEF Marked
        <5>3. p - 1 \notin PagesOf(n)
          BY <2>1, <2>2, <5>2
        <5>4. p \in n[2] .. n[2] + Size[n[1]] - 1 /\ p - 1 \notin n[2] .. n[2] + Size[n[1]] - 1
          BY <2>2, <2>5, <5>3
        <5>5. n[2] \in Nat /\ Size[n[1]] \in Nat
          BY <2>5
        <5> QED BY <1>1, <5>4, <5>5
      <4> QED BY <2>2, <4>1, <4>2
    <3>7. ASSUME f.st # {"free"}, NEW q \in Page, first <= q, q < b.next PROVE q < end /\ FlagOf(u, q) = f
      <4>1. n[2] = p /\ q \in Nat
        BY <3>6, <3>7, PagesAreNumbers
      <4>2. CASE q < p
        <5>1. q < end /\ FlagOf(a.tree, q) = f
          BY <2>1, <3>7, <4>2 DEF Marked
        <5> QED BY <2>4, <5>1
      <4>3. CASE ~(q < p)
        <5>1. q \in PagesOf(n)
          BY <1>1, <2>3, <2>5, <3>7, <4>1, <4>3
        <5> QED BY <2>4, <3>3, <5>1
      <4> QED BY <4>2, <4>3
    <3>8. ASSUME f.st # {"free"}, NEW l \in Leaves(u), b.next - 1 \in PagesOf(l), b.next \in PagesOf(l) PROVE FALSE
      <4>1. n[2] = p
        BY <3>6, <3>8
      <4>2. b.next - 1 \in PagesOf(n) /\ b.next \notin PagesOf(n)
        <5> DEFINE z == Size[n[1]]
        <5>1. z \in Nat \ {0} /\ p \in Nat /\ PagesOf(n) = p .. p + z - 1 /\ b.next = p + z
          BY <1>1, <2>3, <2>5, <4>1
        <5> HIDE DEF z
        <5>2. p + z - 1 \in p .. p + z - 1 /\ p + z \notin p .. p + z - 1
          BY <5>1
        <5> QED BY <5>1, <5>2
      <4> QED BY <2>4, <3>8, <4>2, LeafOfLeaf
    <3> QED BY <2>3, <2>4, <2>6, <3>2, <3>5, <3>7, <3>8 DEF Marked, b
  <2> QED BY <2>8, <2>9
<1> QED BY <1>5, <1>6

(* The walk of ba_mark_pages over a range.                                 *)

InMemory(first, count) == first \in Nat /\ count \in Nat /\ first + count <= Size[MaxOrder]

Runs(r, s, first, count, f, bypass) ==
  /\ r[0] = [tree |-> s.tree, ok |-> s.ok, next |-> first]
  /\ \A i \in 1 .. count : r[i] = MarkStep(r[i - 1], first + i - 1, first, first + count, f, bypass)

\* The steps of ba_mark_pages are well defined.
LEMMA MarkRuns ==
  ASSUME NEW s, Tree(s.tree), Merged(s.tree), s.ok \in BOOLEAN, NEW first, NEW count, InMemory(first, count),
         NEW f \in LeafFlags, NEW bypass
  PROVE  \E r : /\ Runs(r, s, first, count, f, bypass)
                /\ r[count] \in MarkStates
                /\ MarkPages(s, first, count, f, bypass)
                     = [tree |-> r[count].tree, ok |-> r[count].ok]
<1> DEFINE S == MarkStates
           start == [tree |-> s.tree, ok |-> s.ok, next |-> first]
           end == first + count
           next == [x \in Nat \X S |-> IF first + x[1] - 1 \in Page
                                       THEN MarkStep(x[2], first + x[1] - 1, first, end, f, bypass)
                                       ELSE x[2]]
           F(g) == [i \in 0 .. count |-> IF i = 0 THEN start
                                         ELSE MarkStep(g[i - 1], first + i - 1, first, end, f, bypass)]
<1>1. first \in Nat /\ count \in Nat /\ first + count <= Size[MaxOrder] /\ Size[MaxOrder] \in Nat
  BY OrdersAreNumbers, SizeOf DEF InMemory
<1>2. start \in S
  <2>1. s.tree \in FlagMaps
    BY TreesAreMaps DEF Tree, Shape
  <2> QED BY <1>1, <2>1 DEF MarkStates
<1>3. next \in [Nat \X S -> S]
  <2>1. ASSUME NEW x \in Nat \X S, first + x[1] - 1 \in Page
        PROVE  MarkStep(x[2], first + x[1] - 1, first, end, f, bypass) \in S
    BY <2>1, MarkStepStays
  <2> HIDE DEF S, end
  <2> QED BY <2>1
<1> HIDE DEF S, start
<1>4. PICK h \in [0 .. count -> S] : Follows(h, count, start, next)
  <2> HIDE DEF next
  <2> QED BY <1>1, <1>2, <1>3, PrefixExists DEF HasPrefix
<1>5. ASSUME NEW i \in 1 .. count
      PROVE  h[i] = MarkStep(h[i - 1], first + i - 1, first, end, f, bypass)
  <2>1. i \in Nat /\ i - 1 \in 0 .. count
    BY <1>1
  <2>2. h[i] = next[<<i, h[i - 1]>>] /\ h[i - 1] \in S
    BY <1>4, <2>1 DEF Follows
  <2>3. <<i, h[i - 1]>> \in Nat \X S
    BY <2>1, <2>2
  <2>4. first + i - 1 \in Page
    BY <1>1, <2>1 DEF Page
  <2> HIDE DEF next, end
  <2>5. next[<<i, h[i - 1]>>] = MarkStep(h[i - 1], first + i - 1, first, end, f, bypass)
    BY <2>3, <2>4 DEF next
  <2> QED BY <2>2, <2>5
<1>6. h[0] = start
  BY <1>4 DEF Follows
<1> HIDE DEF next, end
<1>7. h = F(h)
  <2>1. ASSUME NEW i \in 0 .. count PROVE h[i] = F(h)[i]
    <3>1. CASE i = 0
      BY <1>6, <3>1
    <3>2. CASE i # 0
      <4>1. i \in 1 .. count
        BY <1>1, <3>2
      <4> QED BY <1>5, <3>2, <4>1
    <3> QED BY <3>1, <3>2
  <2>2. h = [i \in 0 .. count |-> h[i]] /\ F(h) = [i \in 0 .. count |-> F(h)[i]]
    <3>1. F(h) = [i \in 0 .. count |-> F(h)[i]]
      OBVIOUS
    <3> HIDE DEF F
    <3> QED BY <3>1
  <2> HIDE DEF F
  <2> QED BY <2>1, <2>2
<1> DEFINE run == CHOOSE g : g = F(g)
<1>8. run = F(run)
  <2> HIDE DEF F
  <2> QED BY <1>7
<1>9. MarkPages(s, first, count, f, bypass)
        = [tree |-> run[count].tree, ok |-> run[count].ok]
  BY DEF MarkPages, start, end
<1> HIDE DEF run
<1>10. run[0] = start
  BY <1>1, <1>8
<1>11. ASSUME NEW i \in 1 .. count
       PROVE  run[i] = MarkStep(run[i - 1], first + i - 1, first, end, f, bypass)
  <2>1. i \in 0 .. count /\ i # 0
    BY <1>1
  <2>2. F(run)[i] = MarkStep(run[i - 1], first + i - 1, first, end, f, bypass)
    BY <2>1
  <2> HIDE DEF F
  <2> QED BY <1>8, <2>2
<1>12. run[count] \in S
  <2> DEFINE T == {i \in Nat : i <= count => run[i] \in S}
  <2>1. 0 \in T
    BY <1>2, <1>10
  <2>2. ASSUME NEW i \in Nat, i \in T PROVE i + 1 \in T
    <3> SUFFICES ASSUME i + 1 <= count PROVE run[i + 1] \in S
      OBVIOUS
    <3>1. i + 1 \in 1 .. count /\ (i + 1) - 1 = i /\ first + (i + 1) - 1 \in Page /\ i <= count
      BY <1>1 DEF Page
    <3>2. run[i + 1] = MarkStep(run[i], first + (i + 1) - 1, first, end, f, bypass)
      BY <1>11, <3>1
    <3>3. run[i] \in S
      BY <2>2, <3>1
    <3> QED BY <3>1, <3>2, <3>3, MarkStepStays DEF S
  <2>3. Nat \subseteq T
    <3> HIDE DEF T
    <3> QED BY <2>1, <2>2, Induct
  <2> QED BY <1>1, <2>3
<1>13. Runs(run, s, first, count, f, bypass)
  BY <1>10, <1>11 DEF Runs, start, end
<1> QED BY <1>9, <1>12, <1>13 DEF S

\* What ba_mark_pages does: pages outside the range keep their flags, pages in
\* it keep them or get the new ones; they all get them unless those are free.
LEMMA MarkEffect ==
  ASSUME NEW s, Tree(s.tree), Merged(s.tree), s.ok \in BOOLEAN, NEW first, NEW count, InMemory(first, count),
         NEW f \in LeafFlags, NEW bypass
  PROVE  LET u == MarkPages(s, first, count, f, bypass) IN
         /\ u \in [tree : FlagMaps, ok : BOOLEAN] /\ Tree(u.tree) /\ Merged(u.tree)
         /\ \A q \in Page : \/ FlagOf(u.tree, q) = FlagOf(s.tree, q)
                            \/ q >= first /\ q < first + count /\ FlagOf(u.tree, q) = f
         /\ f.st # {"free"} => \A q \in Page : q >= first /\ q < first + count => FlagOf(u.tree, q) = f
<1>1. first \in Nat /\ count \in Nat /\ first + count <= Size[MaxOrder] /\ first + count \in Nat
  BY DEF InMemory
<1>2. PICK r : /\ Runs(r, s, first, count, f, bypass)
               /\ r[count] \in MarkStates
               /\ MarkPages(s, first, count, f, bypass)
                    = [tree |-> r[count].tree, ok |-> r[count].ok]
  BY MarkRuns
<1> DEFINE end == first + count
           u == MarkPages(s, first, count, f, bypass)
           T == {i \in Nat : i <= count => Marked(s.tree, r[i], i, first, end, f)}
<1>3. 0 \in T
  <2>1. r[0].tree = s.tree /\ r[0].next = first
    BY <1>2 DEF Runs
  <2>2. Marked(s.tree, r[0], 0, first, end, f)
    <3>1. \A q \in Page : ~(first <= q /\ q < first)
      BY <1>1, PagesAreNumbers
    <3> HIDE DEF end
    <3> QED BY <1>1, <2>1, <3>1 DEF Marked
  <2> QED BY <2>2
<1>4. ASSUME NEW i \in Nat, i \in T PROVE i + 1 \in T
  <2> SUFFICES ASSUME i + 1 <= count PROVE Marked(s.tree, r[i + 1], i + 1, first, end, f)
    OBVIOUS
  <2>1. i + 1 \in 1 .. count /\ (i + 1) - 1 = i /\ first + (i + 1) - 1 = first + i /\ i <= count
        /\ first + i < end
    BY <1>1
  <2>2. r[i + 1] = MarkStep(r[i], first + i, first, end, f, bypass)
    BY <1>2, <2>1 DEF Runs
  <2>3. Marked(s.tree, r[i], i, first, end, f)
    BY <1>4, <2>1
  <2> HIDE DEF end
  <2>4. end \in Nat /\ end <= Size[MaxOrder]
    BY <1>1 DEF end
  <2> QED BY <1>1, <2>1, <2>2, <2>3, <2>4, MarkStepEffect
<1>5. Nat \subseteq T
  <2> HIDE DEF T
  <2> QED BY <1>3, <1>4, Induct
<1>6. Marked(s.tree, r[count], count, first, end, f)
  BY <1>1, <1>5
<1>7. u.tree = r[count].tree /\ u = [tree |-> r[count].tree, ok |-> r[count].ok]
  BY <1>2
<1>8. u \in [tree : FlagMaps, ok : BOOLEAN]
  BY <1>2, <1>7 DEF MarkStates
<1> HIDE DEF u
<1>9. Tree(u.tree) /\ Merged(u.tree)
  BY <1>6, <1>7 DEF Marked
<1>10. \A q \in Page : \/ FlagOf(u.tree, q) = FlagOf(s.tree, q)
                       \/ q >= first /\ q < first + count /\ FlagOf(u.tree, q) = f
  BY <1>6, <1>7 DEF Marked
<1>11. ASSUME f.st # {"free"}, NEW q \in Page, q >= first, q < first + count PROVE FlagOf(u.tree, q) = f
  <2>1. r[count].next \in Nat /\ r[count].next >= first + count /\ q \in Nat
    BY <1>6, PagesAreNumbers DEF Marked
  <2>2. q < r[count].next
    BY <1>1, <1>11, <2>1
  <2> QED BY <1>6, <1>7, <1>11, <2>2 DEF Marked
<1> QED BY <1>8, <1>9, <1>10, <1>11 DEF u

(* initialize_buddy_allocator.                                             *)

MarkResults == {a \in [tree : FlagMaps, ok : BOOLEAN] : Tree(a.tree) /\ Merged(a.tree)}

Region == [lo : Nat, hi : Nat, type : STRING]

IsRegion(r) ==
  /\ r \in Region
  /\ r.lo < r.hi /\ r.hi > 2 /\ r.hi <= 2 * Size[MaxOrder]

MarkFirst(r) == IF FirstPage(r) = 0 THEN 1 ELSE FirstPage(r)

\* The pages of a region of the map, rounded outward.
LEMMA RegionRange ==
  ASSUME NEW r, IsRegion(r)
  PROVE  /\ InMemory(MarkFirst(r), EndPage(r) - MarkFirst(r)) /\ MarkFirst(r) \in Nat /\ MarkFirst(r) >= 1
         /\ EndPage(r) \in Nat /\ MarkFirst(r) + (EndPage(r) - MarkFirst(r)) = EndPage(r)
         /\ \A p \in Nat : p # 0 /\ 2 * p < r.hi /\ 2 * p + 2 > r.lo => p >= MarkFirst(r) /\ p < EndPage(r)
         /\ \A p \in Nat : p >= MarkFirst(r) /\ p < EndPage(r) => 2 * p < r.hi /\ 2 * p + 2 > r.lo
<1> DEFINE lo == r.lo
           hi == r.hi
           s == Size[MaxOrder]
<1>1. lo \in Nat /\ hi \in Nat /\ lo < hi /\ hi > 2 /\ hi <= 2 * s /\ s \in Nat
  BY OrdersAreNumbers, SizeOf DEF IsRegion, Region
<1>2. FirstPage(r) = lo \div 2 /\ EndPage(r) = (hi + 1) \div 2
  BY DEF FirstPage, EndPage
<1> HIDE DEF lo, hi, s
<1> DEFINE x == lo \div 2
           y == (hi + 1) \div 2
<1>3. x \in Nat /\ y \in Nat /\ 2 * x <= lo /\ lo <= 2 * x + 1 /\ hi <= 2 * y /\ 2 * y <= hi + 1
  BY <1>1
<1> HIDE DEF x, y
<1>5. MarkFirst(r) = IF x = 0 THEN 1 ELSE x
  BY <1>2 DEF MarkFirst, x
<1> DEFINE f == MarkFirst(r)
<1>6. f \in Nat /\ f >= 1 /\ f >= x /\ f <= y /\ y <= s
  BY <1>1, <1>3, <1>5
<1>7. ASSUME NEW p \in Nat, p # 0, 2 * p < hi, 2 * p + 2 > lo PROVE p >= f /\ p < y
  BY <1>1, <1>3, <1>5, <1>7
<1>8. ASSUME NEW p \in Nat, p >= f, p < y PROVE 2 * p < hi /\ 2 * p + 2 > lo
  BY <1>1, <1>3, <1>6, <1>8
<1> HIDE DEF f
<1>9. y - f \in Nat /\ f + (y - f) = y
  BY <1>3, <1>6
<1>10. InMemory(f, y - f)
  BY <1>6, <1>9 DEF InMemory, s
<1> QED BY <1>2, <1>3, <1>6, <1>7, <1>8, <1>9, <1>10 DEF f, y, lo, hi

\* Only usable regions become free RAM.
LEMMA RegionFlagsAre ==
  ASSUME NEW type
  PROVE  /\ RegionFlags(type) \in LeafFlags /\ RegionFlags(type) # UsedRam
         /\ type # "free" => RegionFlags(type).st # {"free"} /\ RegionFlags(type) # FreeRam
<1>1. \A st \in Status, mp \in Mapping : Flag(st, mp) \in LeafFlags
  BY DEF Flag, LeafFlags, Flags
<1>2. [st |-> {}, mp |-> {"ram"}] \in LeafFlags
  BY DEF LeafFlags, Flags, Mapping
<1>3. RegionFlags(type) \in LeafFlags
  BY <1>1, <1>2, ConstantFlags DEF RegionFlags, Status, Mapping
<1>4. ASSUME type # "free" PROVE RegionFlags(type).st = {"blocked"} \/ RegionFlags(type).st = {}
  BY <1>4 DEF RegionFlags, Flag
<1>5. {"blocked"} # {"free"} /\ {} # {"free"}
  OBVIOUS
<1>6. FreeRam.st = {"free"}
  BY ConstantFlags
<1>7. RegionFlags(type) # UsedRam
  <2>1. type = "free" => RegionFlags(type) = FreeRam
    BY DEF RegionFlags
  <2>2. UsedRam.st = {"used"} /\ {"used"} # {"free"} /\ {"used"} # {"blocked"} /\ {"used"} # {}
    BY ConstantFlags
  <2> QED BY <1>4, <1>6, <2>1, <2>2
<1> QED BY <1>3, <1>4, <1>5, <1>6, <1>7

\* An entry of the map changes the flags of its pages alone.
LEMMA RegionEffect ==
  ASSUME NEW a \in MarkResults, NEW r, IsRegion(r)
  PROVE  LET b == MarkRegion(a, r) IN
         /\ b \in MarkResults
         /\ \A q \in Page : \/ FlagOf(b.tree, q) = FlagOf(a.tree, q)
                            \/ /\ q >= MarkFirst(r) /\ q < EndPage(r)
                               /\ FlagOf(b.tree, q) = RegionFlags(r.type)
         /\ r.type # "free" => \A q \in Page : q >= MarkFirst(r) /\ q < EndPage(r)
                                                 => FlagOf(b.tree, q) = RegionFlags(r.type)
<1> DEFINE first == MarkFirst(r)
           count == EndPage(r) - first
           f == RegionFlags(r.type)
           yes == TRUE
           b == MarkPages(a, first, count, f, yes)
<1>1. MarkRegion(a, r) = b
  BY DEF MarkRegion, MarkFirst
<1>2. InMemory(first, count) /\ first + count = EndPage(r)
  BY RegionRange
<1>3. f \in LeafFlags /\ (r.type # "free" => f.st # {"free"})
  BY RegionFlagsAre
<1>4. Tree(a.tree) /\ Merged(a.tree) /\ a.ok \in BOOLEAN
  BY DEF MarkResults
<1> HIDE DEF first, count, f, yes
<1>5. /\ b \in [tree : FlagMaps, ok : BOOLEAN] /\ Tree(b.tree) /\ Merged(b.tree)
      /\ \A q \in Page : \/ FlagOf(b.tree, q) = FlagOf(a.tree, q)
                         \/ q >= first /\ q < first + count /\ FlagOf(b.tree, q) = f
      /\ f.st # {"free"} => \A q \in Page : q >= first /\ q < first + count => FlagOf(b.tree, q) = f
  BY <1>2, <1>3, <1>4, MarkEffect
<1> HIDE DEF b
<1>6. b \in MarkResults
  BY <1>5 DEF MarkResults
<1> QED BY <1>1, <1>2, <1>3, <1>5, <1>6 DEF first, f

SectionRange(r) == r.first \in Nat /\ r.count \in Nat /\ r.first + r.count <= Size[MaxOrder]

\* A section of the kernel is used afterwards.
LEMMA SectionEffect ==
  ASSUME NEW a \in MarkResults, NEW r, SectionRange(r)
  PROVE  LET b == MarkSection(a, r) IN
         /\ b \in MarkResults
         /\ \A q \in Page : \/ FlagOf(b.tree, q) = FlagOf(a.tree, q)
                            \/ q >= r.first /\ q < r.first + r.count /\ FlagOf(b.tree, q) = UsedRam
         /\ \A q \in Page : q >= r.first /\ q < r.first + r.count => FlagOf(b.tree, q) = UsedRam
<1> DEFINE no == FALSE
           b == MarkPages(a, r.first, r.count, UsedRam, no)
<1>1. MarkSection(a, r) = b
  BY DEF MarkSection
<1> HIDE DEF no
<1>2. InMemory(r.first, r.count)
  BY DEF InMemory, SectionRange
<1>3. UsedRam \in LeafFlags /\ UsedRam.st # {"free"}
  <2>1. {"used"} # {"free"}
    OBVIOUS
  <2> QED BY <2>1, ConstantFlags
<1>4. Tree(a.tree) /\ Merged(a.tree) /\ a.ok \in BOOLEAN
  BY DEF MarkResults
<1>5. /\ b \in [tree : FlagMaps, ok : BOOLEAN] /\ Tree(b.tree) /\ Merged(b.tree)
      /\ \A q \in Page : \/ FlagOf(b.tree, q) = FlagOf(a.tree, q)
                         \/ q >= r.first /\ q < r.first + r.count /\ FlagOf(b.tree, q) = UsedRam
      /\ UsedRam.st # {"free"} =>
           \A q \in Page : q >= r.first /\ q < r.first + r.count => FlagOf(b.tree, q) = UsedRam
  BY <1>2, <1>3, <1>4, MarkEffect
<1> HIDE DEF b
<1>6. b \in MarkResults
  BY <1>5 DEF MarkResults
<1> QED BY <1>1, <1>3, <1>5, <1>6

(* The tree before the map is entered.                                     *)

NullState == MarkPages([tree |-> [n \in {Root} |-> Flag("free", "unmapped")], ok |-> TRUE], 0, 1,
                       Flag("blocked", "unmapped"), TRUE)

\* Page 0 is blocked before the map is entered, and no page is RAM.
LEMMA NullEffect ==
  /\ NullState \in MarkResults /\ FlagOf(NullState.tree, 0) # FreeRam
  /\ \A p \in Page : FlagOf(NullState.tree, p) \notin {FreeRam, UsedRam}
<1> DEFINE t == [n \in {Root} |-> Flag("free", "unmapped")]
           s == [tree |-> t, ok |-> TRUE]
           f == Flag("blocked", "unmapped")
<1>1. Flag("free", "unmapped") \in LeafFlags /\ f \in LeafFlags /\ Flag("free", "unmapped") \in Flags
  BY DEF LeafFlags, Flags, Flag, Status, Mapping
<1>2. Root \in TNode /\ DOMAIN t = {Root} /\ t[Root] = Flag("free", "unmapped")
  BY RootIsNode
<1>3. t \in [DOMAIN t -> Flags]
  BY <1>1
<1> HIDE DEF t
<1>4. Shape(t)
  BY <1>2 DEF Shape
<1>5. ASSUME Root[1] # 0 PROVE \A k \in Children(Root) : k \notin DOMAIN t
  <2>1. \A k \in Children(Root) : k # Root
    BY <1>2, <1>5, ChildNodes
  <2> QED BY <1>2, <2>1
<1>6. Root \in Leaves(t)
  <2> SUFFICES ASSUME Root \notin Leaves(t) PROVE FALSE
    OBVIOUS
  <2>1. Root[1] # 0 /\ Children(Root) \subseteq DOMAIN t
    BY <1>2, <1>4, LeafOrKids
  <2>2. \E k \in Children(Root) : TRUE
    BY <1>2, <2>1, ChildNodes
  <2> QED BY <1>5, <2>1, <2>2
<1>7. \A n \in Leaves(t) : n = Root
  BY <1>2 DEF Leaves
<1>8. Tree(t)
  BY <1>1, <1>2, <1>3, <1>4, <1>6, <1>7 DEF Tree
<1>9. Merged(t)
  <2> SUFFICES ASSUME Mergeable(t, Root) PROVE FALSE
    BY <1>2 DEF Merged
  <2>1. Root[1] # 0 /\ \A k \in Children(Root) : k \in Leaves(t)
    BY DEF Mergeable
  <2>2. \E k \in Children(Root) : k # Root
    BY <1>2, <2>1, ChildNodes
  <2> QED BY <1>7, <2>1, <2>2
<1>10. Tree(s.tree) /\ Merged(s.tree) /\ s.ok \in BOOLEAN
  <2>1. s.tree = t /\ s.ok = TRUE
    OBVIOUS
  <2> HIDE DEF s
  <2> QED BY <1>8, <1>9, <2>1
<1> HIDE DEF s
<1>11. InMemory(0, 1) /\ 0 \in Page
  <2>1. Size[MaxOrder] \in Nat \ {0}
    BY OrdersAreNumbers, SizeOf
  <2> QED BY <2>1, PagesAreNumbers DEF InMemory
<1>12. f.st = {"blocked"} /\ {"blocked"} # {"free"}
  BY DEF Flag
<1> HIDE DEF f
<1> DEFINE yes == TRUE
           u == MarkPages(s, 0, 1, f, yes)
<1>14. NullState = u
  BY DEF NullState, s, t, f
<1> HIDE DEF yes
<1>13. /\ u \in [tree : FlagMaps, ok : BOOLEAN] /\ Tree(u.tree) /\ Merged(u.tree)
       /\ f.st # {"free"} => \A q \in Page : q >= 0 /\ q < 0 + 1 => FlagOf(u.tree, q) = f
       /\ \A q \in Page : FlagOf(u.tree, q) = FlagOf(s.tree, q) \/ FlagOf(u.tree, q) = f
  BY <1>1, <1>10, <1>11, MarkEffect
<1> HIDE DEF u
<1>15. FlagOf(u.tree, 0) = f
  BY <1>11, <1>12, <1>13
<1>16. f # FreeRam /\ f # UsedRam /\ Flag("free", "unmapped") \notin {FreeRam, UsedRam}
  BY <1>12 DEF Flag, FreeRam, UsedRam
<1>17. \A q \in Page : FlagOf(s.tree, q) = Flag("free", "unmapped")
  <2> TAKE q \in Page
  <2>1. LeafOf(t, q) \in Leaves(t)
    BY <1>4, <1>8, LeafFacts DEF Tree
  <2>2. s.tree = t
    BY DEF s
  <2> QED BY <1>2, <1>7, <2>1, <2>2 DEF FlagOf
<1>18. \A p \in Page : FlagOf(u.tree, p) \notin {FreeRam, UsedRam}
  BY <1>13, <1>16, <1>17
<1> QED BY <1>13, <1>14, <1>15, <1>16, <1>18 DEF MarkResults

(* The loops of initialize_buddy_allocator.                                *)

\* The loop over the map is well defined.
LEMMA RegionRuns ==
  ASSUME NEW m, m \in Seq(Region), \A i \in DOMAIN m : IsRegion(m[i]), NEW null \in MarkResults
  PROVE  \E g : g = [i \in 0 .. Len(m) |-> IF i = 0 THEN null ELSE MarkRegion(g[i - 1], m[i])]
<1> DEFINE next == [x \in Nat \X MarkResults |->
                      IF x[1] \in DOMAIN m THEN MarkRegion(x[2], m[x[1]]) ELSE x[2]]
           F(g) == [i \in 0 .. Len(m) |-> IF i = 0 THEN null ELSE MarkRegion(g[i - 1], m[i])]
<1>1. Len(m) \in Nat /\ DOMAIN m = 1 .. Len(m)
  OBVIOUS
<1>2. next \in [Nat \X MarkResults -> MarkResults]
  <2>1. \A x \in Nat \X MarkResults : x[1] \in DOMAIN m => MarkRegion(x[2], m[x[1]]) \in MarkResults
    BY RegionEffect
  <2> QED BY <2>1
<1>3. PICK h \in [0 .. Len(m) -> MarkResults] : Follows(h, Len(m), null, next)
  <2> HIDE DEF next
  <2> QED BY <1>1, <1>2, PrefixExists DEF HasPrefix
<1>4. ASSUME NEW i \in 0 .. Len(m) PROVE h[i] = IF i = 0 THEN null ELSE MarkRegion(h[i - 1], m[i])
  <2>1. CASE i = 0
    BY <1>3, <2>1 DEF Follows
  <2>2. CASE i # 0
    <3>1. i \in 1 .. Len(m) /\ i \in Nat /\ i - 1 \in 0 .. Len(m)
      BY <1>1, <2>2
    <3>2. h[i] = next[<<i, h[i - 1]>>] /\ h[i - 1] \in MarkResults
      BY <1>3, <3>1 DEF Follows
    <3>3. <<i, h[i - 1]>> \in Nat \X MarkResults
      BY <3>1, <3>2
    <3> HIDE DEF next
    <3>4. next[<<i, h[i - 1]>>] = MarkRegion(h[i - 1], m[i])
      BY <1>1, <3>1, <3>3 DEF next
    <3> QED BY <2>2, <3>2, <3>4
  <2> QED BY <2>1, <2>2
<1>5. h = F(h)
  BY <1>4
<1> QED BY <1>5

\* The loop over the sections is well defined.
LEMMA SectionRuns ==
  ASSUME NEW m, m \in Seq([first : Nat, count : Nat]), \A i \in DOMAIN m : SectionRange(m[i]), NEW from \in MarkResults
  PROVE  \E g : g = [i \in 0 .. Len(m) |-> IF i = 0 THEN from ELSE MarkSection(g[i - 1], m[i])]
<1> DEFINE next == [x \in Nat \X MarkResults |->
                      IF x[1] \in DOMAIN m THEN MarkSection(x[2], m[x[1]]) ELSE x[2]]
           F(g) == [i \in 0 .. Len(m) |-> IF i = 0 THEN from ELSE MarkSection(g[i - 1], m[i])]
<1>1. Len(m) \in Nat /\ DOMAIN m = 1 .. Len(m)
  OBVIOUS
<1>2. next \in [Nat \X MarkResults -> MarkResults]
  <2>1. \A x \in Nat \X MarkResults : x[1] \in DOMAIN m => MarkSection(x[2], m[x[1]]) \in MarkResults
    BY SectionEffect
  <2> QED BY <2>1
<1>3. PICK h \in [0 .. Len(m) -> MarkResults] : Follows(h, Len(m), from, next)
  <2> HIDE DEF next
  <2> QED BY <1>1, <1>2, PrefixExists DEF HasPrefix
<1>4. ASSUME NEW i \in 0 .. Len(m) PROVE h[i] = IF i = 0 THEN from ELSE MarkSection(h[i - 1], m[i])
  <2>1. CASE i = 0
    BY <1>3, <2>1 DEF Follows
  <2>2. CASE i # 0
    <3>1. i \in 1 .. Len(m) /\ i \in Nat /\ i - 1 \in 0 .. Len(m)
      BY <1>1, <2>2
    <3>2. h[i] = next[<<i, h[i - 1]>>] /\ h[i - 1] \in MarkResults
      BY <1>3, <3>1 DEF Follows
    <3>3. <<i, h[i - 1]>> \in Nat \X MarkResults
      BY <3>1, <3>2
    <3> HIDE DEF next
    <3>4. next[<<i, h[i - 1]>>] = MarkSection(h[i - 1], m[i])
      BY <1>1, <3>1, <3>3 DEF next
    <3> QED BY <2>2, <3>2, <3>4
  <2> QED BY <2>1, <2>2
<1>5. h = F(h)
  BY <1>4
<1> QED BY <1>5

\* After the first i regions: what they reserve, and page 0, is not free RAM.
Kept(t, m, i) ==
  /\ FlagOf(t, 0) # FreeRam
  /\ \A j \in 1 .. i : \A p \in Covers(m[j]) :
       /\ ~IsFree(m[j])
       /\ \A k \in 1 .. i : k > j /\ IsFree(m[k]) => p \notin Covers(m[k])
       => FlagOf(t, p) # FreeRam

\* A later region does not free what an earlier one reserved, unless it shares
\* the page.
LEMMA RegionKeeps ==
  ASSUME NEW m, m \in Seq(Region), \A j \in DOMAIN m : IsRegion(m[j]),
         NEW a \in MarkResults, NEW i \in Nat, i + 1 <= Len(m), Kept(a.tree, m, i)
  PROVE  Kept(MarkRegion(a, m[i + 1]).tree, m, i + 1)
<1> DEFINE r == m[i + 1]
           b == MarkRegion(a, r)
           f == RegionFlags(r.type)
<1>1. i + 1 \in DOMAIN m /\ DOMAIN m = 1 .. Len(m) /\ Len(m) \in Nat /\ \A j \in DOMAIN m : m[j] \in Region
  OBVIOUS
<1>2. IsRegion(r) /\ r \in Region
  BY <1>1
<1> HIDE DEF r
<1>3. /\ \A q \in Page : \/ FlagOf(b.tree, q) = FlagOf(a.tree, q)
                         \/ q >= MarkFirst(r) /\ q < EndPage(r) /\ FlagOf(b.tree, q) = f
      /\ r.type # "free" => \A q \in Page : q >= MarkFirst(r) /\ q < EndPage(r) => FlagOf(b.tree, q) = f
  BY <1>2, RegionEffect
<1>4. r.type # "free" => f # FreeRam
  BY RegionFlagsAre
<1> HIDE DEF b, f
<1>5. /\ MarkFirst(r) \in Nat /\ MarkFirst(r) >= 1
      /\ \A p \in Nat : p # 0 /\ 2 * p < r.hi /\ 2 * p + 2 > r.lo => p >= MarkFirst(r) /\ p < EndPage(r)
      /\ \A p \in Nat : p >= MarkFirst(r) /\ p < EndPage(r) => 2 * p < r.hi /\ 2 * p + 2 > r.lo
  BY <1>2, RegionRange
<1>6. FlagOf(b.tree, 0) # FreeRam
  <2>1. 0 \in Page /\ FlagOf(a.tree, 0) # FreeRam /\ ~(0 >= MarkFirst(r))
    BY <1>5, PagesAreNumbers DEF Kept
  <2> QED BY <1>3, <2>1
<1>7. ASSUME NEW j \in 1 .. i + 1, NEW p \in Covers(m[j]), ~IsFree(m[j]),
             \A k \in 1 .. i + 1 : k > j /\ IsFree(m[k]) => p \notin Covers(m[k])
      PROVE  FlagOf(b.tree, p) # FreeRam
  <2>1. p \in Page /\ p \in Nat /\ 2 * p < m[j].hi /\ 2 * p + 2 > m[j].lo
    BY PagesAreNumbers DEF Covers
  <2>2. CASE j = i + 1
    <3>1. r = m[j]
      BY <2>2 DEF r
    <3>2. CASE p = 0
      BY <1>6, <3>2
    <3>3. CASE p # 0
      <4>1. p >= MarkFirst(r) /\ p < EndPage(r)
        BY <1>5, <2>1, <3>1, <3>3
      <4> QED BY <1>3, <1>4, <1>7, <2>1, <3>1, <4>1 DEF IsFree
    <3> QED BY <3>2, <3>3
  <2>3. CASE j # i + 1
    <3>1. j \in 1 .. i /\ j < i + 1 /\ j \in DOMAIN m
      BY <1>1, <2>3
    <3>2. FlagOf(a.tree, p) # FreeRam
      <4>1. \A k \in 1 .. i : k \in 1 .. i + 1
        OBVIOUS
      <4> QED BY <1>7, <3>1, <4>1 DEF Kept
    <3>3. CASE r.type # "free"
      BY <1>3, <1>4, <2>1, <3>2, <3>3
    <3>4. CASE r.type = "free"
      <4>1. i + 1 \in 1 .. i + 1 /\ i + 1 > j
        BY <3>1
      <4>2. p \notin Covers(r)
        BY <1>7, <3>4, <4>1 DEF IsFree, r
      <4>3. ~(p >= MarkFirst(r) /\ p < EndPage(r))
        BY <1>5, <2>1, <4>2 DEF Covers
      <4> QED BY <1>3, <2>1, <3>2, <4>3
    <3> QED BY <3>3, <3>4
  <2> QED BY <2>2, <2>3
<1> QED BY <1>6, <1>7 DEF Kept, b, r

\* RAM, free or in use, lies below the bound of the memory.
RamBelow(t) == \A p \in Page : FlagOf(t, p) \in {FreeRam, UsedRam} => p < Memory

\* A region of the map makes RAM below that bound only.
LEMMA RegionsBelow ==
  ASSUME NEW m \in MemoryMaps, NEW i \in DOMAIN m, IsRegion(m[i]), NEW a \in MarkResults, RamBelow(a.tree)
  PROVE  RamBelow(MarkRegion(a, m[i]).tree)
<1> DEFINE r == m[i]
           b == MarkRegion(a, r)
<1>1. IsRegion(r) /\ (r.type = "free" => r.hi <= 2 * Memory) /\ Memory \in Nat
  <2>1. Size[MaxOrder] \in Nat
    BY OrdersAreNumbers, SizeOf
  <2> QED BY <2>1, MemoryAssumption
<1> HIDE DEF r
<1>2. \A q \in Page : \/ FlagOf(b.tree, q) = FlagOf(a.tree, q)
                      \/ q < EndPage(r) /\ FlagOf(b.tree, q) = RegionFlags(r.type)
  BY <1>1, RegionEffect
<1>3. RegionFlags(r.type) \in {FreeRam, UsedRam} => r.type = "free"
  BY RegionFlagsAre
<1>4. r.type = "free" => EndPage(r) \in Nat /\ EndPage(r) <= Memory
  <2> DEFINE h == r.hi
  <2>1. h \in Nat
    BY <1>1 DEF IsRegion, Region
  <2>2. EndPage(r) = (h + 1) \div 2
    BY DEF EndPage
  <2> HIDE DEF h
  <2>3. h <= 2 * Memory => (h + 1) \div 2 \in Nat /\ (h + 1) \div 2 <= Memory
    BY <1>1, <2>1
  <2> QED BY <1>1, <2>2, <2>3 DEF h
<1> HIDE DEF b
<1>5. ASSUME NEW p \in Page, FlagOf(b.tree, p) \in {FreeRam, UsedRam} PROVE p < Memory
  <2>1. CASE FlagOf(b.tree, p) = FlagOf(a.tree, p)
    BY <1>5, <2>1 DEF RamBelow
  <2>2. CASE p < EndPage(r) /\ FlagOf(b.tree, p) = RegionFlags(r.type)
    <3>1. EndPage(r) \in Nat /\ EndPage(r) <= Memory /\ p \in Nat
      BY <1>3, <1>4, <1>5, <2>2, PagesAreNumbers
    <3> QED BY <1>1, <2>2, <3>1
  <2> QED BY <1>2, <2>1, <2>2
<1> QED BY <1>5 DEF RamBelow, b, r

\* The tree of initialize_buddy_allocator.
LEMMA BootEffect ==
  ASSUME NEW m \in MemoryMaps
  PROVE  LET s == Boot(m, Sections) IN
         /\ s.tree \in FlagMaps /\ Tree(s.tree) /\ Merged(s.tree) /\ RamBelow(s.tree)
         /\ \A p \in Page : p \in Reserved(m) \cup Kernel => FlagOf(s.tree, p) # FreeRam
<1> DEFINE null == NullState
           F(g) == [i \in 0 .. Len(m) |-> IF i = 0 THEN null ELSE MarkRegion(g[i - 1], m[i])]
           mapped == CHOOSE g : g = F(g)
<1>1. m \in Seq(Region) /\ \A i \in DOMAIN m : IsRegion(m[i])
  <2>1. m \in Seq(Region)
    BY MapAssumption DEF Region
  <2>2. \A i \in DOMAIN m : m[i] \in Region
    BY <2>1
  <2> QED BY <2>1, <2>2, MapAssumption DEF IsRegion
<1>2. null \in MarkResults /\ FlagOf(null.tree, 0) # FreeRam /\ RamBelow(null.tree)
  BY NullEffect DEF RamBelow
<1>3. Len(m) \in Nat /\ DOMAIN m = 1 .. Len(m)
  BY <1>1
<1>4. mapped = F(mapped)
  <2>1. \E g : g = F(g)
    <3> HIDE DEF null
    <3> QED BY <1>1, <1>2, RegionRuns
  <2> HIDE DEF F
  <2> QED BY <2>1
<1> HIDE DEF mapped, null
<1> DEFINE T == {i \in Nat : i <= Len(m) => mapped[i] \in MarkResults /\ Kept(mapped[i].tree, m, i) /\ RamBelow(mapped[i].tree)}
<1>5. 0 \in T
  <2>1. mapped[0] = null
    BY <1>3, <1>4
  <2> QED BY <1>2, <2>1 DEF Kept
<1>6. ASSUME NEW i \in Nat, i \in T PROVE i + 1 \in T
  <2> SUFFICES ASSUME i + 1 <= Len(m)
               PROVE  /\ mapped[i + 1] \in MarkResults /\ Kept(mapped[i + 1].tree, m, i + 1)
                      /\ RamBelow(mapped[i + 1].tree)
    OBVIOUS
  <2>1. i + 1 \in 0 .. Len(m) /\ i + 1 # 0 /\ i <= Len(m) /\ (i + 1) - 1 = i /\ i + 1 \in DOMAIN m
    BY <1>3
  <2>2. mapped[i + 1] = MarkRegion(mapped[i], m[i + 1])
    <3>1. F(mapped)[i + 1] = MarkRegion(mapped[i], m[i + 1])
      BY <2>1
    <3> HIDE DEF F
    <3> QED BY <1>4, <3>1
  <2>3. mapped[i] \in MarkResults /\ Kept(mapped[i].tree, m, i) /\ RamBelow(mapped[i].tree)
    BY <1>6, <2>1
  <2>4. MarkRegion(mapped[i], m[i + 1]) \in MarkResults
    BY <1>1, <2>1, <2>3, RegionEffect
  <2>5. Kept(MarkRegion(mapped[i], m[i + 1]).tree, m, i + 1)
    BY <1>1, <2>3, RegionKeeps
  <2>6. RamBelow(MarkRegion(mapped[i], m[i + 1]).tree)
    BY <1>1, <2>1, <2>3, RegionsBelow
  <2> QED BY <2>2, <2>4, <2>5, <2>6
<1>7. Nat \subseteq T
  <2> HIDE DEF T
  <2> QED BY <1>5, <1>6, Induct
<1> DEFINE from == mapped[Len(m)]
           G(g) == [i \in 0 .. Len(Sections) |-> IF i = 0 THEN from ELSE MarkSection(g[i - 1], Sections[i])]
           marked == CHOOSE g : g = G(g)
<1>8. from \in MarkResults /\ Kept(from.tree, m, Len(m)) /\ RamBelow(from.tree)
  BY <1>3, <1>7
<1>9. Boot(m, Sections) = marked[Len(Sections)]
  BY DEF Boot, NullState, null, mapped
<1> HIDE DEF T, F, from
<1>10. /\ Sections \in Seq([first : Nat, count : Nat]) /\ \A i \in DOMAIN Sections : SectionRange(Sections[i])
       /\ Len(Sections) \in Nat /\ DOMAIN Sections = 1 .. Len(Sections)
  <2>1. Sections \in Seq([first : Nat, count : Nat])
    BY SectionAssumption
  <2>2. \A i \in DOMAIN Sections : Sections[i] \in [first : Nat, count : Nat]
    <3> DEFINE R == [first : Nat, count : Nat]
    <3> HIDE DEF R
    <3>1. Sections \in Seq(R)
      BY <2>1 DEF R
    <3>2. \A i \in DOMAIN Sections : Sections[i] \in R
      BY <3>1
    <3> QED BY <3>2 DEF R
  <2> QED BY <2>1, <2>2, SectionAssumption DEF SectionRange
<1>11. marked = G(marked)
  <2>1. \E g : g = G(g)
    BY <1>8, <1>10, SectionRuns
  <2> HIDE DEF G
  <2> QED BY <2>1
<1> HIDE DEF marked
<1> DEFINE K(t, i) == \A p \in Page :
             \/ FlagOf(t, p) = UsedRam
             \/ FlagOf(t, p) = FlagOf(from.tree, p)
                /\ \A j \in 1 .. i : ~(p >= Sections[j].first /\ p < Sections[j].first + Sections[j].count)
           U == {i \in Nat : i <= Len(Sections) => marked[i] \in MarkResults /\ K(marked[i].tree, i) /\ RamBelow(marked[i].tree)}
<1>12. 0 \in U
  <2>1. marked[0] = from
    BY <1>10, <1>11
  <2>2. K(from.tree, 0)
    <3>1. \A j \in 1 .. 0 : FALSE
      OBVIOUS
    <3> QED BY <3>1
  <2> HIDE DEF K
  <2> QED BY <1>8, <2>1, <2>2
<1>13. ASSUME NEW i \in Nat, i \in U PROVE i + 1 \in U
  <2> SUFFICES ASSUME i + 1 <= Len(Sections)
               PROVE  /\ marked[i + 1] \in MarkResults /\ K(marked[i + 1].tree, i + 1)
                      /\ RamBelow(marked[i + 1].tree)
    OBVIOUS
  <2>1. i + 1 \in 0 .. Len(Sections) /\ i + 1 # 0 /\ i <= Len(Sections) /\ (i + 1) - 1 = i /\ i + 1 \in DOMAIN Sections
    BY <1>10
  <2> DEFINE a == marked[i]
             r == Sections[i + 1]
             b == MarkSection(a, r)
  <2>2. marked[i + 1] = b
    <3>1. G(marked)[i + 1] = MarkSection(marked[i], Sections[i + 1])
      BY <2>1
    <3> HIDE DEF G
    <3> QED BY <1>11, <3>1
  <2>3. a \in MarkResults /\ K(a.tree, i) /\ RamBelow(a.tree)
    BY <1>13, <2>1
  <2>4. /\ b \in MarkResults
        /\ \A q \in Page : \/ FlagOf(b.tree, q) = FlagOf(a.tree, q)
                           \/ q >= r.first /\ q < r.first + r.count /\ FlagOf(b.tree, q) = UsedRam
        /\ \A q \in Page : q >= r.first /\ q < r.first + r.count => FlagOf(b.tree, q) = UsedRam
    BY <1>10, <2>1, <2>3, SectionEffect
  <2> HIDE DEF b
  <2>5. ASSUME NEW p \in Page
        PROVE  \/ FlagOf(b.tree, p) = UsedRam
               \/ FlagOf(b.tree, p) = FlagOf(from.tree, p)
                  /\ \A j \in 1 .. i + 1 : ~(p >= Sections[j].first /\ p < Sections[j].first + Sections[j].count)
    <3>1. CASE FlagOf(b.tree, p) = UsedRam
      BY <3>1
    <3>2. CASE FlagOf(b.tree, p) # UsedRam
      <4>1. FlagOf(b.tree, p) = FlagOf(a.tree, p) /\ ~(p >= r.first /\ p < r.first + r.count)
        BY <2>4, <3>2
      <4>2. /\ FlagOf(a.tree, p) = FlagOf(from.tree, p)
            /\ \A j \in 1 .. i : ~(p >= Sections[j].first /\ p < Sections[j].first + Sections[j].count)
        BY <2>3, <3>2, <4>1
      <4>3. \A j \in 1 .. i + 1 : j \in 1 .. i \/ j = i + 1
        OBVIOUS
      <4> QED BY <4>1, <4>2, <4>3
    <3> QED BY <3>1, <3>2
  <2>6. ASSUME NEW p \in Page, FlagOf(b.tree, p) \in {FreeRam, UsedRam} PROVE p < Memory
    <3>1. CASE FlagOf(b.tree, p) = FlagOf(a.tree, p)
      BY <2>3, <2>6, <3>1 DEF RamBelow
    <3>2. CASE p < r.first + r.count
      <4>1. r.first + r.count <= Memory /\ r.first + r.count \in Nat /\ Memory \in Nat /\ p \in Nat
        <5>1. SectionRange(r) /\ Size[MaxOrder] \in Nat
          BY <1>10, <2>1, OrdersAreNumbers, SizeOf
        <5> QED BY <2>1, <5>1, MemoryAssumption, PagesAreNumbers DEF SectionRange
      <4> QED BY <3>2, <4>1
    <3> QED BY <2>4, <3>1, <3>2
  <2>7. RamBelow(b.tree)
    BY <2>6 DEF RamBelow
  <2> QED BY <2>2, <2>4, <2>5, <2>7
<1>14. Nat \subseteq U
  <2> HIDE DEF U
  <2> QED BY <1>12, <1>13, Induct
<1> DEFINE s == marked[Len(Sections)]
<1>15. s \in MarkResults /\ K(s.tree, Len(Sections)) /\ RamBelow(s.tree)
  BY <1>10, <1>14
<1> HIDE DEF U, s
<1>16. ASSUME NEW p \in Page, p \in Reserved(m) \cup Kernel
       PROVE  FlagOf(s.tree, p) # FreeRam
  <2>1. CASE FlagOf(s.tree, p) = UsedRam
    BY <2>1, ConstantFlags
  <2>2. CASE FlagOf(s.tree, p) # UsedRam
    <3>1. /\ FlagOf(s.tree, p) = FlagOf(from.tree, p)
          /\ \A j \in 1 .. Len(Sections) : ~(p >= Sections[j].first /\ p < Sections[j].first + Sections[j].count)
      BY <1>15, <2>2
    <3>2. p \notin Kernel
      <4> SUFFICES ASSUME p \in Kernel PROVE FALSE
        OBVIOUS
      <4>1. PICK j \in DOMAIN Sections : p \in Sections[j].first .. Sections[j].first + Sections[j].count - 1
        BY DEF Kernel
      <4>2. Sections[j].first \in Nat /\ Sections[j].count \in Nat /\ j \in 1 .. Len(Sections)
        BY <1>10 DEF SectionRange
      <4>3. p >= Sections[j].first /\ p < Sections[j].first + Sections[j].count
        BY <4>1, <4>2
      <4> QED BY <3>1, <4>2, <4>3
    <3>3. p \in Reserved(m)
      BY <1>16, <3>2
    <3>4. FlagOf(from.tree, p) # FreeRam
      BY <1>3, <1>8, <1>16, <3>3 DEF Reserved, Kept
    <3> QED BY <3>1, <3>4
  <2> QED BY <2>1, <2>2
<1> HIDE DEF K
<1>17. Boot(m, Sections) = s
  BY <1>9 DEF s
<1>18. s.tree \in FlagMaps /\ Tree(s.tree) /\ Merged(s.tree)
  BY <1>15 DEF MarkResults
<1> QED BY <1>15, <1>16, <1>17, <1>18

(* allocate_pages and pmgr_alloc_pages.                                    *)

\* The blocks handed out are leaves of the tree in use.
Blocks(t, H) == \A b \in H : b \in Leaves(t) /\ t[b] = UsedRam

TreeInv(t, H) == t \in FlagMaps /\ Tree(t) /\ Merged(t) /\ Blocks(t, H)

GotPages(got) == UNION {PagesOf(got[i]) : i \in DOMAIN got}

\* Where a request has come to that began with tree t0 and blocks H handed out.
AllocState(t0, H, s) ==
  /\ s = [tree |-> s.tree, got |-> s.got, short |-> s.short]
  /\ s.short \in BOOLEAN
  /\ s.got \in Seq(TNode)
  /\ TreeInv(s.tree, H) /\ TreeInv(s.tree, Range(s.got))
  /\ \A i \in DOMAIN s.got : s.got[i] \notin H
  /\ \A i, j \in DOMAIN s.got : s.got[i] = s.got[j] => i = j
  /\ \A p \in Page : FlagOf(t0, p) = FreeRam <=> FlagOf(s.tree, p) = FreeRam \/ p \in GotPages(s.got)
  /\ \A p \in Page : FlagOf(s.tree, p) = UsedRam => FlagOf(t0, p) \in {FreeRam, UsedRam}

\* The order of a request is large enough for its pages.
LEMMA OrderIs ==
  ASSUME NEW n \in 1 .. Size[MaxOrder]
  PROVE  Order(n) \in Orders /\ Size[Order(n)] >= n
<1>1. Size[MaxOrder] \in Nat /\ MaxOrder \in Orders /\ n \in Nat
  BY OrdersAreNumbers, SizeOf
<1> DEFINE T == {o \in Orders : Size[o] >= n}
<1>2. T \subseteq Nat /\ MaxOrder \in T
  <2>1. Size[MaxOrder] >= n
    BY <1>1
  <2> QED BY <1>1, <2>1, OrdersAreNumbers
<1>3. PICK o \in T : \A k \in T : o <= k
  <2> HIDE DEF T
  <2> QED BY <1>2, LeastMember
<1>4. o \in Orders /\ o \in Nat /\ Size[o] >= n
  BY <1>2, <1>3
<1>5. o = 0 \/ Size[o - 1] < n
  <2> SUFFICES ASSUME o # 0, ~(Size[o - 1] < n) PROVE FALSE
    OBVIOUS
  <2>1. o - 1 \in Orders /\ o - 1 \in Nat
    BY <1>4, OrdersAreNumbers DEF Orders
  <2>2. Size[o - 1] \in Nat
    BY <2>1, SizeOf
  <2>3. o - 1 \in T
    BY <1>1, <2>1, <2>2
  <2> QED BY <1>3, <1>4, <2>3
<1> HIDE DEF T
<1>6. \E x \in 0 .. MaxOrder : Size[x] >= n /\ (x = 0 \/ Size[x - 1] < n)
  BY <1>4, <1>5 DEF Orders
<1>7. Order(n) \in 0 .. MaxOrder /\ Size[Order(n)] >= n
  <2> DEFINE P(x) == Size[x] >= n /\ (x = 0 \/ Size[x - 1] < n)
  <2>1. \E x \in 0 .. MaxOrder : P(x)
    BY <1>6
  <2>2. Order(n) = CHOOSE x \in 0 .. MaxOrder : P(x)
    BY DEF Order
  <2>3. Order(n) \in 0 .. MaxOrder /\ P(Order(n))
    <3> HIDE DEF P
    <3> QED BY <2>1, <2>2, Zenon
  <2> QED BY <2>3
<1> QED BY <1>7 DEF Orders

\* The pages of a block handed out are not free.
LEMMA BlockPages ==
  ASSUME NEW t, Tree(t), NEW b \in Leaves(t), t[b] = UsedRam
  PROVE  \A p \in PagesOf(b) : p \in Page /\ FlagOf(t, p) # FreeRam
<1>1. \A p \in PagesOf(b) : p \in Page /\ LeafOf(t, p) = b
  BY LeafOfLeaf DEF Tree
<1> QED BY <1>1, ConstantFlags DEF FlagOf

\* A sequence with one more element.
LEMMA AppendFacts ==
  ASSUME NEW S, NEW q \in Seq(S), NEW x \in S
  PROVE  /\ Append(q, x) \in Seq(S) /\ DOMAIN Append(q, x) = DOMAIN q \cup {Len(q) + 1}
         /\ Len(q) + 1 \notin DOMAIN q /\ Append(q, x)[Len(q) + 1] = x
         /\ \A i \in DOMAIN q : Append(q, x)[i] = q[i]
<1>1. Len(q) \in Nat /\ DOMAIN q = 1 .. Len(q)
  OBVIOUS
<1>2. Append(q, x) \in Seq(S) /\ Len(Append(q, x)) = Len(q) + 1 /\ Append(q, x)[Len(q) + 1] = x
      /\ \A i \in 1 .. Len(q) : Append(q, x)[i] = q[i]
  OBVIOUS
<1>3. DOMAIN Append(q, x) = 1 .. Len(q) + 1
  BY <1>1, <1>2
<1>4. 1 .. Len(q) + 1 = (1 .. Len(q)) \cup {Len(q) + 1} /\ Len(q) + 1 \notin 1 .. Len(q)
  BY <1>1
<1> QED BY <1>1, <1>2, <1>3, <1>4

\* allocate_pages: one more block, or the request came short.
LEMMA AllocEffect ==
  ASSUME NEW t0, NEW H, NEW s, AllocState(t0, H, s), NEW n \in 1 .. Size[MaxOrder]
  PROVE  LET u == AllocatePages(s, n) IN
         /\ AllocState(t0, H, u)
         /\ \/ u.short /\ u.got = s.got
            \/ ~u.short /\ ~s.short /\ \E b \in TNode : u.got = Append(s.got, b)
<1> DEFINE o == Order(n)
           u == AllocatePages(s, n)
           b == Search(s.tree, o, "free", "ram")
           t == SetStatus(SplitTo(s.tree, b), b, "used")
<1>1. o \in Orders
  BY OrderIs
<1> HIDE DEF o
<1>2. Tree(s.tree) /\ Merged(s.tree) /\ s.got \in Seq(TNode)
      /\ s = [tree |-> s.tree, got |-> s.got, short |-> s.short]
  BY DEF AllocState, TreeInv
<1>3. CASE s.short \/ Candidates(s.tree, o, "free", "ram") = {}
  <2>1. u = [s EXCEPT !.short = TRUE]
    BY <1>3 DEF AllocatePages, o
  <2>2. u = [tree |-> s.tree, got |-> s.got, short |-> TRUE]
    BY <1>2, <2>1
  <2>3. u.tree = s.tree /\ u.got = s.got /\ u.short = TRUE
    BY <2>2
  <2> HIDE DEF u
  <2>4. u = [tree |-> u.tree, got |-> u.got, short |-> u.short]
    BY <2>2, <2>3
  <2>5. AllocState(t0, H, u)
    BY <2>3, <2>4 DEF AllocState
  <2> QED BY <2>3, <2>5 DEF u
<1>4. CASE ~(s.short \/ Candidates(s.tree, o, "free", "ram") = {})
  <2>1. u = [s EXCEPT !.tree = t, !.got = Append(s.got, b)]
    BY <1>4 DEF AllocatePages, o
  <2>2. /\ b \in TNode
        /\ Tree(t) /\ Merged(t) /\ b \in Leaves(t) /\ t[b] = UsedRam
        /\ \A p \in PagesOf(b) : p \in Page /\ FlagOf(s.tree, p) = FreeRam
        /\ \A p \in Page : FlagOf(t, p) = IF p \in PagesOf(b) THEN UsedRam ELSE FlagOf(s.tree, p)
        /\ \A l \in Leaves(s.tree) : s.tree[l].st # {"free"} => l \in Leaves(t) /\ t[l] = s.tree[l] /\ l # b
    BY <1>1, <1>2, <1>4, TakeEffect
  <2> HIDE DEF b, t
  <2>3. u = [tree |-> t, got |-> Append(s.got, b), short |-> s.short]
    BY <1>2, <2>1
  <2>4. u.tree = t /\ u.got = Append(s.got, b) /\ u.short = s.short
        /\ u = [tree |-> u.tree, got |-> u.got, short |-> u.short]
    BY <2>3
  <2> HIDE DEF u
  <2>5. /\ Append(s.got, b) \in Seq(TNode) /\ DOMAIN Append(s.got, b) = DOMAIN s.got \cup {Len(s.got) + 1}
        /\ Len(s.got) + 1 \notin DOMAIN s.got /\ Append(s.got, b)[Len(s.got) + 1] = b
        /\ \A i \in DOMAIN s.got : Append(s.got, b)[i] = s.got[i]
    BY <1>2, <2>2, AppendFacts
  <2> DEFINE new == Append(s.got, b)
             last == Len(s.got) + 1
  <2> HIDE DEF new, last
  <2>6. /\ new \in Seq(TNode) /\ DOMAIN new = DOMAIN s.got \cup {last} /\ last \notin DOMAIN s.got
        /\ new[last] = b /\ \A i \in DOMAIN s.got : new[i] = s.got[i]
    BY <2>5 DEF new, last
  <2>7. t \in FlagMaps
    BY <2>2, TreesAreMaps DEF Tree, Shape
  <2>8. \A x \in Leaves(s.tree) : s.tree[x] = UsedRam => x \in Leaves(t) /\ t[x] = UsedRam /\ x # b
    <3>1. UsedRam.st # {"free"}
      <4>1. {"used"} # {"free"}
        OBVIOUS
      <4> QED BY <4>1, ConstantFlags
    <3> QED BY <2>2, <3>1
  <2>9. TreeInv(t, H) /\ b \notin H
    BY <2>2, <2>7, <2>8 DEF AllocState, TreeInv, Blocks
  <2>10. \A i \in DOMAIN s.got : s.got[i] \in Leaves(t) /\ t[s.got[i]] = UsedRam /\ s.got[i] # b
    BY <2>8 DEF AllocState, TreeInv, Blocks, Range
  <2>11. TreeInv(t, Range(new))
    <3>1. \A x \in Range(new) : x = b \/ \E i \in DOMAIN s.got : x = s.got[i]
      BY <2>6 DEF Range
    <3> QED BY <2>2, <2>7, <2>10, <3>1 DEF TreeInv, Blocks
  <2>12. \A i \in DOMAIN new : new[i] \notin H
    BY <2>6, <2>9 DEF AllocState
  <2>13. \A i, j \in DOMAIN new : new[i] = new[j] => i = j
    BY <2>6, <2>10 DEF AllocState
  <2>14. ASSUME NEW p \in Page
         PROVE  FlagOf(t0, p) = FreeRam <=> FlagOf(t, p) = FreeRam \/ p \in GotPages(new)
    <3>1. FlagOf(t0, p) = FreeRam <=> FlagOf(s.tree, p) = FreeRam \/ p \in GotPages(s.got)
      BY DEF AllocState
    <3>2. p \in GotPages(new) <=> p \in GotPages(s.got) \/ p \in PagesOf(b)
      BY <2>6 DEF GotPages
    <3>3. p \in PagesOf(b) => FlagOf(s.tree, p) = FreeRam
      BY <2>2
    <3>4. p \notin PagesOf(b) => FlagOf(t, p) = FlagOf(s.tree, p)
      BY <2>2
    <3> QED BY <3>1, <3>2, <3>3, <3>4
  <2>15. ASSUME NEW p \in Page, FlagOf(t, p) = UsedRam PROVE FlagOf(t0, p) \in {FreeRam, UsedRam}
    <3>1. FlagOf(s.tree, p) = FreeRam \/ FlagOf(s.tree, p) = UsedRam
      BY <2>2, <2>15
    <3> QED BY <3>1 DEF AllocState
  <2>16. AllocState(t0, H, u)
    <3>1. u.tree = t /\ u.got = new /\ u.short \in BOOLEAN
      BY <2>4 DEF AllocState, new
    <3> QED BY <2>4, <2>6, <2>9, <2>11, <2>12, <2>13, <2>14, <2>15, <3>1 DEF AllocState
  <2> QED BY <1>4, <2>2, <2>4, <2>16 DEF u
<1> QED BY <1>3, <1>4

\* A request begins with no block.
LEMMA FreshIs ==
  ASSUME NEW t, NEW H, TreeInv(t, H)
  PROVE  AllocState(t, H, Fresh(t))
<1> DEFINE s == Fresh(t)
<1>1. s.tree = t /\ s.got = << >> /\ s.short = FALSE /\ s = [tree |-> s.tree, got |-> s.got, short |-> s.short]
  BY DEF Fresh
<1> HIDE DEF s
<1>2. DOMAIN << >> = {} /\ << >> \in Seq(TNode)
  OBVIOUS
<1>3. Range(s.got) = {} /\ GotPages(s.got) = {} /\ DOMAIN s.got = {}
  BY <1>1, <1>2 DEF Range, GotPages
<1>4. TreeInv(s.tree, Range(s.got))
  BY <1>1, <1>3 DEF TreeInv, Blocks
<1>5. AllocState(t, H, s)
  BY <1>1, <1>2, <1>3, <1>4 DEF AllocState
<1> QED BY <1>5 DEF s

(* pmgr_alloc_pages and the blocks a new thread takes.                     *)

\* No more tables are missing than pages are mapped.
LEMMA MissingCount ==
  ASSUME NEW d, NEW at \in Nat, NEW n \in 1 .. Size[MaxOrder]
  PROVE  /\ IsFiniteSet(Missing(d, at .. at + n - 1))
         /\ Cardinality(Missing(d, at .. at + n - 1)) \in 0 .. Size[MaxOrder]
<1> DEFINE V == at .. at + n - 1
           M == Missing(d, V)
           f == [pd \in M |-> CHOOSE v \in V : v \div PerTable = pd]
<1>1. Size[MaxOrder] \in Nat /\ n \in Nat
  BY OrdersAreNumbers, SizeOf
<1>2. IsFiniteSet(V) /\ Cardinality(V) = n
  <2>1. at \in Int /\ at + n - 1 \in Int /\ ~(at > at + n - 1) /\ (at + n - 1) - at + 1 = n
    BY <1>1
  <2> QED BY <2>1, FS_Interval
<1> HIDE DEF V
<1>3. \A pd \in M : f[pd] \in V /\ f[pd] \div PerTable = pd
  <2> SUFFICES ASSUME NEW pd \in M PROVE f[pd] \in V /\ f[pd] \div PerTable = pd
    OBVIOUS
  <2>1. \E v \in V : v \div PerTable = pd
    BY DEF Missing
  <2> QED BY <2>1
<1> HIDE DEF M
<1>4. f \in Injection(M, V)
  <2>1. f \in [M -> V] /\ \A a, b \in M : f[a] = f[b] => a = b
    BY <1>3
  <2> HIDE DEF f
  <2> QED BY <2>1 DEF Injection, IsInjective
<1> HIDE DEF f
<1>5. IsFiniteSet(M) /\ Cardinality(M) <= n
  BY <1>2, <1>4, FS_Injection
<1>6. Cardinality(M) \in Nat
  BY <1>5, FS_CardinalityType
<1> QED BY <1>1, <1>5, <1>6 DEF M, V

\* pmgr_alloc_pages: the pages, then their tables, or it came short.
LEMMA MappedEffect ==
  ASSUME NEW t0, NEW H, NEW s, AllocState(t0, H, s), NEW d, NEW v \in Nat, NEW n \in 1 .. Size[MaxOrder]
  PROVE  LET u == AllocateMapped(s, d, v, n) IN
         /\ AllocState(t0, H, u)
         /\ ~u.short => Len(u.got) > Len(s.got)
         /\ \A i \in DOMAIN s.got : i \in DOMAIN u.got /\ u.got[i] = s.got[i]
<1> DEFINE pages == AllocatePages(s, n)
           base == pages.got[Len(pages.got)][2]
           at == IF v = 0 THEN base ELSE v
           need == Cardinality(Missing(d, at .. at + n - 1))
           u == AllocateMapped(s, d, v, n)
<1>1. /\ AllocState(t0, H, pages)
      /\ \/ pages.short /\ pages.got = s.got
         \/ ~pages.short /\ ~s.short /\ \E b \in TNode : pages.got = Append(s.got, b)
  BY AllocEffect
<1>2. s.got \in Seq(TNode) /\ Len(s.got) \in Nat /\ DOMAIN s.got = 1 .. Len(s.got)
  <2>1. s.got \in Seq(TNode)
    BY DEF AllocState
  <2> QED BY <2>1
<1>3. u = IF pages.short \/ need = 0 THEN pages ELSE AllocatePages(pages, need)
  BY DEF AllocateMapped, WithTables
<1> HIDE DEF pages, u, need
<1>4. CASE pages.short
  <2>1. u = pages /\ u.got = s.got
    BY <1>1, <1>3, <1>4
  <2> QED BY <1>1, <1>4, <2>1 DEF u
<1>5. CASE ~pages.short
  <2>1. PICK b \in TNode : pages.got = Append(s.got, b)
    BY <1>1, <1>5
  <2>2. /\ Append(s.got, b) \in Seq(TNode) /\ DOMAIN Append(s.got, b) = DOMAIN s.got \cup {Len(s.got) + 1}
        /\ Append(s.got, b)[Len(s.got) + 1] = b
        /\ \A i \in DOMAIN s.got : Append(s.got, b)[i] = s.got[i]
        /\ Len(Append(s.got, b)) = Len(s.got) + 1
    BY <1>2, AppendFacts
  <2>3. /\ pages.got \in Seq(TNode) /\ Len(pages.got) = Len(s.got) + 1 /\ pages.got[Len(pages.got)] = b
        /\ \A i \in DOMAIN s.got : i \in DOMAIN pages.got /\ pages.got[i] = s.got[i]
    BY <2>1, <2>2
  <2>4. at \in Nat
    BY <2>3, TNodeFields
  <2> HIDE DEF at
  <2>5. need \in 0 .. Size[MaxOrder]
    BY <2>4, MissingCount DEF need
  <2>6. CASE need = 0
    <3>1. u = pages
      BY <1>3, <2>6
    <3> QED BY <1>1, <1>2, <2>3, <3>1 DEF u
  <2>7. CASE need # 0
    <3>1. need \in 1 .. Size[MaxOrder] /\ u = AllocatePages(pages, need)
      BY <1>3, <1>5, <2>5, <2>7, OrdersAreNumbers, SizeOf
    <3>2. /\ AllocState(t0, H, u)
          /\ \/ u.got = pages.got
             \/ \E c \in TNode : u.got = Append(pages.got, c)
      <4> DEFINE w == AllocatePages(pages, need)
      <4>1. /\ AllocState(t0, H, w)
            /\ \/ w.short /\ w.got = pages.got
               \/ ~w.short /\ ~pages.short /\ \E c \in TNode : w.got = Append(pages.got, c)
        <5>1. AllocState(t0, H, pages) /\ need \in 1 .. Size[MaxOrder]
          BY <1>1, <3>1
        <5> HIDE DEF w
        <5> QED BY <5>1, AllocEffect DEF w
      <4>2. u = w
        BY <3>1
      <4> HIDE DEF w
      <4> QED BY <4>1, <4>2
    <3>3. Len(u.got) >= Len(pages.got) /\ \A i \in DOMAIN pages.got : i \in DOMAIN u.got /\ u.got[i] = pages.got[i]
      <4>1. CASE u.got = pages.got
        BY <2>3, <4>1
      <4>2. ASSUME NEW c \in TNode, u.got = Append(pages.got, c)
            PROVE  Len(u.got) >= Len(pages.got) /\ \A i \in DOMAIN pages.got : i \in DOMAIN u.got /\ u.got[i] = pages.got[i]
        <5>1. Len(Append(pages.got, c)) = Len(pages.got) + 1 /\ Len(pages.got) \in Nat
              /\ \A i \in DOMAIN pages.got : i \in DOMAIN Append(pages.got, c) /\ Append(pages.got, c)[i] = pages.got[i]
          BY <2>3, AppendFacts
        <5> QED BY <4>2, <5>1
      <4> QED BY <3>2, <4>1, <4>2
    <3>4. Len(u.got) \in Nat
      <4>1. u.got \in Seq(TNode)
        BY <3>2 DEF AllocState
      <4> QED BY <4>1
    <3> QED BY <1>2, <2>3, <3>2, <3>3, <3>4 DEF u
  <2> QED BY <2>6, <2>7
<1> QED BY <1>4, <1>5

\* A new thread takes a page and its pool, or it came short.
LEMMA SpawnEffect ==
  ASSUME NEW t, NEW H, TreeInv(t, H), NEW d
  PROVE  LET first == AllocatePages(Fresh(t), 1)
             s == IF first.short THEN first ELSE AllocateMapped(first, d, PoolStart, PoolPages)
         IN  AllocState(t, H, s) /\ (~s.short => Len(s.got) >= 2)
<1> DEFINE first == AllocatePages(Fresh(t), 1)
           s == IF first.short THEN first ELSE AllocateMapped(first, d, PoolStart, PoolPages)
<1>1. 1 \in 1 .. Size[MaxOrder]
  BY OrdersAreNumbers, SizeOf
<1>2. /\ AllocState(t, H, first)
      /\ \/ first.short /\ first.got = Fresh(t).got
         \/ ~first.short /\ ~Fresh(t).short /\ \E b \in TNode : first.got = Append(Fresh(t).got, b)
  BY <1>1, FreshIs, AllocEffect
<1> HIDE DEF first
<1>3. CASE first.short
  BY <1>2, <1>3 DEF first
<1>4. CASE ~first.short
  <2>1. s = AllocateMapped(first, d, PoolStart, PoolPages)
    BY <1>4
  <2> HIDE DEF s
  <2>2. PoolStart \in Nat /\ PoolPages \in 1 .. Size[MaxOrder]
    BY PoolAssumption
  <2>3. AllocState(t, H, s) /\ (~s.short => Len(s.got) > Len(first.got))
    BY <1>2, <2>1, <2>2, MappedEffect
  <2>4. Len(first.got) = 1
    <3>1. PICK b \in TNode : first.got = Append(Fresh(t).got, b)
      BY <1>2, <1>4
    <3>2. Fresh(t).got = << >>
      BY DEF Fresh
    <3> QED BY <3>1, <3>2
  <2>5. Len(s.got) \in Nat
    <3>1. s.got \in Seq(TNode)
      BY <2>3 DEF AllocState
    <3> QED BY <3>1
  <2> QED BY <2>3, <2>4, <2>5 DEF s, first
<1> QED BY <1>3, <1>4

(* destroy_page_mgr_ctx.                                                   *)

\* The blocks q, still handed out in t, of which none is in K.
Freeable(t, K, q) ==
  /\ TreeInv(t, K) /\ q \in Seq(TNode) /\ TreeInv(t, Range(q))
  /\ \A i \in DOMAIN q : q[i] \notin K
  /\ \A i, j \in DOMAIN q : q[i] = q[j] => i = j

FreedTo(t, K, q, i, x) ==
  /\ x = [tree |-> x.tree, ok |-> TRUE]
  /\ TreeInv(x.tree, K)
  /\ \A j \in DOMAIN q : j > i => q[j] \in Leaves(x.tree) /\ x.tree[q[j]] = UsedRam
  /\ \A p \in Page : FlagOf(x.tree, p) =
       IF \E j \in DOMAIN q : j <= i /\ p \in PagesOf(q[j]) THEN FreeRam ELSE FlagOf(t, p)

\* Giving back one block of a context leaves the others in use.
LEMMA FreeOne ==
  ASSUME NEW t, NEW K, NEW q, Freeable(t, K, q), NEW i \in Nat, i + 1 \in DOMAIN q,
         NEW x, FreedTo(t, K, q, i, x)
  PROVE  FreedTo(t, K, q, i + 1, FreePages(x, q[i + 1]))
<1> DEFINE b == q[i + 1]
           y == FreePages(x, b)
           yes == TRUE
<1>1. q \in Seq(TNode) /\ DOMAIN q = 1 .. Len(q) /\ Len(q) \in Nat /\ \A j \in DOMAIN q : q[j] \in TNode
  <2>1. q \in Seq(TNode)
    BY DEF Freeable
  <2> QED BY <2>1
<1>2. b \in Leaves(x.tree) /\ x.tree[b] = UsedRam /\ Tree(x.tree) /\ Merged(x.tree)
  BY DEF FreedTo, TreeInv
<1> HIDE DEF b
<1>3. x = [tree |-> x.tree, ok |-> yes]
  BY DEF FreedTo
<1> HIDE DEF yes
<1>4. y = FreePages([tree |-> x.tree, ok |-> yes], b)
  BY <1>3
<1> HIDE DEF y
<1>5. /\ y = [tree |-> y.tree, ok |-> yes]
      /\ Tree(y.tree) /\ Merged(y.tree)
      /\ \A p \in Page : FlagOf(y.tree, p) = IF p \in PagesOf(b) THEN FreeRam ELSE FlagOf(x.tree, p)
      /\ \A l \in Leaves(x.tree) : l # b /\ x.tree[l].st # {"free"} => l \in Leaves(y.tree) /\ y.tree[l] = x.tree[l]
  BY <1>2, <1>4, GiveEffect
<1>6. \A l \in Leaves(x.tree) : l # b /\ x.tree[l] = UsedRam => l \in Leaves(y.tree) /\ y.tree[l] = UsedRam
  <2>1. UsedRam.st # {"free"}
    <3>1. {"used"} # {"free"}
      OBVIOUS
    <3> QED BY <3>1, ConstantFlags
  <2> QED BY <1>5, <2>1
<1>7. TreeInv(y.tree, K)
  <2>1. y.tree \in FlagMaps
    BY <1>5, TreesAreMaps DEF Tree, Shape
  <2>2. \A k \in K : k \in Leaves(x.tree) /\ x.tree[k] = UsedRam /\ k # b
    BY DEF FreedTo, TreeInv, Blocks, Freeable, b
  <2> QED BY <1>5, <1>6, <2>1, <2>2 DEF TreeInv, Blocks
<1>8. \A j \in DOMAIN q : j > i + 1 => q[j] \in Leaves(y.tree) /\ y.tree[q[j]] = UsedRam
  <2> SUFFICES ASSUME NEW j \in DOMAIN q, j > i + 1
               PROVE  q[j] \in Leaves(y.tree) /\ y.tree[q[j]] = UsedRam
    OBVIOUS
  <2>1. j \in Nat /\ j > i /\ j # i + 1
    BY <1>1
  <2>2. q[j] # b
    BY <2>1 DEF Freeable, b
  <2>3. q[j] \in Leaves(x.tree) /\ x.tree[q[j]] = UsedRam
    BY <2>1 DEF FreedTo
  <2> QED BY <1>6, <2>2, <2>3
<1>9. ASSUME NEW p \in Page
      PROVE  FlagOf(y.tree, p) = IF \E j \in DOMAIN q : j <= i + 1 /\ p \in PagesOf(q[j]) THEN FreeRam ELSE FlagOf(t, p)
  <2>1. FlagOf(x.tree, p) = IF \E j \in DOMAIN q : j <= i /\ p \in PagesOf(q[j]) THEN FreeRam ELSE FlagOf(t, p)
    BY DEF FreedTo
  <2>2. \A j \in DOMAIN q : j <= i + 1 <=> j <= i \/ j = i + 1
    BY <1>1
  <2>3. FlagOf(y.tree, p) = IF p \in PagesOf(b) THEN FreeRam ELSE FlagOf(x.tree, p)
    BY <1>5
  <2> QED BY <2>1, <2>2, <2>3 DEF b
<1> QED BY <1>5, <1>7, <1>8, <1>9 DEF FreedTo, y, b, yes

\* destroy_page_mgr_ctx gives back the blocks of a context, and all is valid.
LEMMA FreeRuns ==
  ASSUME NEW t, NEW K, NEW q, Freeable(t, K, q)
  PROVE  LET freed[i \in 0 .. Len(q)] ==
               IF i = 0 THEN [tree |-> t, ok |-> TRUE] ELSE FreePages(freed[i - 1], q[i])
             s == freed[Len(q)]
         IN  /\ s.ok /\ TreeInv(s.tree, K)
             /\ \A p \in Page : FlagOf(s.tree, p) = IF p \in GotPages(q) THEN FreeRam ELSE FlagOf(t, p)
<1> DEFINE from == [tree |-> t, ok |-> TRUE]
           F(g) == [i \in 0 .. Len(q) |-> IF i = 0 THEN from ELSE FreePages(g[i - 1], q[i])]
           freed == CHOOSE g : g = F(g)
           S == [tree : FlagMaps, ok : BOOLEAN]
           next == [x \in Nat \X S |->
                      IF FreePages(x[2], q[x[1]]) \in S THEN FreePages(x[2], q[x[1]]) ELSE x[2]]
<1>1. Len(q) \in Nat /\ DOMAIN q = 1 .. Len(q)
  <2>1. q \in Seq(TNode)
    BY DEF Freeable
  <2> QED BY <2>1
<1>2. next \in [Nat \X S -> S]
  <2> HIDE DEF S
  <2> QED OBVIOUS
<1>3. from \in S
  BY DEF Freeable, TreeInv
<1> HIDE DEF from, S
<1>4. PICK h \in [0 .. Len(q) -> S] : Follows(h, Len(q), from, next)
  <2> HIDE DEF next
  <2> QED BY <1>1, <1>2, <1>3, PrefixExists DEF HasPrefix
<1>5. h[0] = from
  BY <1>4 DEF Follows
<1>6. ASSUME NEW i \in Nat, i + 1 <= Len(q), FreedTo(t, K, q, i, h[i])
      PROVE  h[i + 1] = FreePages(h[i], q[i + 1]) /\ FreedTo(t, K, q, i + 1, h[i + 1])
  <2>1. i + 1 \in DOMAIN q /\ i + 1 \in 1 .. Len(q) /\ i \in 0 .. Len(q) /\ (i + 1) - 1 = i /\ i + 1 \in Nat
    BY <1>1, <1>6
  <2>2. FreedTo(t, K, q, i + 1, FreePages(h[i], q[i + 1]))
    BY <1>6, <2>1, FreeOne
  <2>3. FreePages(h[i], q[i + 1]) \in S
    <3> DEFINE y == FreePages(h[i], q[i + 1])
               yes == TRUE
               B == BOOLEAN
    <3>1. y = [tree |-> y.tree, ok |-> yes] /\ y.tree \in FlagMaps
      BY <2>2 DEF FreedTo, TreeInv
    <3>2. yes \in B
      OBVIOUS
    <3> HIDE DEF y, yes, B
    <3>3. y \in [tree : FlagMaps, ok : B]
      BY <3>1, <3>2
    <3>4. y \in S
      BY <3>3 DEF S, B
    <3> QED BY <3>4 DEF y
  <2>4. h[i + 1] = next[<<i + 1, h[i]>>] /\ h[i] \in S
    <3> HIDE DEF next
    <3>1. h[i + 1] = next[<<i + 1, h[(i + 1) - 1]>>]
      BY <1>4, <2>1 DEF Follows
    <3>2. h[i] \in S
      BY <1>4, <2>1
    <3> QED BY <2>1, <3>1, <3>2
  <2>5. <<i + 1, h[i]>> \in Nat \X S
    BY <2>1, <2>4
  <2>6. next[<<i + 1, h[i]>>] = FreePages(h[i], q[i + 1])
    BY <2>3, <2>5
  <2> HIDE DEF next
  <2>7. h[i + 1] = FreePages(h[i], q[i + 1])
    BY <2>4, <2>6
  <2> QED BY <2>2, <2>7
<1> DEFINE T == {i \in Nat : i <= Len(q) => FreedTo(t, K, q, i, h[i])}
<1>7. 0 \in T
  <2>1. from.tree = t /\ from = [tree |-> from.tree, ok |-> TRUE]
    BY DEF from
  <2>2. \A j \in DOMAIN q : ~(j <= 0)
    BY <1>1
  <2>3. \A j \in DOMAIN q : q[j] \in Leaves(t) /\ t[q[j]] = UsedRam
    BY DEF Freeable, TreeInv, Blocks, Range
  <2>4. TreeInv(t, K)
    BY DEF Freeable
  <2>5. FreedTo(t, K, q, 0, from)
    BY <2>1, <2>2, <2>3, <2>4 DEF FreedTo
  <2> QED BY <1>5, <2>5
<1>8. ASSUME NEW i \in Nat, i \in T PROVE i + 1 \in T
  <2> SUFFICES ASSUME i + 1 <= Len(q) PROVE FreedTo(t, K, q, i + 1, h[i + 1])
    OBVIOUS
  <2>1. i <= Len(q)
    BY <1>1
  <2>2. FreedTo(t, K, q, i, h[i])
    BY <1>8, <2>1
  <2> QED BY <1>6, <2>2
<1>9. Nat \subseteq T
  <2> HIDE DEF T
  <2> QED BY <1>7, <1>8, Induct
<1>10. \A i \in 0 .. Len(q) : FreedTo(t, K, q, i, h[i])
  BY <1>1, <1>9
<1> HIDE DEF T, next
<1>11. h = F(h)
  <2>1. ASSUME NEW i \in 0 .. Len(q) PROVE h[i] = IF i = 0 THEN from ELSE FreePages(h[i - 1], q[i])
    <3>1. CASE i = 0
      BY <1>5, <3>1
    <3>2. CASE i # 0
      <4> DEFINE k == i - 1
      <4>1. k \in Nat /\ k \in 0 .. Len(q) /\ k + 1 = i /\ k + 1 <= Len(q)
        BY <1>1, <3>2
      <4> HIDE DEF k
      <4>2. h[k + 1] = FreePages(h[k], q[k + 1])
        BY <1>6, <1>10, <4>1
      <4>3. h[i] = FreePages(h[k], q[i])
        BY <4>1, <4>2
      <4> QED BY <3>2, <4>3 DEF k
    <3> QED BY <3>1, <3>2
  <2> QED BY <1>4, <2>1
<1>12. freed = F(freed)
  <2>1. \E g : g = F(g)
    BY <1>11
  <2> HIDE DEF F
  <2> QED BY <2>1
<1> HIDE DEF freed
\* The recursive equation has one solution.
<1> DEFINE U == {i \in Nat : i <= Len(q) => freed[i] = h[i]}
<1>13. 0 \in U
  <2>1. freed[0] = from
    BY <1>1, <1>12
  <2> QED BY <1>5, <2>1
<1>14. ASSUME NEW i \in Nat, i \in U PROVE i + 1 \in U
  <2> SUFFICES ASSUME i + 1 <= Len(q) PROVE freed[i + 1] = h[i + 1]
    OBVIOUS
  <2>1. i <= Len(q) /\ i + 1 \in 0 .. Len(q) /\ i + 1 # 0 /\ (i + 1) - 1 = i
    BY <1>1
  <2>2. \A g : F(g)[i + 1] = FreePages(g[i], q[i + 1])
    BY <2>1
  <2>3. freed[i] = h[i]
    BY <1>14, <2>1
  <2> HIDE DEF F
  <2>4. freed[i + 1] = FreePages(freed[i], q[i + 1]) /\ h[i + 1] = FreePages(h[i], q[i + 1])
    BY <1>11, <1>12, <2>2
  <2> QED BY <2>3, <2>4
<1>15. Nat \subseteq U
  <2> HIDE DEF U
  <2> QED BY <1>13, <1>14, Induct
<1> DEFINE s == freed[Len(q)]
<1>16. FreedTo(t, K, q, Len(q), s)
  <2>1. s = h[Len(q)] /\ Len(q) \in 0 .. Len(q)
    BY <1>1, <1>15
  <2> QED BY <1>10, <2>1
<1> HIDE DEF s, U
<1>17. s.ok /\ TreeInv(s.tree, K)
  <2>1. s = [tree |-> s.tree, ok |-> TRUE] /\ TreeInv(s.tree, K)
    BY <1>16 DEF FreedTo
  <2> QED BY <2>1
<1>18. ASSUME NEW p \in Page
       PROVE  FlagOf(s.tree, p) = IF p \in GotPages(q) THEN FreeRam ELSE FlagOf(t, p)
  <2>1. p \in GotPages(q) <=> \E j \in DOMAIN q : j <= Len(q) /\ p \in PagesOf(q[j])
    BY <1>1 DEF GotPages
  <2>2. FlagOf(s.tree, p) = IF \E j \in DOMAIN q : j <= Len(q) /\ p \in PagesOf(q[j]) THEN FreeRam ELSE FlagOf(t, p)
    BY <1>16 DEF FreedTo
  <2> QED BY <2>1, <2>2
<1> HIDE DEF F
<1> QED BY <1>17, <1>18 DEF s, freed, F, from

(* What the contexts record.                                               *)

HeldBy(r, x) == x \cup UNION {Range(r[o]) : o \in Owners}

RecordsOk(r, x) ==
  /\ r \in [Owners -> Seq(TNode)] /\ x \subseteq TNode
  /\ \A o \in Owners : \A i \in DOMAIN r[o] : r[o][i] \notin x
  /\ \A o, c \in Owners : \A i \in DOMAIN r[o] : \A j \in DOMAIN r[c] :
       r[o][i] = r[c][j] => o = c /\ i = j

\* Blocks that come from a request and are in no record yet.
NewBlocks(q, H) ==
  /\ q \in Seq(TNode) /\ \A i \in DOMAIN q : q[i] \notin H
  /\ \A i, j \in DOMAIN q : q[i] = q[j] => i = j

\* The elements of a concatenation.
LEMMA Concatenated ==
  ASSUME NEW S, NEW a \in Seq(S), NEW b \in Seq(S)
  PROVE  /\ a \o b \in Seq(S) /\ Len(a) \in Nat /\ DOMAIN (a \o b) \subseteq Nat
         /\ DOMAIN a = 1 .. Len(a) /\ DOMAIN b = 1 .. Len(b)
         /\ \A i \in DOMAIN a : i \in DOMAIN (a \o b) /\ (a \o b)[i] = a[i]
         /\ \A i \in DOMAIN b : i + Len(a) \in DOMAIN (a \o b) /\ (a \o b)[i + Len(a)] = b[i]
         /\ \A i \in DOMAIN (a \o b) :
              \/ i \in DOMAIN a /\ (a \o b)[i] = a[i]
              \/ i - Len(a) \in DOMAIN b /\ i > Len(a) /\ (a \o b)[i] = b[i - Len(a)]
<1>1. Len(a) \in Nat /\ Len(b) \in Nat /\ DOMAIN a = 1 .. Len(a) /\ DOMAIN b = 1 .. Len(b)
  OBVIOUS
<1>2. a \o b \in Seq(S) /\ Len(a \o b) = Len(a) + Len(b)
  OBVIOUS
<1>3. DOMAIN (a \o b) = 1 .. Len(a) + Len(b)
  BY <1>1, <1>2
<1>4. ASSUME NEW i \in 1 .. Len(a) + Len(b)
      PROVE  (a \o b)[i] = IF i <= Len(a) THEN a[i] ELSE b[i - Len(a)]
  OBVIOUS
<1>5. \A i \in DOMAIN a : i \in DOMAIN (a \o b) /\ (a \o b)[i] = a[i]
  BY <1>1, <1>3, <1>4
<1>6. ASSUME NEW i \in DOMAIN b PROVE i + Len(a) \in DOMAIN (a \o b) /\ (a \o b)[i + Len(a)] = b[i]
  <2>1. i \in Nat /\ i + Len(a) \in 1 .. Len(a) + Len(b) /\ ~(i + Len(a) <= Len(a)) /\ i + Len(a) - Len(a) = i
    BY <1>1
  <2>2. (a \o b)[i + Len(a)] = b[i + Len(a) - Len(a)]
    BY <1>4, <2>1
  <2> QED BY <1>3, <2>1, <2>2
<1>7. ASSUME NEW i \in DOMAIN (a \o b)
      PROVE  \/ i \in DOMAIN a /\ (a \o b)[i] = a[i]
             \/ i - Len(a) \in DOMAIN b /\ i > Len(a) /\ (a \o b)[i] = b[i - Len(a)]
  <2>1. i \in 1 .. Len(a) + Len(b)
    BY <1>3
  <2>2. CASE i <= Len(a)
    BY <1>1, <1>4, <2>1, <2>2
  <2>3. CASE ~(i <= Len(a))
    <3>1. i - Len(a) \in 1 .. Len(b) /\ i > Len(a)
      BY <1>1, <2>1, <2>3
    <3> QED BY <1>1, <1>4, <2>1, <2>3, <3>1
  <2> QED BY <2>2, <2>3
<1>8. DOMAIN (a \o b) \subseteq Nat
  BY <1>1, <1>3
<1> QED BY <1>1, <1>2, <1>5, <1>6, <1>7, <1>8

\* The records s are r with the blocks q added to those of o.
Grown(s, r, o, q) == s = [c \in Owners |-> IF c = o THEN r[o] \o q ELSE r[c]]

\* New blocks in a record.
LEMMA GrowRecord ==
  ASSUME NEW r, NEW x, RecordsOk(r, x), NEW o \in Owners, NEW q, NewBlocks(q, HeldBy(r, x)),
         NEW s, Grown(s, r, o, q)
  PROVE  RecordsOk(s, x) /\ HeldBy(s, x) = HeldBy(r, x) \cup Range(q)
<1> DEFINE a == r[o]
           n == Len(a)
<1>1. /\ r \in [Owners -> Seq(TNode)] /\ a \in Seq(TNode) /\ q \in Seq(TNode)
      /\ s[o] = a \o q /\ \A c \in Owners : c # o => s[c] = r[c]
  BY DEF RecordsOk, NewBlocks, Grown
<1>2. /\ a \o q \in Seq(TNode) /\ n \in Nat /\ DOMAIN (a \o q) \subseteq Nat
      /\ DOMAIN a = 1 .. n /\ DOMAIN q = 1 .. Len(q)
      /\ \A i \in DOMAIN a : i \in DOMAIN (a \o q) /\ (a \o q)[i] = a[i]
      /\ \A i \in DOMAIN q : i + n \in DOMAIN (a \o q) /\ (a \o q)[i + n] = q[i]
      /\ \A i \in DOMAIN (a \o q) :
           \/ i \in DOMAIN a /\ (a \o q)[i] = a[i]
           \/ i - n \in DOMAIN q /\ i > n /\ (a \o q)[i] = q[i - n]
  <2>1. a \in Seq(TNode) /\ q \in Seq(TNode)
    BY <1>1
  <2> HIDE DEF a
  <2> QED BY <2>1, Concatenated
<1>3. s \in [Owners -> Seq(TNode)]
  <2>1. \A c \in Owners : s[c] \in Seq(TNode)
    BY <1>1, <1>2
  <2> QED BY <2>1 DEF Grown
<1> HIDE DEF n
<1>4. \A c \in Owners : \A i \in DOMAIN r[c] : r[c][i] \in HeldBy(r, x)
  BY DEF HeldBy, Range
<1>5. \A z \in x : z \in HeldBy(r, x)
  BY DEF HeldBy
\* Each entry of s is an old one of the same place or a new one of o.
<1>6. ASSUME NEW c \in Owners, NEW i \in DOMAIN s[c]
      PROVE  \/ i \in DOMAIN r[c] /\ s[c][i] = r[c][i]
             \/ c = o /\ i \in Nat /\ i > n /\ i - n \in DOMAIN q /\ s[c][i] = q[i - n]
  <2>1. CASE c = o
    <3>1. s[c] = a \o q /\ i \in DOMAIN (a \o q) /\ i \in Nat
      BY <1>1, <1>2, <1>6, <2>1
    <3> QED BY <1>2, <2>1, <3>1
  <2>2. CASE c # o
    BY <1>1, <1>6, <2>2
  <2> QED BY <2>1, <2>2
<1>7. ASSUME NEW c \in Owners, NEW i \in DOMAIN s[c] PROVE s[c][i] \notin x
  <2>1. i \in DOMAIN r[c] => r[c][i] \notin x
    BY DEF RecordsOk
  <2>2. i - n \in DOMAIN q => q[i - n] \notin x
    BY <1>5 DEF NewBlocks
  <2> QED BY <1>6, <2>1, <2>2
<1>8. ASSUME NEW c \in Owners, NEW d \in Owners, NEW i \in DOMAIN s[c], NEW j \in DOMAIN s[d], s[c][i] = s[d][j]
      PROVE  c = d /\ i = j
  <2>1. i \in DOMAIN r[c] /\ j \in DOMAIN r[d] /\ r[c][i] = r[d][j] => c = d /\ i = j
    BY DEF RecordsOk
  <2>2. \A k \in DOMAIN q : q[k] \notin HeldBy(r, x)
    BY DEF NewBlocks
  <2>3. i - n \in DOMAIN q /\ j - n \in DOMAIN q /\ q[i - n] = q[j - n] => i - n = j - n
    BY DEF NewBlocks
  <2>4. i \in Nat /\ j \in Nat /\ i - n = j - n => i = j
    BY <1>2
  <2>5. \/ i \in DOMAIN r[c] /\ s[c][i] = r[c][i]
        \/ c = o /\ i \in Nat /\ i > n /\ i - n \in DOMAIN q /\ s[c][i] = q[i - n]
    BY <1>6
  <2>6. \/ j \in DOMAIN r[d] /\ s[d][j] = r[d][j]
        \/ d = o /\ j \in Nat /\ j > n /\ j - n \in DOMAIN q /\ s[d][j] = q[j - n]
    BY <1>6
  <2> QED BY <1>4, <1>8, <2>1, <2>2, <2>3, <2>4, <2>5, <2>6
<1>9. RecordsOk(s, x)
  <2>1. x \subseteq TNode
    BY DEF RecordsOk
  <2> QED BY <1>3, <1>7, <1>8, <2>1 DEF RecordsOk
<1>10. \A z : z \in HeldBy(s, x) <=> z \in HeldBy(r, x) \/ z \in Range(q)
  <2>1. ASSUME NEW z, z \in HeldBy(s, x) PROVE z \in HeldBy(r, x) \/ z \in Range(q)
    <3>1. CASE z \in x
      BY <1>5, <3>1
    <3>2. CASE z \notin x
      <4>1. PICK c \in Owners : z \in Range(s[c])
        BY <2>1, <3>2 DEF HeldBy
      <4>2. PICK i \in DOMAIN s[c] : z = s[c][i]
        BY <4>1 DEF Range
      <4> QED BY <1>4, <1>6, <4>2 DEF Range
    <3> QED BY <3>1, <3>2
  <2>2. ASSUME NEW z, z \in HeldBy(r, x) PROVE z \in HeldBy(s, x)
    <3>1. CASE z \in x
      BY <3>1 DEF HeldBy
    <3>2. CASE z \notin x
      <4>1. PICK c \in Owners : z \in Range(r[c])
        BY <2>2, <3>2 DEF HeldBy
      <4>2. PICK i \in DOMAIN r[c] : z = r[c][i]
        BY <4>1 DEF Range
      <4>3. i \in DOMAIN s[c] /\ s[c][i] = z
        <5>1. CASE c = o
          BY <1>1, <1>2, <4>2, <5>1
        <5>2. CASE c # o
          BY <1>1, <4>2, <5>2
        <5> QED BY <5>1, <5>2
      <4>4. z \in Range(s[c])
        BY <4>3 DEF Range
      <4> QED BY <4>4 DEF HeldBy
    <3> QED BY <3>1, <3>2
  <2>3. ASSUME NEW z, z \in Range(q) PROVE z \in HeldBy(s, x)
    <3>1. PICK i \in DOMAIN q : z = q[i]
      BY <2>3 DEF Range
    <3>2. i + n \in DOMAIN s[o] /\ s[o][i + n] = z
      BY <1>1, <1>2, <3>1
    <3>3. z \in Range(s[o])
      BY <3>2 DEF Range
    <3> QED BY <3>3 DEF HeldBy
  <2> QED BY <2>1, <2>2, <2>3
<1>11. HeldBy(s, x) = HeldBy(r, x) \cup Range(q)
  BY <1>10
<1> QED BY <1>9, <1>11

\* New blocks in no record.
LEMMA GrowStray ==
  ASSUME NEW r, NEW x, RecordsOk(r, x), NEW q, NewBlocks(q, HeldBy(r, x))
  PROVE  RecordsOk(r, x \cup Range(q)) /\ HeldBy(r, x \cup Range(q)) = HeldBy(r, x) \cup Range(q)
<1>1. Range(q) \subseteq TNode
  <2>1. q \in Seq(TNode)
    BY DEF NewBlocks
  <2> QED BY <2>1 DEF Range
<1>2. \A o \in Owners : \A i \in DOMAIN r[o] : r[o][i] \in HeldBy(r, x)
  BY DEF HeldBy, Range
<1>3. \A z \in Range(q) : z \notin HeldBy(r, x)
  BY DEF Range, NewBlocks
<1>4. RecordsOk(r, x \cup Range(q))
  BY <1>1, <1>2, <1>3 DEF RecordsOk
<1> QED BY <1>4 DEF HeldBy

\* The first block of a request and the others.
LEMMA HeadAndTail ==
  ASSUME NEW H, NEW q, NewBlocks(q, H), q # << >>
  PROVE  /\ q[1] \in TNode /\ NewBlocks(<<q[1]>>, H)
         /\ NewBlocks(Tail(q), H \cup Range(<<q[1]>>))
         /\ Range(q) = Range(<<q[1]>>) \cup Range(Tail(q))
<1>1. q \in Seq(TNode) /\ Len(q) \in Nat /\ Len(q) >= 1 /\ DOMAIN q = 1 .. Len(q)
  <2>1. q \in Seq(TNode)
    BY DEF NewBlocks
  <2> QED BY <2>1
<1> DEFINE h == <<q[1]>>
           l == Tail(q)
<1>2. 1 \in DOMAIN q /\ q[1] \in TNode
  BY <1>1
<1>3. h \in Seq(TNode) /\ DOMAIN h = {1} /\ h[1] = q[1]
  BY <1>2
<1>4. l \in Seq(TNode) /\ Len(l) = Len(q) - 1
  BY <1>1
<1>5. DOMAIN l = 1 .. Len(q) - 1
  <2>1. DOMAIN l = 1 .. Len(l)
    BY <1>4
  <2> QED BY <1>4, <2>1
<1>6. \A i \in 1 .. Len(q) - 1 : l[i] = q[i + 1] /\ i + 1 \in DOMAIN q
  <2> SUFFICES ASSUME NEW i \in 1 .. Len(q) - 1 PROVE l[i] = q[i + 1] /\ i + 1 \in DOMAIN q
    OBVIOUS
  <2>1. i + 1 \in DOMAIN q
    BY <1>1
  <2>2. l[i] = q[i + 1]
    BY <1>1
  <2> QED BY <2>1, <2>2
<1>7. Range(h) = {q[1]}
  BY <1>3 DEF Range
<1> HIDE DEF h, l
<1>8. NewBlocks(h, H)
  BY <1>2, <1>3 DEF NewBlocks
<1>9. \A i \in DOMAIN l : l[i] = q[i + 1] /\ i + 1 \in DOMAIN q /\ i + 1 # 1 /\ i \in Nat
  BY <1>1, <1>5, <1>6
<1>10. NewBlocks(l, H \cup Range(h))
  <2>1. \A i \in DOMAIN l : l[i] \notin H /\ l[i] # q[1]
    BY <1>2, <1>9 DEF NewBlocks
  <2>2. ASSUME NEW i \in DOMAIN l, NEW j \in DOMAIN l, l[i] = l[j] PROVE i = j
    <3>1. i + 1 = j + 1 /\ i \in Nat /\ j \in Nat
      BY <1>9, <2>2 DEF NewBlocks
    <3> QED BY <3>1
  <2> QED BY <1>4, <1>7, <2>1, <2>2 DEF NewBlocks
<1>11. \A z : z \in Range(q) <=> z \in Range(h) \/ z \in Range(l)
  <2>1. ASSUME NEW z, z \in Range(q) PROVE z \in Range(h) \/ z \in Range(l)
    <3>1. PICK i \in DOMAIN q : z = q[i]
      BY <2>1 DEF Range
    <3>2. CASE i = 1
      BY <1>7, <3>1, <3>2
    <3>3. CASE i # 1
      <4>1. i - 1 \in DOMAIN l /\ i - 1 + 1 = i
        BY <1>1, <1>5, <3>1, <3>3
      <4>2. l[i - 1] = z
        BY <1>9, <3>1, <4>1
      <4> QED BY <4>1, <4>2 DEF Range
    <3> QED BY <3>2, <3>3
  <2>2. ASSUME NEW z, z \in Range(h) \/ z \in Range(l) PROVE z \in Range(q)
    BY <1>2, <1>7, <1>9, <2>2 DEF Range
  <2> QED BY <2>1, <2>2
<1>12. Range(q) = Range(h) \cup Range(l)
  BY <1>11
<1> QED BY <1>2, <1>8, <1>10, <1>12 DEF h, l

\* A record that is emptied.
LEMMA ClearRecord ==
  ASSUME NEW r, NEW x, RecordsOk(r, x), NEW c \in Owners
  PROVE  LET s == [r EXCEPT ![c] = << >>] IN
         /\ RecordsOk(s, x)
         /\ HeldBy(s, x) \cap Range(r[c]) = {}
         /\ HeldBy(r, x) = HeldBy(s, x) \cup Range(r[c])
<1> DEFINE s == [r EXCEPT ![c] = << >>]
<1>1. DOMAIN << >> = {} /\ << >> \in Seq(TNode)
  OBVIOUS
<1>2. /\ s \in [Owners -> Seq(TNode)] /\ s[c] = << >> /\ DOMAIN s[c] = {}
      /\ \A o \in Owners : o # c => s[o] = r[o]
  BY <1>1 DEF RecordsOk
<1> HIDE DEF s
<1>3. RecordsOk(s, x)
  <2>1. \A o \in Owners : \A i \in DOMAIN s[o] : i \in DOMAIN r[o] /\ s[o][i] = r[o][i]
    BY <1>2
  <2> QED BY <1>2, <2>1 DEF RecordsOk
<1>4. \A o \in Owners : Range(s[o]) = IF o = c THEN {} ELSE Range(r[o])
  BY <1>2 DEF Range
<1>5. HeldBy(r, x) = HeldBy(s, x) \cup Range(r[c])
  BY <1>4 DEF HeldBy
<1>6. ASSUME NEW z \in Range(r[c]), z \in HeldBy(s, x) PROVE FALSE
  <2>1. PICK i \in DOMAIN r[c] : z = r[c][i]
    BY DEF Range
  <2>2. z \notin x
    BY <2>1 DEF RecordsOk
  <2>3. PICK o \in Owners : z \in Range(s[o])
    BY <1>6, <2>2 DEF HeldBy
  <2>4. o # c /\ z \in Range(r[o])
    BY <1>4, <2>3
  <2>5. PICK j \in DOMAIN r[o] : z = r[o][j]
    BY <2>4 DEF Range
  <2> QED BY <2>1, <2>4, <2>5 DEF RecordsOk
<1> QED BY <1>3, <1>5, <1>6 DEF s

(* What a step does to the tree and the blocks handed out.                 *)

\* In the tree t with the blocks H handed out no page of R can be had.
KeptOut(t, H, R) ==
  \A p \in Page : p \in R => FlagOf(t, p) # FreeRam /\ \A b \in H : p \notin PagesOf(b)

ReservedKept(t, H, m) == KeptOut(t, H, Reserved(m) \cup Kernel)

\* The pages from the bound of the memory on.
Beyond == {p \in Page : p >= Memory}

\* A request, and the end of a context, which lead to the tree u and blocks K.
Taken(t, H, u, K) ==
  \E s : AllocState(t, H, s) /\ u = s.tree /\ K = H \cup Range(s.got)

Returned(t, H, u, K) ==
  \E q : /\ Freeable(t, K, q) /\ H = K \cup Range(q) /\ TreeInv(u, K)
         /\ \A p \in Page : FlagOf(u, p) = IF p \in GotPages(q) THEN FreeRam ELSE FlagOf(t, p)

\* The pages of the blocks of a request.
LEMMA GotIs ==
  ASSUME NEW q
  PROVE  \A p : p \in GotPages(q) <=> \E b \in Range(q) : p \in PagesOf(b)
BY DEF GotPages, Range

\* A request keeps the tree, and what is reserved.
LEMMA TakenKeeps ==
  ASSUME NEW t, NEW H, NEW u, NEW K, TreeInv(t, H), Taken(t, H, u, K)
  PROVE  TreeInv(u, K) /\ \A R : KeptOut(t, H, R) => KeptOut(u, K, R)
<1>1. PICK s : AllocState(t, H, s) /\ u = s.tree /\ K = H \cup Range(s.got)
  BY DEF Taken
<1>2. TreeInv(u, K)
  BY <1>1 DEF AllocState, TreeInv, Blocks
<1>3. ASSUME NEW R, KeptOut(t, H, R) PROVE KeptOut(u, K, R)
  <2> SUFFICES ASSUME NEW p \in Page, p \in R
               PROVE  FlagOf(u, p) # FreeRam /\ \A b \in K : p \notin PagesOf(b)
    BY DEF KeptOut
  <2>1. FlagOf(t, p) # FreeRam /\ \A b \in H : p \notin PagesOf(b)
    BY <1>3 DEF KeptOut
  <2>2. FlagOf(t, p) = FreeRam <=> FlagOf(u, p) = FreeRam \/ p \in GotPages(s.got)
    BY <1>1 DEF AllocState
  <2>3. FlagOf(u, p) # FreeRam /\ p \notin GotPages(s.got)
    BY <2>1, <2>2
  <2>4. \A b \in Range(s.got) : p \notin PagesOf(b)
    BY <2>3, GotIs
  <2> QED BY <1>1, <2>1, <2>3, <2>4
<1> QED BY <1>2, <1>3

\* The end of a context keeps the tree, and what is reserved.
LEMMA ReturnedKeeps ==
  ASSUME NEW t, NEW H, NEW u, NEW K, Returned(t, H, u, K)
  PROVE  TreeInv(u, K) /\ \A R : KeptOut(t, H, R) => KeptOut(u, K, R)
<1>1. PICK q : /\ Freeable(t, K, q) /\ H = K \cup Range(q) /\ TreeInv(u, K)
               /\ \A p \in Page : FlagOf(u, p) = IF p \in GotPages(q) THEN FreeRam ELSE FlagOf(t, p)
  BY DEF Returned
<1>2. ASSUME NEW R, KeptOut(t, H, R) PROVE KeptOut(u, K, R)
  <2> SUFFICES ASSUME NEW p \in Page, p \in R
               PROVE  FlagOf(u, p) # FreeRam /\ \A b \in K : p \notin PagesOf(b)
    BY DEF KeptOut
  <2>1. FlagOf(t, p) # FreeRam /\ \A b \in H : p \notin PagesOf(b)
    BY <1>2 DEF KeptOut
  <2>2. p \notin GotPages(q)
    BY <1>1, <2>1, GotIs
  <2>3. FlagOf(u, p) = FlagOf(t, p)
    BY <1>1, <2>2
  <2> QED BY <1>1, <2>1, <2>3
<1> QED BY <1>1, <1>2

\* The blocks of a request were not handed out before.
LEMMA GotIsNew ==
  ASSUME NEW t, NEW H, NEW s, AllocState(t, H, s)
  PROVE  NewBlocks(s.got, H)
BY DEF AllocState, NewBlocks

(* The page directories.                                                   *)

DirOk(d) == d = [pd \in Pd |-> d[pd]]

\* Mapping pages keeps the tables a directory has.
LEMMA MappedDirKeeps ==
  ASSUME NEW d, DirOk(d), NEW frames, NEW fresh
  PROVE  /\ DirOk(MappedDir(d, frames, fresh))
         /\ d # NoDir => MappedDir(d, frames, fresh) # NoDir
<1> DEFINE e == MappedDir(d, frames, fresh)
           missing == Missing(d, DOMAIN frames)
           F(pd) == IF pd \in missing THEN fresh[Cardinality({q \in missing : q <= pd})] ELSE d[pd]
<1>1. e = [pd \in Pd |-> F(pd)]
  BY DEF MappedDir
<1> HIDE DEF e, F
<1>2. DirOk(e)
  BY <1>1 DEF DirOk
<1>3. \A pd \in Pd : e[pd] = F(pd)
  BY <1>1
<1>4. ASSUME d # NoDir PROVE e # NoDir
  <2>1. PICK pd \in Pd : d[pd] # Nil
    <3> SUFFICES ASSUME \A pd \in Pd : d[pd] = Nil PROVE FALSE
      OBVIOUS
    <3>1. d = [pd \in Pd |-> d[pd]]
      BY DEF DirOk
    <3>2. [pd \in Pd |-> d[pd]] = [pd \in Pd |-> Nil]
      OBVIOUS
    <3> QED BY <1>4, <3>1, <3>2 DEF NoDir
  <2>2. pd \notin missing
    BY <2>1 DEF Missing
  <2>3. e[pd] # Nil
    BY <1>3, <2>1, <2>2 DEF F
  <2>4. NoDir[pd] = Nil
    BY DEF NoDir
  <2> QED BY <2>3, <2>4
<1> QED BY <1>2, <1>4 DEF e

\* The directory of a new thread is not empty.
LEMMA PoolIsMapped ==
  ASSUME NEW d, DirOk(d), NEW p, NEW fresh, \A k \in 1 .. Size[MaxOrder] : fresh[k] \in Nat
  PROVE  MappedDir(d, Frames(PoolStart, PoolPages, p), fresh) # NoDir
<1> DEFINE V == PoolStart .. PoolStart + PoolPages - 1
           missing == Missing(d, V)
           pd == PoolStart \div PerTable
           below == {q \in missing : q <= pd}
           e == MappedDir(d, Frames(PoolStart, PoolPages, p), fresh)
           F(x) == IF x \in missing THEN fresh[Cardinality({q \in missing : q <= x})] ELSE d[x]
<1>1. /\ PoolStart \in Nat /\ PoolPages \in Nat \ {0} /\ PoolPages \in 1 .. Size[MaxOrder]
      /\ PerTable \in Nat \ {0} /\ Entries \in Nat /\ Entries * PerTable \in Nat
      /\ PoolStart < Entries * PerTable
  <2>1. PoolStart \in Nat /\ PoolPages \in 1 .. Size[MaxOrder] /\ PoolStart + PoolPages <= Entries * PerTable
    BY PoolAssumption
  <2>2. PerTable \in Nat \ {0} /\ Entries \in Nat
    BY RequestAssumption
  <2>3. Size[MaxOrder] \in Nat
    BY OrdersAreNumbers, SizeOf
  <2>4. Entries * PerTable \in Nat
    BY <2>2
  <2> DEFINE z == Entries * PerTable
  <2> HIDE DEF z
  <2>5. z \in Nat /\ PoolStart + PoolPages <= z
    BY <2>1, <2>4 DEF z
  <2>6. PoolStart < z
    BY <2>1, <2>3, <2>5
  <2> QED BY <2>1, <2>2, <2>3, <2>4, <2>6 DEF z
<1>2. pd \in Pd
  <2>1. pd \in Nat /\ PoolStart % PerTable \in 0 .. PerTable - 1
        /\ PoolStart = PerTable * pd + (PoolStart % PerTable)
    BY <1>1, DivMod
  <2> HIDE DEF pd
  <2>2. ~(Entries <= pd)
    <3> SUFFICES ASSUME Entries <= pd PROVE FALSE
      OBVIOUS
    <3>1. PerTable * Entries <= PerTable * pd
      <4>1. CASE Entries = pd
        <5>1. PerTable * pd \in Nat
          BY <1>1, <2>1
        <5> QED BY <4>1, <5>1
      <4>2. CASE Entries < pd
        <5>1. PerTable * Entries + PerTable <= PerTable * pd
          BY <1>1, <2>1, <4>2, TimesGrows
        <5>2. PerTable * Entries \in Nat /\ PerTable * pd \in Nat
          BY <1>1, <2>1
        <5> QED BY <1>1, <5>1, <5>2
      <4> QED BY <1>1, <2>1, <4>1, <4>2
    <3>2. PerTable * Entries = Entries * PerTable
      BY <1>1
    <3>3. PerTable * pd \in Nat /\ PerTable * pd <= PoolStart
      <4>1. PerTable * pd \in Nat
        BY <1>1, <2>1
      <4> DEFINE x == PerTable * pd
                 y == PoolStart % PerTable
      <4>2. x \in Nat /\ y \in 0 .. PerTable - 1 /\ PoolStart = x + y
        BY <2>1, <4>1
      <4> HIDE DEF x, y
      <4>3. x <= PoolStart
        BY <1>1, <4>2
      <4> QED BY <4>1, <4>3 DEF x
    <3> DEFINE x == PerTable * pd
               z == Entries * PerTable
    <3>4. x \in Nat /\ z \in Nat /\ z <= x /\ x <= PoolStart /\ PoolStart < z
      BY <1>1, <3>1, <3>2, <3>3
    <3> HIDE DEF x, z
    <3> QED BY <1>1, <3>4
  <2> QED BY <1>1, <2>1, <2>2 DEF Pd
<1>3. PoolStart \in V
  BY <1>1
<1>4. e = [x \in Pd |-> F(x)]
  BY DEF MappedDir, Frames
<1> HIDE DEF e
<1>5. e[pd] = F(pd)
  BY <1>2, <1>4
<1>6. d[pd] = Nil => pd \in missing
  BY <1>2, <1>3 DEF Missing
<1>7. F(pd) # Nil
  <2>1. CASE pd \notin missing
    BY <1>6, <2>1
  <2>2. CASE pd \in missing
    <3>1. IsFiniteSet(missing) /\ Cardinality(missing) \in 0 .. Size[MaxOrder]
      BY <1>1, MissingCount
    <3>2. below \subseteq missing /\ pd \in below
      BY <1>2, <2>2, <1>1 DEF Pd
    <3> HIDE DEF below, missing
    <3>3. IsFiniteSet(below) /\ Cardinality(below) <= Cardinality(missing)
      BY <3>1, <3>2, FS_Subset
    <3>4. Cardinality(below) \in Nat /\ Cardinality(below) # 0
      BY <3>2, <3>3, FS_CardinalityType, FS_EmptySet
    <3>5. Cardinality(below) \in 1 .. Size[MaxOrder]
      BY <3>1, <3>3, <3>4, OrdersAreNumbers, SizeOf
    <3>6. fresh[Cardinality(below)] \in Nat
      BY <3>5
    <3>7. F(pd) = fresh[Cardinality(below)]
      BY <2>2 DEF below
    <3> HIDE DEF F
    <3>8. \A x \in Nat : x # Nil
      BY DEF Nil
    <3> QED BY <3>6, <3>7, <3>8
  <2> QED BY <2>1, <2>2
<1>8. NoDir[pd] = Nil
  BY <1>2 DEF NoDir
<1> HIDE DEF F
<1>9. e # NoDir
  BY <1>5, <1>7, <1>8
<1> QED BY <1>9 DEF e

(* The inductive invariant, and the steps.                                 *)

PageInv ==
  /\ mmap \in MemoryMaps
  /\ RecordsOk(records, stray)
  /\ TreeInv(tree, HeldBy(records, stray))
  /\ ReservedKept(tree, HeldBy(records, stray), mmap)
  /\ KeptOut(tree, HeldBy(records, stray), Beyond)
  /\ phase # "run" => RamBelow(tree)
  /\ DOMAIN dir = Dirs /\ \A d \in Dirs : DirOk(dir[d])
  /\ \A c \in Context : dir[c] = NoDir => records[c] = << >>
  /\ phase = "run" => ~panicked

\* The invariant holds after the boot.
LEMMA InitHolds ==
  ASSUME Init
  PROVE  PageInv
<1>1. mmap \in MemoryMaps /\ tree = Boot(mmap, Sections).tree /\ phase = "early"
      /\ records = [o \in Owners |-> << >>] /\ stray = {} /\ dir = [d \in Dirs |-> NoDir]
  BY DEF Init
<1>2. \A o \in Owners : records[o] = << >> /\ records[o] \in Seq(TNode) /\ DOMAIN records[o] = {}
  <2>1. << >> \in Seq(TNode) /\ DOMAIN << >> = {}
    OBVIOUS
  <2> QED BY <1>1, <2>1
<1>3. RecordsOk(records, stray)
  BY <1>1, <1>2 DEF RecordsOk
<1>4. HeldBy(records, stray) = {}
  BY <1>1, <1>2 DEF HeldBy, Range
<1>5. /\ tree \in FlagMaps /\ Tree(tree) /\ Merged(tree) /\ RamBelow(tree)
      /\ \A p \in Page : p \in Reserved(mmap) \cup Kernel => FlagOf(tree, p) # FreeRam
  BY <1>1, BootEffect
<1>6. TreeInv(tree, HeldBy(records, stray))
  BY <1>4, <1>5 DEF TreeInv, Blocks
<1>7. ReservedKept(tree, HeldBy(records, stray), mmap)
  BY <1>1, <1>4, <1>5 DEF ReservedKept, KeptOut
<1>8. DOMAIN dir = Dirs /\ \A d \in Dirs : DirOk(dir[d])
  <2>1. DirOk(NoDir)
    <3>1. \A pd \in Pd : NoDir[pd] = Nil
      BY DEF NoDir
    <3> QED BY <3>1 DEF DirOk, NoDir
  <2> QED BY <1>1, <2>1
<1>9. \A c \in Context : records[c] = << >>
  BY <1>2 DEF Owners
<1>10. phase # "run"
  BY <1>1
<1>11. KeptOut(tree, HeldBy(records, stray), Beyond)
  <2>1. Memory \in Nat
    <3>1. Size[MaxOrder] \in Nat
      BY OrdersAreNumbers, SizeOf
    <3> QED BY <3>1, MemoryAssumption
  <2>2. \A p \in Beyond : FlagOf(tree, p) # FreeRam
    BY <1>5, <2>1, PagesAreNumbers DEF RamBelow, Beyond
  <2> QED BY <1>4, <2>2 DEF KeptOut
<1> QED BY <1>1, <1>3, <1>5, <1>6, <1>7, <1>8, <1>9, <1>10, <1>11 DEF PageInv

\* The threads are neither syscore nor the template.
LEMMA ContextsAre ==
  /\ "syscore" \in Owners /\ "template" \in Dirs
  /\ \A c \in Context : c \in Owners /\ c \in Dirs /\ c # "syscore" /\ c # "template"
BY ContextAssumption DEF Owners, Dirs

\* What the request of syscore for its heap leaves.
LEMMA HeapStep ==
  ASSUME PageInv, AllocateHeap
  PROVE  /\ RecordsOk(records', stray')
         /\ Taken(tree, HeldBy(records, stray), tree', HeldBy(records', stray'))
         /\ phase' # "run" /\ RamBelow(tree')
<1> DEFINE s == AllocatePages(Fresh(tree), HeapPages)
           H == HeldBy(records, stray)
<1>1. RecordsOk(records, stray) /\ TreeInv(tree, H)
  BY DEF PageInv
<1>2. tree' = s.tree /\ stray' = stray \cup Range(s.got) /\ records' = records /\ phase' # "run"
  BY DEF AllocateHeap
<1>3. HeapPages \in 1 .. Size[MaxOrder]
  BY RequestAssumption
<1>4. AllocState(tree, H, s)
  <2>1. AllocState(tree, H, Fresh(tree))
    BY <1>1, FreshIs
  <2> HIDE DEF H
  <2> QED BY <1>3, <2>1, AllocEffect
<1> HIDE DEF s
<1>5. RecordsOk(records, stray \cup Range(s.got)) /\ HeldBy(records, stray \cup Range(s.got)) = H \cup Range(s.got)
  BY <1>1, <1>4, GotIsNew, GrowStray
<1>6. RecordsOk(records', stray') /\ HeldBy(records', stray') = H \cup Range(s.got)
  BY <1>2, <1>5
<1> HIDE DEF H
<1>7. Taken(tree, H, tree', HeldBy(records', stray'))
  BY <1>2, <1>4, <1>6 DEF Taken
<1>8. RamBelow(tree')
  <2>1. RamBelow(tree)
    BY DEF PageInv, AllocateHeap
  <2>2. \A p \in Page : FlagOf(s.tree, p) \in {FreeRam, UsedRam} => FlagOf(tree, p) \in {FreeRam, UsedRam}
    BY <1>4 DEF AllocState
  <2> QED BY <1>2, <2>1, <2>2 DEF RamBelow
<1> QED BY <1>2, <1>6, <1>7, <1>8 DEF H

\* A request of a thread.
LEMMA CallerStep ==
  ASSUME PageInv, NEW c \in Context, NEW v \in RequestAt, NEW n \in RequestSize, AllocForCaller(c, v, n)
  PROVE  /\ RecordsOk(records', stray')
         /\ Taken(tree, HeldBy(records, stray), tree', HeldBy(records', stray'))
         /\ DOMAIN dir' = Dirs /\ \A d \in Dirs : DirOk(dir'[d])
         /\ \A x \in Context : dir'[x] = NoDir => records'[x] = << >>
<1> DEFINE s == AllocateMapped(Fresh(tree), dir[c], v, n)
           base == s.got[1][2]
           at == IF v = 0 THEN base ELSE v
           fresh == [k \in 1 .. Size[MaxOrder] |-> s.got[Len(s.got)][2] + k - 1]
           new == MappedDir(dir[c], Frames(at, n, base), fresh)
           H == HeldBy(records, stray)
<1>1. RecordsOk(records, stray) /\ TreeInv(tree, H) /\ DOMAIN dir = Dirs /\ (\A d \in Dirs : DirOk(dir[d]))
      /\ \A x \in Context : dir[x] = NoDir => records[x] = << >>
  BY DEF PageInv
<1>2. /\ tree' = s.tree /\ records' = [records EXCEPT ![c] = @ \o s.got] /\ stray' = stray /\ dir[c] # NoDir
      /\ dir' = dir \/ dir' = [dir EXCEPT ![c] = new]
  BY DEF AllocForCaller, Live
<1>3. v \in Nat /\ n \in 1 .. Size[MaxOrder]
  BY RequestAssumption
<1>4. AllocState(tree, H, s)
  <2>1. AllocState(tree, H, Fresh(tree))
    BY <1>1, FreshIs
  <2> HIDE DEF H
  <2> QED BY <1>3, <2>1, MappedEffect
<1>5. DirOk(new) /\ new # NoDir
  <2>1. DirOk(dir[c])
    BY <1>1, ContextsAre
  <2> QED BY <1>2, <2>1, MappedDirKeeps
<1> HIDE DEF s, new
<1>6. c \in Owners
  BY ContextsAre
<1> DEFINE r == [records EXCEPT ![c] = @ \o s.got]
<1>7. RecordsOk(r, stray) /\ HeldBy(r, stray) = H \cup Range(s.got)
  <2>1. NewBlocks(s.got, H)
    BY <1>4, GotIsNew
  <2>2. Grown(r, records, c, s.got)
    BY <1>1, <1>6 DEF Grown, RecordsOk
  <2> HIDE DEF r, H
  <2>3. NewBlocks(s.got, HeldBy(records, stray)) /\ RecordsOk(records, stray)
    BY <1>1, <2>1 DEF H
  <2> QED BY <1>6, <2>2, <2>3, GrowRecord DEF H
<1>8. RecordsOk(records', stray') /\ HeldBy(records', stray') = H \cup Range(s.got)
  <2> HIDE DEF H, r
  <2> QED BY <1>2, <1>7 DEF r
<1>9. Taken(tree, H, tree', HeldBy(records', stray'))
  <2> HIDE DEF H
  <2> QED BY <1>2, <1>4, <1>8 DEF Taken
<1>10. DOMAIN dir' = Dirs /\ \A d \in Dirs : dir'[d] = dir[d] \/ (d = c /\ dir'[d] = new)
  BY <1>1, <1>2
<1>11. \A d \in Dirs : DirOk(dir'[d])
  BY <1>1, <1>5, <1>10
<1>12. ASSUME NEW x \in Context, dir'[x] = NoDir PROVE records'[x] = << >>
  <2>1. x # c
    BY <1>2, <1>5, <1>10, <1>12, ContextsAre
  <2>2. dir[x] = NoDir
    BY <1>10, <1>12, <2>1, ContextsAre
  <2>3. records'[x] = records[x]
    BY <1>1, <1>2, <2>1, ContextsAre DEF RecordsOk
  <2> QED BY <1>1, <2>2, <2>3
<1> QED BY <1>8, <1>9, <1>10, <1>11, <1>12

\* The end of a context.
LEMMA DestroyStep ==
  ASSUME PageInv, NEW c \in Context, DestroyContext(c)
  PROVE  /\ RecordsOk(records', stray')
         /\ Returned(tree, HeldBy(records, stray), tree', HeldBy(records', stray'))
         /\ DOMAIN dir' = Dirs /\ \A d \in Dirs : DirOk(dir'[d])
         /\ \A x \in Context : dir'[x] = NoDir => records'[x] = << >>
         /\ ~panicked'
<1> DEFINE q == records[c]
           freed == CHOOSE g : g = [i \in 0 .. Len(q) |->
                      IF i = 0 THEN [tree |-> tree, ok |-> TRUE] ELSE FreePages(g[i - 1], q[i])]
           s == freed[Len(q)]
           r == [records EXCEPT ![c] = << >>]
           H == HeldBy(records, stray)
           K == HeldBy(r, stray)
<1>1. RecordsOk(records, stray) /\ TreeInv(tree, H) /\ DOMAIN dir = Dirs /\ (\A d \in Dirs : DirOk(dir[d]))
      /\ \A x \in Context : dir[x] = NoDir => records[x] = << >>
  BY DEF PageInv
<1>2. /\ tree' = s.tree /\ panicked' = ~s.ok /\ records' = r /\ stray' = stray
      /\ dir' = [dir EXCEPT ![c] = NoDir]
  BY DEF DestroyContext
<1>3. c \in Owners /\ c \in Dirs
  BY ContextsAre
<1>4. RecordsOk(r, stray) /\ K \cap Range(q) = {} /\ H = K \cup Range(q)
  BY <1>1, <1>3, ClearRecord
<1>5. q \in Seq(TNode) /\ \A i, j \in DOMAIN q : q[i] = q[j] => i = j
  BY <1>1, <1>3 DEF RecordsOk
<1> HIDE DEF H, K
<1>6. TreeInv(tree, K) /\ TreeInv(tree, Range(q))
  BY <1>1, <1>4 DEF TreeInv, Blocks
<1>7. Freeable(tree, K, q)
  <2>1. \A i \in DOMAIN q : q[i] \notin K
    BY <1>4 DEF Range
  <2> QED BY <1>5, <1>6, <2>1 DEF Freeable
<1> HIDE DEF q
<1>8. /\ s.ok /\ TreeInv(s.tree, K)
      /\ \A p \in Page : FlagOf(s.tree, p) = IF p \in GotPages(q) THEN FreeRam ELSE FlagOf(tree, p)
  BY <1>7, FreeRuns
<1> HIDE DEF s, freed
<1>9. HeldBy(records', stray') = K /\ RecordsOk(records', stray')
  BY <1>2, <1>4 DEF K
<1>10. Returned(tree, H, tree', HeldBy(records', stray'))
  BY <1>2, <1>4, <1>7, <1>8, <1>9 DEF Returned
<1>11. DOMAIN dir' = Dirs /\ \A d \in Dirs : DirOk(dir'[d])
  <2>1. DirOk(NoDir)
    <3>1. \A pd \in Pd : NoDir[pd] = Nil
      BY DEF NoDir
    <3> QED BY <3>1 DEF DirOk, NoDir
  <2> QED BY <1>1, <1>2, <1>3, <2>1
<1>12. \A x \in Context : dir'[x] = NoDir => records'[x] = << >>
  BY <1>1, <1>2, <1>3, ContextsAre DEF RecordsOk
<1>13. ~panicked'
  BY <1>2, <1>8
<1> QED BY <1>9, <1>10, <1>11, <1>12, <1>13 DEF H

\* Appending is concatenation.
LEMMA AppendOne ==
  ASSUME NEW S, NEW q \in Seq(S), NEW x \in S
  PROVE  Append(q, x) = q \o <<x>>
OBVIOUS

\* Nothing before a sequence.
LEMMA EmptyBefore ==
  ASSUME NEW S, NEW q \in Seq(S)
  PROVE  << >> \o q = q
OBVIOUS

\* Of two blocks or more the last is not the first.
LEMMA LastOf ==
  ASSUME NEW S, NEW q \in Seq(S), Len(q) >= 2
  PROVE  q # << >> /\ Tail(q)[Len(Tail(q))] \in S
<1>1. Tail(q) \in Seq(S) /\ Len(Tail(q)) = Len(q) - 1 /\ Len(q) \in Nat
  OBVIOUS
<1>2. Len(Tail(q)) \in DOMAIN Tail(q)
  BY <1>1
<1>3. Tail(q)[Len(Tail(q))] \in S
  BY <1>1, <1>2
<1>4. q # << >>
  OBVIOUS
<1> QED BY <1>3, <1>4

\* A new thread, or what is left when there is no page or no thread for it.
LEMMA SpawnStep ==
  ASSUME PageInv, NEW c \in Context, SpawnThread(c)
  PROVE  /\ RecordsOk(records', stray')
         /\ Taken(tree, HeldBy(records, stray), tree', HeldBy(records', stray'))
         /\ DOMAIN dir' = Dirs /\ \A d \in Dirs : DirOk(dir'[d])
         /\ \A x \in Context : dir'[x] = NoDir => records'[x] = << >>
<1> DEFINE s == SpawnState
           q == s.got
           d == dir["template"]
           rest == IF s.got = << >> THEN << >> ELSE Tail(s.got)
           pool == Frames(PoolStart, PoolPages, rest[1][2])
           fresh == [k \in 1 .. Size[MaxOrder] |-> rest[Len(rest)][2] + k - 1]
           new == MappedDir(d, pool, fresh)
           h == <<q[1]>>
           H == HeldBy(records, stray)
<1>1. RecordsOk(records, stray) /\ TreeInv(tree, H) /\ DOMAIN dir = Dirs /\ (\A x \in Dirs : DirOk(dir[x]))
      /\ \A x \in Context : dir[x] = NoDir => records[x] = << >>
  BY DEF PageInv
<1>2. "syscore" \in Owners /\ "template" \in Dirs /\ c \in Owners /\ c \in Dirs /\ c # "syscore"
  BY ContextsAre
<1>3. records[c] = << >> /\ records \in [Owners -> Seq(TNode)]
  <2>1. dir[c] = NoDir
    BY DEF SpawnThread, Live
  <2> QED BY <1>1, <2>1 DEF RecordsOk
<1>4. AllocState(tree, H, s) /\ (~s.short => Len(s.got) >= 2)
  <2> HIDE DEF H
  <2> QED BY <1>1, SpawnEffect DEF SpawnState
<1>5. NewBlocks(q, H) /\ q \in Seq(TNode)
  BY <1>4, GotIsNew DEF NewBlocks
<1>6. tree' = s.tree
  BY DEF SpawnThread
<1> HIDE DEF s, H
\* The first block goes to syscore's context.
<1> DEFINE r1 == [records EXCEPT !["syscore"] = Append(@, q[1])]
<1>7. ASSUME q # << >>
      PROVE  /\ RecordsOk(r1, stray) /\ HeldBy(r1, stray) = H \cup Range(h)
             /\ NewBlocks(rest, HeldBy(r1, stray)) /\ H \cup Range(q) = HeldBy(r1, stray) \cup Range(rest)
             /\ r1[c] = << >> /\ rest \in Seq(TNode)
  <2>1. rest = Tail(q)
    BY <1>7
  <2>2. /\ q[1] \in TNode /\ NewBlocks(h, H)
        /\ NewBlocks(Tail(q), H \cup Range(h))
        /\ Range(q) = Range(h) \cup Range(Tail(q))
    <3> HIDE DEF q
    <3> QED BY <1>5, <1>7, HeadAndTail
  <2> HIDE DEF h, q
  <2>3. Append(records["syscore"], q[1]) = records["syscore"] \o h
    <3>1. records["syscore"] \in Seq(TNode)
      BY <1>2, <1>3
    <3> QED BY <2>2, <3>1, AppendOne DEF h
  <2>4. Grown(r1, records, "syscore", h)
    BY <1>2, <1>3, <2>3 DEF Grown
  <2>5. r1[c] = << >>
    BY <1>2, <1>3
  <2> HIDE DEF r1, rest
  <2>6. RecordsOk(r1, stray) /\ HeldBy(r1, stray) = H \cup Range(h)
    BY <1>1, <1>2, <2>2, <2>4, GrowRecord DEF H
  <2>7. rest \in Seq(TNode)
    BY <2>1, <2>2 DEF NewBlocks
  <2> QED BY <2>1, <2>2, <2>5, <2>6, <2>7
<1>8. CASE /\ ~s.short
           /\ dir' = [dir EXCEPT ![c] = new]
           /\ records' = [records EXCEPT !["syscore"] = Append(@, s.got[1]), ![c] = rest]
           /\ stray' = stray
  <2>1. q # << >> /\ Tail(q)[Len(Tail(q))] \in TNode
    <3> HIDE DEF q
    <3>1. Len(q) >= 2
      BY <1>4, <1>8 DEF q
    <3> QED BY <1>5, <3>1, LastOf
  <2>2. rest = Tail(q)
    BY <2>1
  <2>3. records' = [o \in Owners |-> IF o = c THEN r1[c] \o rest ELSE r1[o]]
    <3>1. << >> \o rest = rest
      <4>1. rest \in Seq(TNode)
        BY <1>7, <2>1
      <4> HIDE DEF rest
      <4> QED BY <4>1, EmptyBefore
    <3>2. r1[c] = << >>
      BY <1>7, <2>1
    <3>3. DOMAIN records = Owners
      BY <1>3
    <3>4. r1[c] \o rest = rest
      BY <3>1, <3>2
    <3> HIDE DEF rest
    <3>5. records' = [r1 EXCEPT ![c] = rest] /\ DOMAIN r1 = Owners
      BY <1>2, <1>8, <3>3
    <3> HIDE DEF r1
    <3> QED BY <3>4, <3>5
  <2>4. Grown(records', r1, c, rest)
    BY <2>3 DEF Grown
  <2>5. RecordsOk(records', stray) /\ HeldBy(records', stray) = HeldBy(r1, stray) \cup Range(rest)
    <3>1. RecordsOk(r1, stray) /\ NewBlocks(rest, HeldBy(r1, stray))
      BY <1>7, <2>1
    <3> HIDE DEF r1, rest
    <3> QED BY <1>2, <2>4, <3>1, GrowRecord
  <2>6. RecordsOk(records', stray') /\ HeldBy(records', stray') = H \cup Range(q)
    <3>1. H \cup Range(q) = HeldBy(r1, stray) \cup Range(rest)
      BY <1>7, <2>1
    <3> HIDE DEF r1, rest, q
    <3> QED BY <1>8, <2>5, <3>1
  <2>7. Taken(tree, H, tree', HeldBy(records', stray'))
    BY <1>4, <1>6, <2>6 DEF Taken
  <2>8. DirOk(new) /\ new # NoDir
    <3>1. DirOk(d)
      BY <1>1, <1>2
    <3>2. \A k \in 1 .. Size[MaxOrder] : fresh[k] \in Nat
      <4> DEFINE x == rest[Len(rest)][2]
      <4>1. x \in Nat
        BY <2>1, <2>2, TNodeFields
      <4> HIDE DEF x
      <4>2. \A k \in 1 .. Size[MaxOrder] : x + k - 1 \in Nat
        BY <4>1, OrdersAreNumbers, SizeOf
      <4> QED BY <4>2 DEF x
    <3> HIDE DEF d, fresh, rest
    <3> QED BY <3>1, <3>2, PoolIsMapped, MappedDirKeeps
  <2> HIDE DEF new, rest
  <2>9. DOMAIN dir' = Dirs /\ dir'[c] = new /\ \A x \in Dirs : x # c => dir'[x] = dir[x]
    BY <1>1, <1>2, <1>8
  <2>10. \A x \in Dirs : DirOk(dir'[x])
    BY <1>1, <2>8, <2>9
  <2>11. ASSUME NEW x \in Context, dir'[x] = NoDir PROVE records'[x] = << >>
    <3>1. x # c /\ dir[x] = NoDir /\ x \in Owners /\ x # "syscore"
      BY <2>8, <2>9, <2>11, ContextsAre
    <3>2. records'[x] = records[x]
      BY <1>3, <1>8, <3>1
    <3> QED BY <1>1, <3>1, <3>2
  <2> QED BY <2>6, <2>7, <2>9, <2>10, <2>11 DEF H
<1>9. CASE /\ records' = [records EXCEPT !["syscore"] = IF s.got = << >> THEN @ ELSE Append(@, s.got[1])]
           /\ stray' = stray \cup Range(rest)
           /\ dir' = dir
  <2>1. RecordsOk(records', stray') /\ HeldBy(records', stray') = H \cup Range(q)
    <3>1. CASE q = << >>
      <4>1. rest = << >> /\ Range(rest) = {} /\ Range(q) = {}
        BY <3>1 DEF Range
      <4>2. records' = records /\ stray' = stray
        BY <1>2, <1>3, <1>9, <3>1, <4>1
      <4> QED BY <1>1, <4>1, <4>2 DEF H
    <3>2. CASE q # << >>
      <4>1. records' = r1 /\ stray' = stray \cup Range(rest)
        BY <1>9, <3>2
      <4>2. /\ RecordsOk(r1, stray) /\ NewBlocks(rest, HeldBy(r1, stray))
            /\ H \cup Range(q) = HeldBy(r1, stray) \cup Range(rest)
        BY <1>7, <3>2
      <4> HIDE DEF r1, rest, q
      <4>3. RecordsOk(r1, stray \cup Range(rest)) /\ HeldBy(r1, stray \cup Range(rest)) = HeldBy(r1, stray) \cup Range(rest)
        BY <4>2, GrowStray
      <4> QED BY <4>1, <4>2, <4>3
    <3> QED BY <3>1, <3>2
  <2>2. Taken(tree, H, tree', HeldBy(records', stray'))
    BY <1>4, <1>6, <2>1 DEF Taken
  <2>3. ASSUME NEW x \in Context PROVE records'[x] = records[x]
    BY <1>2, <1>3, <1>9, ContextsAre
  <2> QED BY <1>1, <1>9, <2>1, <2>2, <2>3 DEF H
<1>10. \/ /\ ~s.short
          /\ dir' = [dir EXCEPT ![c] = new]
          /\ records' = [records EXCEPT !["syscore"] = Append(@, s.got[1]), ![c] = rest]
          /\ stray' = stray
       \/ /\ records' = [records EXCEPT !["syscore"] = IF s.got = << >> THEN @ ELSE Append(@, s.got[1])]
          /\ stray' = stray \cup Range(rest)
          /\ dir' = dir
  BY DEF SpawnThread, s
<1> QED BY <1>8, <1>9, <1>10

(* The theorems.                                                           *)

\* Each step keeps the invariant; it takes blocks, gives them back or neither.
LEMMA StepHolds ==
  ASSUME PageInv, [Next]_vars
  PROVE  /\ PageInv'
         /\ \/ Taken(tree, HeldBy(records, stray), tree', HeldBy(records', stray'))
            \/ Returned(tree, HeldBy(records, stray), tree', HeldBy(records', stray'))
            \/ UNCHANGED <<tree, records, stray>>
<1> DEFINE H == HeldBy(records, stray)
           K == HeldBy(records', stray')
           keeps == RecordsOk(records', stray') /\ (Taken(tree, H, tree', K) \/ Returned(tree, H, tree', K))
           dirs == /\ DOMAIN dir' = Dirs /\ \A d \in Dirs : DirOk(dir'[d])
                   /\ \A x \in Context : dir'[x] = NoDir => records'[x] = << >>
\* What each step has in common.
<1>1. ASSUME keeps, dirs, mmap' = mmap, phase' = "run" => ~panicked', phase' # "run" => RamBelow(tree')
      PROVE  PageInv'
  <2>1. TreeInv(tree, H) /\ ReservedKept(tree, H, mmap) /\ KeptOut(tree, H, Beyond)
        /\ mmap \in MemoryMaps
    BY DEF PageInv
  <2> HIDE DEF H, K
  <2>2. TreeInv(tree', K) /\ \A R : KeptOut(tree, H, R) => KeptOut(tree', K, R)
    BY <1>1, <2>1, TakenKeeps, ReturnedKeeps
  <2>3. \A m : ReservedKept(tree, H, m) => ReservedKept(tree', K, m)
    BY <2>2 DEF ReservedKept
  <2>4. RamBelow(tree)' = RamBelow(tree') /\ Beyond' = Beyond
    BY DEF RamBelow, Beyond, FlagOf, LeafOf, Leaves, IsLeaf
  <2> QED BY <1>1, <2>1, <2>2, <2>3, <2>4 DEF PageInv, K
<1>2. CASE AllocateHeap
  <2>1. keeps /\ phase' # "run" /\ Taken(tree, H, tree', K) /\ RamBelow(tree')
    BY <1>2, HeapStep
  <2>2. dir' = dir /\ mmap' = mmap /\ records' = records
    BY <1>2 DEF AllocateHeap
  <2>3. dirs
    BY <2>2 DEF PageInv
  <2> QED BY <1>1, <2>1, <2>2, <2>3
<1>3. CASE BuildTemplate
  <2>1. /\ mmap' = mmap /\ tree' = tree /\ records' = records /\ stray' = stray
        /\ phase' = "run" => ~panicked'
        /\ \/ dir' = dir
           \/ \E frames, fresh : dir' = [dir EXCEPT !["template"] = MappedDir(NoDir, frames, fresh)]
    BY <1>3 DEF BuildTemplate
  <2>2. dirs
    <3>1. CASE dir' = dir
      BY <2>1, <3>1 DEF PageInv
    <3>2. ASSUME NEW frames, NEW fresh, dir' = [dir EXCEPT !["template"] = MappedDir(NoDir, frames, fresh)]
          PROVE  dirs
      <4> DEFINE e == MappedDir(NoDir, frames, fresh)
      <4>1. DirOk(e)
        <5>1. DirOk(NoDir)
          <6>1. \A pd \in Pd : NoDir[pd] = Nil
            BY DEF NoDir
          <6> QED BY <6>1 DEF DirOk, NoDir
        <5> QED BY <5>1, MappedDirKeeps
      <4> HIDE DEF e
      <4>2. /\ DOMAIN dir' = Dirs /\ dir'["template"] = e
            /\ \A x \in Dirs : x # "template" => dir'[x] = dir[x]
        BY <3>2, ContextsAre DEF PageInv, e
      <4>3. \A d \in Dirs : DirOk(dir'[d])
        BY <4>1, <4>2 DEF PageInv
      <4>4. \A x \in Context : dir'[x] = NoDir => records'[x] = << >>
        BY <2>1, <4>2, ContextsAre DEF PageInv
      <4> QED BY <4>2, <4>3, <4>4
    <3> QED BY <2>1, <3>1, <3>2
  <2>3. PageInv'
    <3>1. TreeInv(tree, H) /\ RecordsOk(records, stray) /\ ReservedKept(tree, H, mmap) /\ mmap \in MemoryMaps
          /\ KeptOut(tree, H, Beyond) /\ RamBelow(tree)
      BY <1>3 DEF PageInv, BuildTemplate
    <3> QED BY <2>1, <2>2, <3>1 DEF PageInv
  <2> QED BY <2>1, <2>3
<1>4. ASSUME NEW c \in Context, SpawnThread(c)
      PROVE  PageInv' /\ Taken(tree, H, tree', K)
  <2>1. keeps /\ dirs /\ Taken(tree, H, tree', K)
    BY <1>4, SpawnStep
  <2>2. mmap' = mmap /\ phase' = "run" /\ ~panicked'
    BY <1>4 DEF SpawnThread
  <2> QED BY <1>1, <2>1, <2>2
<1>5. ASSUME NEW c \in Context, DestroyContext(c)
      PROVE  PageInv' /\ Returned(tree, H, tree', K)
  <2>1. keeps /\ dirs /\ Returned(tree, H, tree', K) /\ ~panicked'
    BY <1>5, DestroyStep
  <2>2. mmap' = mmap /\ phase' = "run"
    BY <1>5 DEF DestroyContext
  <2> QED BY <1>1, <2>1, <2>2
<1>6. ASSUME NEW c \in Context, NEW v \in RequestAt, NEW n \in RequestSize, AllocForCaller(c, v, n)
      PROVE  PageInv' /\ Taken(tree, H, tree', K)
  <2>1. keeps /\ dirs /\ Taken(tree, H, tree', K)
    BY <1>6, CallerStep
  <2>2. mmap' = mmap /\ phase' = "run" /\ ~panicked'
    BY <1>6 DEF AllocForCaller
  <2> QED BY <1>1, <2>1, <2>2
<1>7. CASE UNCHANGED vars
  <2>1. /\ mmap' = mmap /\ tree' = tree /\ panicked' = panicked /\ phase' = phase /\ records' = records
        /\ stray' = stray /\ dir' = dir
    BY <1>7 DEF vars
  <2>2. PageInv'
    BY <2>1 DEF PageInv
  <2> QED BY <2>1, <2>2
<1> QED BY <1>2, <1>3, <1>4, <1>5, <1>6, <1>7 DEF Next

\* The invariant is one.
LEMMA InvHolds ==
  Spec => []PageInv
<1>1. Init => PageInv
  BY InitHolds
<1>2. PageInv /\ [Next]_vars => PageInv'
  BY StepHolds
<1> QED BY <1>1, <1>2, PTL DEF Spec

\* The bits of each inner node are those of the leaves below it, whatever the
\* splits and merges before: ba_search, which prunes on them, misses nothing
\* (pnode_set_flags, pnode_repair_tree).
THEOREM NodesAlwaysSummarise ==
  Spec => []NodesSummariseLeaves
<1>1. PageInv => NodesSummariseLeaves
  <2> SUFFICES ASSUME PageInv, NEW n \in DOMAIN tree
               PROVE  LET below == {l \in Leaves(tree) : l = n \/ n \in Above(l)} IN
                        /\ tree[n].st = UNION {tree[l].st : l \in below}
                        /\ tree[n].mp = UNION {tree[l].mp : l \in below}
    BY DEF NodesSummariseLeaves
  <2>1. SummarisedAt(tree, n)
    BY TreesSummarise DEF PageInv, TreeInv
  <2> QED BY <2>1 DEF SummarisedAt, Below
<1> QED BY <1>1, InvHolds, PTL

BootedWell == phase # "run" => ~panicked

\* Once the boot went well, no operation panics over a block it takes or gives
\* back, and an aligned block of free RAM is always found (ba_search).
THEOREM SearchAlwaysFinds ==
  Spec => [](BootedWell => SearchIsComplete)
<1>1. PageInv /\ BootedWell => SearchIsComplete
  <2> SUFFICES ASSUME PageInv, BootedWell,
                      NEW n \in Node, n[2] % Size[n[1]] = 0, PagesOf(n) \subseteq PagesWith(tree, FreeRam)
               PROVE  Candidates(tree, n[1], "free", "ram") # {}
    BY DEF SearchIsComplete, PageInv, BootedWell
  <2>1. PICK o \in 0 .. MaxOrder, a \in Page : n = <<o, a>>
    BY DEF Node
  <2>2. n[1] = o /\ n[2] = a /\ o \in Orders /\ o \in Nat /\ a \in Nat
    BY <2>1, OrdersAreNumbers, PagesAreNumbers DEF Orders
  <2>3. NodeAt(o, a) = n
    <3>1. a % Size[o] = 0
      BY <2>2
    <3>2. a - (a % Size[o]) = a
      BY <2>2, <3>1
    <3> QED BY <2>1, <3>2 DEF NodeAt
  <2>4. n \in TNode
    BY <2>2, <2>3 DEF TNode
  <2> QED BY <2>4, SearchFinds DEF PageInv, TreeInv
<1> QED BY <1>1, InvHolds, PTL

\* For any memory map, no page of the kernel, not page 0 and no page a reserved
\* region shares is handed out, unless a usable region listed later shares it.
THEOREM ReservedPagesAlwaysStay == Spec => []ReservedPagesStay
<1>1. PageInv => ReservedPagesStay
  <2> SUFFICES ASSUME PageInv PROVE ReservedPagesStay
    OBVIOUS
  <2>1. Held = HeldBy(records, stray) /\ TreeInv(tree, Held) /\ KeptOut(tree, Held, Reserved(mmap) \cup Kernel)
    BY DEF PageInv, Held, HeldBy, ReservedKept
  <2>2. HeldPages \subseteq Page
    <3>1. \A b \in Held : b \in TNode
      BY <2>1, LeafOfLeaf DEF TreeInv, Blocks, Tree
    <3> QED BY <3>1, PagesWithin DEF HeldPages
  <2>3. \A p \in HeldPages : p \notin Reserved(mmap) \cup Kernel
    BY <2>1, <2>2 DEF HeldPages, KeptOut
  <2>4. HeldPages \cap (Reserved(mmap) \cup Kernel) = {}
    BY <2>3
  <2> QED BY <2>4 DEF ReservedPagesStay
<1> QED BY <1>1, InvHolds, PTL

(* The refinement of PageAllocator.                                        *)

Blocked(H) == {PagesOf(b) : b \in H}

AlignedBlock(b) ==
  \E size \in {Size[o] : o \in 0 .. MaxOrder}, a \in Page : a % size = 0 /\ b = a .. a + size - 1

\* The pages of a node are an aligned block.
LEMMA NodesAreAligned ==
  ASSUME NEW n \in TNode
  PROVE  AlignedBlock(PagesOf(n))
<1>1. n[1] \in 0 .. MaxOrder /\ n[1] \in Nat /\ n[2] \in Page /\ n[2] \in Nat /\ n = NodeAt(n[1], n[2])
  BY TNodeFields DEF Orders
<1> DEFINE size == Size[n[1]]
           a == n[2]
           r == a % size
<1>2. size \in Nat \ {0}
  BY <1>1, SizeOf
<1>3. a = a - r
  <2>1. n[2] = n[2] - (n[2] % Size[n[1]])
    BY <1>1 DEF NodeAt
  <2> QED BY <2>1
<1>4. r \in 0 .. size - 1
  BY <1>1, <1>2, DivMod
<1>5. r = 0
  <2> HIDE DEF r, size, a
  <2>1. a \in Nat
    BY <1>1 DEF a
  <2> QED BY <1>2, <1>3, <1>4, <2>1
<1>6. PagesOf(n) = a .. a + size - 1
  BY DEF PagesOf
<1>7. a % size = 0
  BY <1>5
<1> HIDE DEF size, a
<1> QED BY <1>1, <1>6, <1>7 DEF AlignedBlock, size, a

\* Two blocks handed out are one or have no page in common.
LEMMA BlocksApart ==
  ASSUME NEW t, NEW H, TreeInv(t, H), NEW b \in H, NEW c \in H
  PROVE  /\ b \in TNode /\ PagesOf(b) \subseteq Page /\ PagesOf(b) # {}
         /\ b = c \/ PagesOf(b) \cap PagesOf(c) = {}
<1>1. b \in Leaves(t) /\ c \in Leaves(t) /\ Shape(t)
  BY DEF TreeInv, Blocks, Tree
<1>2. b \in TNode /\ (b = c \/ PagesOf(b) \cap PagesOf(c) = {})
  BY <1>1, LeafOfLeaf
<1>3. PagesOf(b) \subseteq Page /\ b[2] \in PagesOf(b)
  BY <1>2, PagesWithin
<1> QED BY <1>2, <1>3

\* The pages of the blocks in K that are not in H are those of sets not in H.
LEMMA AddedBlocks ==
  ASSUME NEW t, NEW H, NEW N, TreeInv(t, H \cup N), H \cap N = {}
  PROVE  /\ Blocked(H) \subseteq Blocked(H \cup N)
         /\ Blocked(H \cup N) \ Blocked(H) = Blocked(N)
<1> DEFINE K == H \cup N
<1>1. Blocked(H) \subseteq Blocked(K) /\ Blocked(K) = Blocked(H) \cup Blocked(N)
  BY DEF Blocked
<1>2. ASSUME NEW x, x \in Blocked(H), x \in Blocked(N) PROVE FALSE
  <2>1. PICK b \in H, c \in N : x = PagesOf(b) /\ x = PagesOf(c)
    BY <1>2 DEF Blocked
  <2>2. b \in K /\ c \in K /\ b # c
    BY <2>1
  <2>3. PagesOf(b) # {} /\ (b = c \/ PagesOf(b) \cap PagesOf(c) = {})
    BY <2>2, BlocksApart
  <2> QED BY <2>1, <2>2, <2>3
<1> QED BY <1>1, <1>2

\* A request is a step of the abstract allocator.
LEMMA TakenIsTake ==
  ASSUME NEW t, NEW H, NEW u, NEW K, TreeInv(t, H), Taken(t, H, u, K)
  PROVE  LET new == Blocked(K) \ Blocked(H) IN
         /\ Blocked(H) \subseteq Blocked(K)
         /\ \A b \in new : AlignedBlock(b) /\ b \subseteq PagesWith(t, FreeRam)
         /\ \A b, c \in new : b = c \/ b \cap c = {}
         /\ PagesWith(u, FreeRam) = PagesWith(t, FreeRam) \ UNION new
<1>1. PICK s : AllocState(t, H, s) /\ u = s.tree /\ K = H \cup Range(s.got)
  BY DEF Taken
<1> DEFINE N == Range(s.got)
<1>2. TreeInv(u, K) /\ Shape(t) /\ Shape(u)
  BY <1>1, TakenKeeps DEF TreeInv, Tree
<1>3. H \cap N = {}
  BY <1>1 DEF AllocState, Range
<1> HIDE DEF N
<1>4. Blocked(H) \subseteq Blocked(K) /\ Blocked(K) \ Blocked(H) = Blocked(N)
  <2>1. K = H \cup N
    BY <1>1 DEF N
  <2>2. TreeInv(u, H \cup N)
    BY <1>2, <2>1
  <2> QED BY <1>3, <2>1, <2>2, AddedBlocks
<1>5. \A p \in Page : FlagOf(t, p) = FreeRam <=> FlagOf(u, p) = FreeRam \/ p \in GotPages(s.got)
  BY <1>1 DEF AllocState
<1>6. GotPages(s.got) = UNION Blocked(N)
  BY GotIs DEF Blocked, N
<1>7. \A b \in N : b \in K /\ b \in TNode /\ PagesOf(b) \subseteq Page
  BY <1>1, <1>2, BlocksApart DEF N
<1>8. PagesWith(t, FreeRam) = {p \in Page : FlagOf(t, p) = FreeRam}
      /\ PagesWith(u, FreeRam) = {p \in Page : FlagOf(u, p) = FreeRam}
  BY <1>2, PagesByFlag
<1>9. ASSUME NEW x \in Blocked(N) PROVE AlignedBlock(x) /\ x \subseteq PagesWith(t, FreeRam)
  <2>1. PICK b \in N : x = PagesOf(b)
    BY DEF Blocked
  <2>2. AlignedBlock(x) /\ x \subseteq Page
    BY <1>7, <2>1, NodesAreAligned
  <2>3. \A p \in x : p \in GotPages(s.got)
    BY <1>6
  <2> QED BY <1>5, <1>8, <2>2, <2>3
<1>10. ASSUME NEW x \in Blocked(N), NEW y \in Blocked(N) PROVE x = y \/ x \cap y = {}
  <2>1. PICK b \in N, c \in N : x = PagesOf(b) /\ y = PagesOf(c)
    BY DEF Blocked
  <2> QED BY <1>2, <1>7, <2>1, BlocksApart
<1>11. \A p \in Page : p \in GotPages(s.got) => FlagOf(u, p) # FreeRam
  <2> SUFFICES ASSUME NEW p \in Page, p \in GotPages(s.got) PROVE FlagOf(u, p) # FreeRam
    OBVIOUS
  <2>1. PICK b \in N : p \in PagesOf(b)
    BY GotIs DEF N
  <2>2. b \in Leaves(u) /\ u[b] = UsedRam /\ Tree(u)
    BY <1>2, <1>7 DEF TreeInv, Blocks
  <2> QED BY <2>1, <2>2, BlockPages
<1>12. PagesWith(u, FreeRam) = PagesWith(t, FreeRam) \ UNION Blocked(N)
  <2>1. \A p \in Page : FlagOf(u, p) = FreeRam <=> FlagOf(t, p) = FreeRam /\ p \notin GotPages(s.got)
    BY <1>5, <1>11
  <2> QED BY <1>6, <1>8, <2>1
<1> QED BY <1>4, <1>9, <1>10, <1>12

\* The end of a context is a step of the abstract allocator.
LEMMA ReturnedIsReturn ==
  ASSUME NEW t, NEW H, NEW u, NEW K, TreeInv(t, H), Returned(t, H, u, K)
  PROVE  /\ Blocked(K) \subseteq Blocked(H)
         /\ PagesWith(u, FreeRam) = PagesWith(t, FreeRam) \cup UNION (Blocked(H) \ Blocked(K))
<1>1. PICK q : /\ Freeable(t, K, q) /\ H = K \cup Range(q) /\ TreeInv(u, K)
               /\ \A p \in Page : FlagOf(u, p) = IF p \in GotPages(q) THEN FreeRam ELSE FlagOf(t, p)
  BY DEF Returned
<1> DEFINE N == Range(q)
<1>2. Shape(t) /\ Shape(u)
  BY <1>1 DEF TreeInv, Tree
<1>3. K \cap N = {}
  BY <1>1 DEF Freeable, Range
<1> HIDE DEF N
<1>4. Blocked(K) \subseteq Blocked(H) /\ Blocked(H) \ Blocked(K) = Blocked(N)
  <2>1. H = K \cup N
    BY <1>1 DEF N
  <2>2. TreeInv(t, K \cup N)
    BY <2>1
  <2> QED BY <1>3, <2>1, <2>2, AddedBlocks
<1>5. GotPages(q) = UNION Blocked(N)
  BY GotIs DEF Blocked, N
<1>6. UNION Blocked(N) \subseteq Page
  <2>1. \A b \in N : PagesOf(b) \subseteq Page
    BY <1>1, BlocksApart DEF N
  <2> QED BY <2>1 DEF Blocked
<1>7. PagesWith(t, FreeRam) = {p \in Page : FlagOf(t, p) = FreeRam}
      /\ PagesWith(u, FreeRam) = {p \in Page : FlagOf(u, p) = FreeRam}
  BY <1>2, PagesByFlag
<1>8. PagesWith(u, FreeRam) = PagesWith(t, FreeRam) \cup UNION Blocked(N)
  BY <1>1, <1>5, <1>6, <1>7
<1> QED BY <1>4, <1>8

\* The contexts, the tree and the page requests implement an allocator that
\* hands out aligned blocks of free pages, never a page twice, and gets them
\* back whole when a context ends (allocate_pages, destroy_page_mgr_ctx).
THEOREM ImplementsTheAllocator ==
  Spec => ImplementsPageAllocator
<1>1. Held = HeldBy(records, stray)
  BY DEF Held, HeldBy
<1>2. ASSUME Init PROVE Allocator!Init
  <2>1. PageInv
    BY <1>2, InitHolds
  <2>2. PagesWith(tree, FreeRam) \subseteq Page
    BY <2>1, PagesByFlag DEF PageInv, TreeInv, Tree
  <2>3. Held = {}
    <3>1. stray = {} /\ \A o \in Owners : records[o] = << >>
      BY <1>2 DEF Init
    <3>2. DOMAIN << >> = {}
      OBVIOUS
    <3> QED BY <3>1, <3>2 DEF Held, Range
  <2> QED BY <2>2, <2>3 DEF Allocator!Init
<1>3. ASSUME PageInv, [Next]_vars
      PROVE  [Allocator!Next]_<<PagesWith(tree, FreeRam), {PagesOf(b) : b \in Held}>>
  <2> DEFINE H == HeldBy(records, stray)
             K == HeldBy(records', stray')
  <2>1. /\ \/ Taken(tree, H, tree', K)
           \/ Returned(tree, H, tree', K)
           \/ UNCHANGED <<tree, records, stray>>
        /\ TreeInv(tree, H)
    BY <1>3, StepHolds DEF PageInv
  <2>2. Held = H /\ Held' = K
    BY DEF Held, HeldBy
  <2> HIDE DEF H, K
  <2>3. {PagesOf(b) : b \in Held} = Blocked(H) /\ {PagesOf(b) : b \in Held}' = Blocked(K)
        /\ PagesWith(tree, FreeRam)' = PagesWith(tree', FreeRam)
    <3>1. {PagesOf(b) : b \in Held}' = {PagesOf(b) : b \in K}
      BY <2>2 DEF PagesOf
    <3>2. PagesWith(tree, FreeRam)' = PagesWith(tree', FreeRam)
      BY DEF PagesWith, PagesOf, Leaves, IsLeaf, NodeAt, FreeRam, Flag
    <3> QED BY <2>2, <3>1, <3>2 DEF Blocked
  <2>4. CASE Taken(tree, H, tree', K)
    <3>1. Allocator!Take
      <4> DEFINE new == Blocked(K) \ Blocked(H)
      <4>1. /\ Blocked(H) \subseteq Blocked(K)
            /\ \A b \in new : AlignedBlock(b) /\ b \subseteq PagesWith(tree, FreeRam)
            /\ \A b, c \in new : b = c \/ b \cap c = {}
            /\ PagesWith(tree', FreeRam) = PagesWith(tree, FreeRam) \ UNION new
        BY <2>1, <2>4, TakenIsTake
      <4>2. \A b : AlignedBlock(b) <=> Allocator!Aligned(b)
        BY DEF Allocator!Aligned, AlignedBlock
      <4> QED BY <2>3, <4>1, <4>2 DEF Allocator!Take
    <3> QED BY <3>1 DEF Allocator!Next
  <2>5. CASE Returned(tree, H, tree', K)
    <3>1. Allocator!Return
      BY <2>1, <2>3, <2>5, ReturnedIsReturn DEF Allocator!Return
    <3> QED BY <3>1 DEF Allocator!Next
  <2>6. CASE UNCHANGED <<tree, records, stray>>
    BY <2>6 DEF Held, PagesWith, PagesOf, Leaves, IsLeaf, NodeAt, FreeRam, Flag
  <2> QED BY <2>1, <2>4, <2>5, <2>6
<1> QED BY <1>2, <1>3, InvHolds, PTL DEF Spec, ImplementsPageAllocator, Allocator!Spec

(* The page tables.                                                        *)

\* The table of a virtual address is an entry of the directory.
LEMMA EntryOf ==
  ASSUME NEW v \in Virtual
  PROVE  /\ v \div PerTable \in Pd /\ v % PerTable \in 0 .. PerTable - 1
         /\ (v \div PerTable) * PerTable + (v % PerTable) = v
<1>1. v \in Nat /\ v < Entries * PerTable /\ PerTable \in Nat \ {0} /\ Entries \in Nat /\ Entries * PerTable \in Nat
  <2>1. PerTable \in Nat \ {0} /\ Entries \in Nat
    BY RequestAssumption
  <2>2. Entries * PerTable \in Nat
    BY <2>1
  <2> DEFINE z == Entries * PerTable
  <2>3. v \in 0 .. z - 1
    BY DEF Virtual
  <2> HIDE DEF z
  <2>4. z \in Nat
    BY <2>2 DEF z
  <2>5. v \in Nat /\ v < z
    BY <2>3, <2>4
  <2> QED BY <2>1, <2>2, <2>5 DEF z
<1> DEFINE pd == v \div PerTable
           r == v % PerTable
<1>2. pd \in Nat /\ r \in 0 .. PerTable - 1 /\ v = PerTable * pd + r
  BY <1>1, DivMod
<1> HIDE DEF pd, r
<1>3. pd * PerTable = PerTable * pd /\ PerTable * pd \in Nat
  BY <1>1, <1>2
<1>4. ~(Entries <= pd)
  <2> SUFFICES ASSUME Entries <= pd PROVE FALSE
    OBVIOUS
  <2>1. PerTable * Entries <= PerTable * pd
    <3>1. CASE Entries = pd
      BY <1>3, <3>1
    <3>2. CASE Entries < pd
      <4>1. PerTable * Entries + PerTable <= PerTable * pd
        BY <1>1, <1>2, <3>2, TimesGrows
      <4>2. PerTable * Entries \in Nat
        BY <1>1
      <4> QED BY <1>1, <1>3, <4>1, <4>2
    <3> QED BY <1>1, <1>2, <3>1, <3>2
  <2>2. PerTable * Entries = Entries * PerTable
    BY <1>1
  <2> DEFINE x == PerTable * pd
             z == Entries * PerTable
  <2>3. x \in Nat /\ z \in Nat /\ z <= x /\ v = x + r /\ v < z
    BY <1>1, <1>2, <1>3, <2>1, <2>2
  <2> HIDE DEF x, z
  <2> QED BY <1>2, <2>3
<1>5. pd \in Pd
  BY <1>1, <1>2, <1>4 DEF Pd
<1>6. pd * PerTable + r = v
  BY <1>2, <1>3
<1> QED BY <1>2, <1>5, <1>6 DEF pd, r

\* Each entry of a directory has a table of its own.
OwnTables(d) == \A a, b \in Pd : d[a] # Nil /\ d[a] = d[b] => a = b

\* The first k missing tables are as many as their positions say.
LEMMA Positions ==
  ASSUME NEW M, M \subseteq Pd, IsFiniteSet(M)
  PROVE  /\ \A pd \in M : Cardinality({q \in M : q <= pd}) \in 1 .. Cardinality(M)
         /\ \A a, b \in M : Cardinality({q \in M : q <= a}) = Cardinality({q \in M : q <= b}) => a = b
<1> DEFINE upTo(pd) == {q \in M : q <= pd}
<1>1. \A pd \in Pd : pd \in Nat
  BY RequestAssumption DEF Pd
<1>2. ASSUME NEW pd \in M
      PROVE  IsFiniteSet(upTo(pd)) /\ Cardinality(upTo(pd)) \in 1 .. Cardinality(M)
  <2>1. upTo(pd) \subseteq M /\ pd \in upTo(pd)
    BY <1>1, <1>2
  <2> DEFINE u == upTo(pd)
  <2> HIDE DEF u
  <2>2. IsFiniteSet(u) /\ Cardinality(u) <= Cardinality(M)
    BY <2>1, FS_Subset DEF u
  <2>3. Cardinality(u) \in Nat /\ Cardinality(M) \in Nat /\ Cardinality(u) # 0
    BY <2>1, <2>2, FS_CardinalityType, FS_EmptySet DEF u
  <2> QED BY <2>2, <2>3 DEF u
<1>3. ASSUME NEW a \in M, NEW b \in M, a < b PROVE Cardinality(upTo(a)) # Cardinality(upTo(b))
  <2>1. upTo(a) \subseteq upTo(b) /\ b \in upTo(b) /\ b \notin upTo(a)
    BY <1>1, <1>3
  <2> DEFINE x == upTo(a)
             y == upTo(b)
  <2> HIDE DEF x, y
  <2>2. x \subseteq y /\ x # y /\ IsFiniteSet(y)
    BY <1>2, <2>1 DEF x, y
  <2>3. Cardinality(y) = Cardinality(x) => y = x
    BY <2>2, FS_Subset
  <2> QED BY <2>2, <2>3 DEF x, y
<1>4. ASSUME NEW a \in M, NEW b \in M, Cardinality(upTo(a)) = Cardinality(upTo(b)) PROVE a = b
  <2>1. ~(a < b) /\ ~(b < a)
    BY <1>3, <1>4
  <2> QED BY <1>1, <2>1
<1> QED BY <1>2, <1>4

\* What x86_map_pages needs: tables from F, which hold no table of d.
Mappable(d, frames, fresh, F) ==
  LET M == Missing(d, DOMAIN frames) IN
    /\ DirOk(d) /\ OwnTables(d)
    /\ DOMAIN frames \subseteq Virtual
    /\ IsFiniteSet(M)
    /\ \A k \in 1 .. Cardinality(M) : fresh[k] \in F
    /\ \A j, k \in 1 .. Cardinality(M) : fresh[j] = fresh[k] => j = k
    /\ Nil \notin F
    /\ \A pd \in Pd : d[pd] \notin F

\* The directory that x86_map_pages leaves.
LEMMA DirOfMapping ==
  ASSUME NEW d, NEW frames, NEW fresh, NEW F, Mappable(d, frames, fresh, F)
  PROVE  LET M == Missing(d, DOMAIN frames)
             new == MappedDir(d, frames, fresh)
         IN  /\ DirOk(new) /\ OwnTables(new)
             /\ \A pd \in Pd : IF pd \in M THEN d[pd] = Nil /\ new[pd] \in F ELSE new[pd] = d[pd]
             /\ \A v \in DOMAIN frames : new[v \div PerTable] # Nil
<1> DEFINE M == Missing(d, DOMAIN frames)
           new == MappedDir(d, frames, fresh)
           pos(pd) == Cardinality({q \in M : q <= pd})
           G(pd) == IF pd \in M THEN fresh[pos(pd)] ELSE d[pd]
<1>1. M \subseteq Pd /\ \A pd \in M : d[pd] = Nil
  BY DEF Missing
<1>2. /\ DirOk(d) /\ OwnTables(d) /\ IsFiniteSet(M) /\ DOMAIN frames \subseteq Virtual /\ Nil \notin F
      /\ \A k \in 1 .. Cardinality(M) : fresh[k] \in F
      /\ \A j, k \in 1 .. Cardinality(M) : fresh[j] = fresh[k] => j = k
      /\ \A pd \in Pd : d[pd] \notin F
  BY DEF Mappable
<1>3. new = [pd \in Pd |-> G(pd)]
  BY DEF MappedDir
<1>4. \A v \in DOMAIN frames : v \div PerTable \in Pd /\ (d[v \div PerTable] = Nil => v \div PerTable \in M)
  BY <1>2, EntryOf DEF Missing
<1>5. /\ \A pd \in M : pos(pd) \in 1 .. Cardinality(M)
      /\ \A a, b \in M : pos(a) = pos(b) => a = b
  <2> HIDE DEF M
  <2> QED BY <1>1, <1>2, Positions
<1> HIDE DEF M, new, pos, G
<1>6. \A pd \in Pd : new[pd] = G(pd)
  BY <1>3
<1>7. DirOk(new)
  BY <1>3, <1>6 DEF DirOk
<1>8. \A pd \in M : fresh[pos(pd)] \in F
  BY <1>2, <1>5
<1>9. \A pd \in Pd : IF pd \in M THEN d[pd] = Nil /\ new[pd] = fresh[pos(pd)] /\ new[pd] \in F ELSE new[pd] = d[pd]
  BY <1>1, <1>6, <1>8 DEF G
<1>10. OwnTables(new)
  <2> SUFFICES ASSUME NEW a \in Pd, NEW b \in Pd, new[a] # Nil, new[a] = new[b] PROVE a = b
    BY DEF OwnTables
  <2>1. CASE a \in M /\ b \in M
    <3>1. fresh[pos(a)] = fresh[pos(b)]
      BY <1>9, <2>1
    <3>2. pos(a) = pos(b)
      BY <1>2, <1>5, <2>1, <3>1
    <3> QED BY <1>5, <2>1, <3>2
  <2>2. CASE a \in M /\ b \notin M
    BY <1>2, <1>9, <2>2
  <2>3. CASE a \notin M /\ b \in M
    BY <1>2, <1>9, <2>3
  <2>4. CASE a \notin M /\ b \notin M
    BY <1>2, <1>9, <2>4 DEF OwnTables
  <2> QED BY <2>1, <2>2, <2>3, <2>4
<1>11. \A v \in DOMAIN frames : new[v \div PerTable] # Nil
  BY <1>2, <1>4, <1>9
<1>12. \A pd \in Pd : IF pd \in M THEN d[pd] = Nil /\ new[pd] \in F ELSE new[pd] = d[pd]
  BY <1>9
<1> QED BY <1>7, <1>10, <1>11, <1>12 DEF M, new

\* What x86_map_pages makes of the tables: new is the directory it leaves, t
\* the tables, M what was missing.
TablesMapped(d, frames, M, new, t) ==
  /\ DOMAIN t = DOMAIN tables \cup {new[v \div PerTable] : v \in DOMAIN frames}
  /\ \A pg \in DOMAIN tables :
       (\A v \in DOMAIN frames : pg # new[v \div PerTable]) => t[pg] = tables[pg]
  /\ \A v \in DOMAIN frames : \A i \in 0 .. PerTable - 1 :
       LET pd == v \div PerTable
           x == pd * PerTable + i
       IN  t[new[pd]][i] = IF x \in DOMAIN frames THEN frames[x]
                           ELSE IF pd \in M THEN Nil ELSE tables[d[pd]][i]

\* The tables that x86_map_pages leaves.
LEMMA TablesOfMapping ==
  ASSUME NEW d, NEW frames, NEW fresh, NEW F, Mappable(d, frames, fresh, F)
  PROVE  TablesMapped(d, frames, Missing(d, DOMAIN frames), MappedDir(d, frames, fresh),
                      MappedTables(d, frames, fresh))
<1> DEFINE M == Missing(d, DOMAIN frames)
           new == MappedDir(d, frames, fresh)
           touched == {v \div PerTable : v \in DOMAIN frames}
           old(pd, i) == IF pd \in M THEN Nil ELSE tables[new[pd]][i]
           table(pd) == [i \in 0 .. PerTable - 1 |->
             IF pd * PerTable + i \in DOMAIN frames THEN frames[pd * PerTable + i] ELSE old(pd, i)]
           pages == {new[pd] : pd \in touched}
           which(pg) == CHOOSE pd \in touched : new[pd] = pg
           u == [pg \in pages |-> table(which(pg))]
           t == MappedTables(d, frames, fresh)
<1>1. t = Updated(tables, u)
  BY DEF MappedTables
<1>2. /\ OwnTables(new)
      /\ \A pd \in Pd : IF pd \in M THEN d[pd] = Nil /\ new[pd] \in F ELSE new[pd] = d[pd]
      /\ \A v \in DOMAIN frames : new[v \div PerTable] # Nil
  BY DirOfMapping
<1>3. touched \subseteq Pd
  BY EntryOf DEF Mappable
<1> HIDE DEF new, M
<1>4. \A pd \in touched : new[pd] # Nil
  BY <1>2
<1>5. \A pd \in touched : which(new[pd]) = pd
  <2> SUFFICES ASSUME NEW pd \in touched PROVE which(new[pd]) = pd
    OBVIOUS
  <2>1. \E x \in touched : new[x] = new[pd]
    OBVIOUS
  <2>2. which(new[pd]) \in touched /\ new[which(new[pd])] = new[pd]
    BY <2>1
  <2> HIDE DEF which
  <2> QED BY <1>2, <1>3, <1>4, <2>2 DEF OwnTables
<1> HIDE DEF which, touched
<1>6. DOMAIN u = pages /\ \A pd \in touched : new[pd] \in pages /\ u[new[pd]] = table(pd)
  BY <1>5
<1> HIDE DEF u
<1>7. /\ t = [m \in DOMAIN tables \cup pages |-> IF m \in pages THEN u[m] ELSE tables[m]]
  BY <1>1, <1>6 DEF Updated
<1> HIDE DEF t
<1>8. pages = {new[v \div PerTable] : v \in DOMAIN frames}
  BY DEF touched
<1>9. DOMAIN t = DOMAIN tables \cup pages
  BY <1>7
<1>10. \A pg \in DOMAIN tables : pg \notin pages => t[pg] = tables[pg]
  BY <1>7
<1>11. \A pd \in touched : t[new[pd]] = table(pd)
  <2> SUFFICES ASSUME NEW pd \in touched PROVE t[new[pd]] = table(pd)
    OBVIOUS
  <2>1. new[pd] \in pages /\ u[new[pd]] = table(pd)
    BY <1>6
  <2> HIDE DEF table, pages
  <2> QED BY <1>7, <2>1
<1>12. ASSUME NEW v \in DOMAIN frames, NEW i \in 0 .. PerTable - 1
       PROVE  LET pd == v \div PerTable
                  x == pd * PerTable + i
              IN  t[new[pd]][i] = IF x \in DOMAIN frames THEN frames[x]
                                  ELSE IF pd \in M THEN Nil ELSE tables[d[pd]][i]
  <2> DEFINE pd == v \div PerTable
  <2>1. pd \in touched
    BY DEF touched
  <2> HIDE DEF pd
  <2>2. t[new[pd]] = table(pd)
    BY <1>11, <2>1
  <2>3. pd \notin M => new[pd] = d[pd]
    BY <1>2, <1>3, <2>1
  <2>4. table(pd)[i] = IF pd * PerTable + i \in DOMAIN frames THEN frames[pd * PerTable + i] ELSE old(pd, i)
    OBVIOUS
  <2> HIDE DEF table
  <2> QED BY <2>2, <2>3, <2>4 DEF pd
<1>13. \A pg \in DOMAIN tables :
         (\A v \in DOMAIN frames : pg # new[v \div PerTable]) => t[pg] = tables[pg]
  BY <1>8, <1>10
<1>14. TablesMapped(d, frames, M, new, t)
  BY <1>8, <1>9, <1>12, <1>13 DEF TablesMapped
<1> QED BY <1>14 DEF t, new, M

\* The tables of a directory map onto own pages, or pages onto themselves.
Translates(t, d, own) ==
  \A pd \in Pd : d[pd] # Nil =>
    /\ d[pd] \in DOMAIN t
    /\ \A i \in 0 .. PerTable - 1 : t[d[pd]][i] \in own \cup {Nil, pd * PerTable + i}

\* Such a directory stays one when it maps own pages, or pages onto themselves.
LEMMA MappingTranslates ==
  ASSUME NEW d, NEW frames, NEW fresh, NEW F, Mappable(d, frames, fresh, F),
         NEW own, Translates(tables, d, own),
         \A x \in DOMAIN frames : frames[x] \in own \cup {x}
  PROVE  Translates(MappedTables(d, frames, fresh), MappedDir(d, frames, fresh), own)
<1> DEFINE M == Missing(d, DOMAIN frames)
           new == MappedDir(d, frames, fresh)
           t == MappedTables(d, frames, fresh)
<1>1. /\ OwnTables(new)
      /\ \A pd \in Pd : IF pd \in M THEN d[pd] = Nil /\ new[pd] \in F ELSE new[pd] = d[pd]
      /\ \A v \in DOMAIN frames : new[v \div PerTable] # Nil
  BY DirOfMapping
<1>2. TablesMapped(d, frames, M, new, t)
  BY TablesOfMapping
<1>3. \A v \in DOMAIN frames : v \div PerTable \in Pd
  BY EntryOf DEF Mappable
<1>4. \A pd \in M : \E v \in DOMAIN frames : v \div PerTable = pd
  BY DEF Missing
<1> HIDE DEF M, new, t
<1> SUFFICES ASSUME NEW pd \in Pd, new[pd] # Nil
             PROVE  /\ new[pd] \in DOMAIN t
                    /\ \A i \in 0 .. PerTable - 1 : t[new[pd]][i] \in own \cup {Nil, pd * PerTable + i}
  BY DEF Translates, new, t
<1>5. CASE \E v \in DOMAIN frames : v \div PerTable = pd
  <2>1. PICK v \in DOMAIN frames : v \div PerTable = pd
    BY <1>5
  <2>2. new[pd] \in DOMAIN t
    BY <1>2, <2>1 DEF TablesMapped
  <2> SUFFICES ASSUME NEW i \in 0 .. PerTable - 1
               PROVE  t[new[pd]][i] \in own \cup {Nil, pd * PerTable + i}
    BY <2>2
  <2> DEFINE x == pd * PerTable + i
  <2>3. t[new[pd]][i] = IF x \in DOMAIN frames THEN frames[x]
                        ELSE IF pd \in M THEN Nil ELSE tables[d[pd]][i]
    BY <1>2, <2>1 DEF TablesMapped
  <2>4. pd \notin M => d[pd] # Nil
    BY <1>1
  <2>5. pd \notin M => tables[d[pd]][i] \in own \cup {Nil, x}
    BY <2>4 DEF Translates
  <2> HIDE DEF x
  <2> QED BY <2>3, <2>5 DEF x
<1>6. CASE ~\E v \in DOMAIN frames : v \div PerTable = pd
  <2>1. pd \notin M /\ new[pd] = d[pd]
    BY <1>1, <1>4, <1>6
  <2>2. d[pd] \in DOMAIN tables /\ \A i \in 0 .. PerTable - 1 : tables[d[pd]][i] \in own \cup {Nil, pd * PerTable + i}
    BY <2>1 DEF Translates
  <2>3. \A v \in DOMAIN frames : new[pd] # new[v \div PerTable]
    BY <1>1, <1>3, <1>6 DEF OwnTables
  <2>4. new[pd] \in DOMAIN t /\ t[new[pd]] = tables[d[pd]]
    BY <1>2, <2>1, <2>2, <2>3 DEF TablesMapped
  <2> QED BY <2>2, <2>4
<1> QED BY <1>5, <1>6

\* From t to u the pages of P may change or go, and a table of the template may
\* get pages that are mapped onto themselves.
TablesKept(tmpl, t, u, P) ==
  \A pg \in DOMAIN t : pg \notin P =>
    /\ pg \in DOMAIN u
    /\ \/ u[pg] = t[pg]
       \/ \E pd \in Pd : pg = tmpl[pd] /\ \A i \in 0 .. PerTable - 1 : u[pg][i] \in {t[pg][i], pd * PerTable + i}

(* What the tables of the template and of the threads hold.                *)

Own(q) == UNION {PagesOf(b) : b \in Range(q)}

SeenAt(t, d, v) == IF d[v \div PerTable] = Nil THEN Nil ELSE t[d[v \div PerTable]][v % PerTable]

\* The template maps pages of the memory onto themselves.
TemplateOk(t, tmpl) ==
  /\ OwnTables(tmpl) /\ Translates(t, tmpl, {})
  /\ \A pd \in Pd : tmpl[pd] # Nil => tmpl[pd] \in Range(TemplateTables) /\ pd * PerTable < Memory

\* A thread whose context records q walks its own tables and the template's.
ThreadTables(t, tmpl, d, q) ==
  /\ q # << >> /\ OwnTables(d) /\ Translates(t, d, Own(q))
  /\ \A pd \in Pd : d[pd] \in Own(q) \cup {Nil, tmpl[pd]}
  /\ \A pd \in Pd : tmpl[pd] # Nil => d[pd] = tmpl[pd]
  /\ \A i \in 0 .. PoolPages - 1 : SeenAt(t, d, PoolStart + i) = q[1][2] + i

\* No page table of the template is in S.
TemplateOutside(tmpl, S) == \A pd \in Pd : tmpl[pd] # Nil => tmpl[pd] \notin S

PoolApart(tmpl) == \A i \in 0 .. PoolPages - 1 : tmpl[(PoolStart + i) \div PerTable] = Nil

\* The pages of the pool of a thread have virtual addresses.
LEMMA PoolIsVirtual ==
  \A i \in 0 .. PoolPages - 1 : PoolStart + i \in Virtual
<1> DEFINE z == Entries * PerTable
<1>1. z \in Nat
  BY RequestAssumption
<1>2. PoolStart \in Nat /\ PoolPages \in Nat /\ PoolStart + PoolPages <= z
  <2>1. Size[MaxOrder] \in Nat
    BY OrdersAreNumbers, SizeOf
  <2> QED BY <2>1, PoolAssumption
<1> HIDE DEF z
<1>3. \A i \in 0 .. PoolPages - 1 : PoolStart + i \in 0 .. z - 1
  BY <1>1, <1>2
<1> QED BY <1>3 DEF Virtual, z

\* The bound of the memory is a number.
LEMMA MemoryIsNumber ==
  Memory \in Nat
<1>1. Size[MaxOrder] \in Nat
  BY OrdersAreNumbers, SizeOf
<1> QED BY <1>1, MemoryAssumption

\* The pages of the machine have virtual addresses.
LEMMA PagesAreVirtual ==
  Page \subseteq Virtual
<1> DEFINE z == Entries * PerTable
<1>1. z \in Nat /\ z >= Size[MaxOrder] /\ Size[MaxOrder] \in Nat
  BY RequestAssumption, OrdersAreNumbers, SizeOf
<1> HIDE DEF z
<1>2. 0 .. Size[MaxOrder] - 1 \subseteq 0 .. z - 1
  BY <1>1
<1> QED BY <1>2 DEF Page, Virtual, z

\* What a mapping changes: tables of its own, and entries of the template's
\* where a page is mapped onto itself.
LEMMA MappingKeeps ==
  ASSUME NEW d, NEW frames, NEW fresh, NEW F, Mappable(d, frames, fresh, F), NEW P, F \subseteq P,
         NEW tmpl, \A pd \in Pd : d[pd] \in P \cup {Nil, tmpl[pd]},
         \/ \A x \in DOMAIN frames : frames[x] = x
         \/ \A x \in DOMAIN frames : tmpl[x \div PerTable] = Nil
  PROVE  TablesKept(tmpl, tables, MappedTables(d, frames, fresh), P)
<1> DEFINE M == Missing(d, DOMAIN frames)
           new == MappedDir(d, frames, fresh)
           t == MappedTables(d, frames, fresh)
<1>1. /\ \A pd \in Pd : IF pd \in M THEN d[pd] = Nil /\ new[pd] \in F ELSE new[pd] = d[pd]
      /\ \A v \in DOMAIN frames : new[v \div PerTable] # Nil
  BY DirOfMapping
<1>2. TablesMapped(d, frames, M, new, t)
  BY TablesOfMapping
<1>3. \A v \in DOMAIN frames : v \div PerTable \in Pd
  BY EntryOf DEF Mappable
<1> HIDE DEF M, new, t
<1> SUFFICES ASSUME NEW pg \in DOMAIN tables, pg \notin P
             PROVE  /\ pg \in DOMAIN t
                    /\ \/ t[pg] = tables[pg]
                       \/ \E pd \in Pd : pg = tmpl[pd] /\ \A i \in 0 .. PerTable - 1 :
                            t[pg][i] \in {tables[pg][i], pd * PerTable + i}
  BY DEF TablesKept, t
<1>4. pg \in DOMAIN t
  BY <1>2 DEF TablesMapped
<1>5. CASE \A v \in DOMAIN frames : pg # new[v \div PerTable]
  BY <1>2, <1>4, <1>5 DEF TablesMapped
<1>6. ASSUME NEW v \in DOMAIN frames, pg = new[v \div PerTable]
      PROVE  \E pd \in Pd : pg = tmpl[pd] /\ \A i \in 0 .. PerTable - 1 :
               t[pg][i] \in {tables[pg][i], pd * PerTable + i}
  <2> DEFINE pd == v \div PerTable
  <2>1. pd \in Pd /\ pd \notin M /\ pg = d[pd] /\ pg # Nil
    BY <1>1, <1>3, <1>6
  <2>2. pg = tmpl[pd] /\ tmpl[pd] # Nil
    BY <1>6, <2>1
  <2>3. \A x \in DOMAIN frames : frames[x] = x
    BY <2>2
  <2>4. ASSUME NEW i \in 0 .. PerTable - 1 PROVE t[pg][i] \in {tables[pg][i], pd * PerTable + i}
    <3> DEFINE x == pd * PerTable + i
    <3>1. t[pg][i] = IF x \in DOMAIN frames THEN frames[x] ELSE tables[d[pd]][i]
      <4>1. t[new[pd]][i] = IF x \in DOMAIN frames THEN frames[x]
                            ELSE IF pd \in M THEN Nil ELSE tables[d[pd]][i]
        BY <1>2 DEF TablesMapped
      <4> HIDE DEF x
      <4> QED BY <1>6, <2>1, <4>1
    <3> HIDE DEF x, pd
    <3> QED BY <2>1, <2>3, <3>1 DEF x
  <2> HIDE DEF pd
  <2> QED BY <2>1, <2>2, <2>4
<1> QED BY <1>4, <1>5, <1>6

\* The template keeps its tables when those of P change.
LEMMA TemplateKept ==
  ASSUME NEW t, NEW u, NEW tmpl, NEW P, TemplateOk(t, tmpl), TablesKept(tmpl, t, u, P), TemplateOutside(tmpl, P)
  PROVE  TemplateOk(u, tmpl)
<1> SUFFICES ASSUME NEW pd \in Pd, tmpl[pd] # Nil
             PROVE  /\ tmpl[pd] \in DOMAIN u
                    /\ \A i \in 0 .. PerTable - 1 : u[tmpl[pd]][i] \in {Nil, pd * PerTable + i}
  BY DEF TemplateOk, Translates
<1>1. OwnTables(tmpl) /\ tmpl[pd] \in DOMAIN t /\ \A i \in 0 .. PerTable - 1 : t[tmpl[pd]][i] \in {Nil, pd * PerTable + i}
  BY DEF TemplateOk, Translates
<1>2. /\ tmpl[pd] \in DOMAIN u
      /\ \/ u[tmpl[pd]] = t[tmpl[pd]]
         \/ \E e \in Pd : tmpl[pd] = tmpl[e] /\ \A i \in 0 .. PerTable - 1 :
              u[tmpl[pd]][i] \in {t[tmpl[pd]][i], e * PerTable + i}
  BY <1>1 DEF TablesKept, TemplateOutside
<1>3. ASSUME NEW e \in Pd, tmpl[pd] = tmpl[e] PROVE e = pd
  BY <1>1, <1>3 DEF OwnTables
<1> QED BY <1>1, <1>2, <1>3

\* A thread keeps its tables when those of P change, none of which is its own.
LEMMA ThreadKept ==
  ASSUME NEW t, NEW u, NEW tmpl, NEW d, NEW q, NEW P,
         ThreadTables(t, tmpl, d, q), OwnTables(tmpl), TablesKept(tmpl, t, u, P),
         TemplateOutside(tmpl, P), TemplateOutside(tmpl, Own(q)), PoolApart(tmpl), P \cap Own(q) = {}
  PROVE  ThreadTables(u, tmpl, d, q)
<1>1. ASSUME NEW pd \in Pd, d[pd] # Nil
      PROVE  /\ d[pd] \in DOMAIN u
             /\ \/ u[d[pd]] = t[d[pd]]
                \/ d[pd] = tmpl[pd] /\ \A i \in 0 .. PerTable - 1 : u[d[pd]][i] \in {t[d[pd]][i], pd * PerTable + i}
  <2>1. d[pd] \in DOMAIN t /\ (d[pd] \in Own(q) \/ d[pd] = tmpl[pd])
    BY <1>1 DEF ThreadTables, Translates
  <2>2. d[pd] \notin P
    BY <1>1, <2>1 DEF TemplateOutside
  <2>3. /\ d[pd] \in DOMAIN u
        /\ \/ u[d[pd]] = t[d[pd]]
           \/ \E e \in Pd : d[pd] = tmpl[e] /\ \A i \in 0 .. PerTable - 1 :
                u[d[pd]][i] \in {t[d[pd]][i], e * PerTable + i}
    BY <2>1, <2>2 DEF TablesKept
  <2>4. ASSUME NEW e \in Pd, d[pd] = tmpl[e] PROVE e = pd /\ d[pd] = tmpl[pd]
    <3>1. tmpl[e] # Nil /\ tmpl[e] \notin Own(q)
      BY <1>1, <2>4 DEF TemplateOutside
    <3>2. d[pd] = tmpl[pd]
      BY <2>1, <2>4, <3>1
    <3> QED BY <2>4, <3>1, <3>2 DEF OwnTables
  <2> QED BY <2>3, <2>4
<1>2. Translates(u, d, Own(q))
  <2> SUFFICES ASSUME NEW pd \in Pd, d[pd] # Nil
               PROVE  /\ d[pd] \in DOMAIN u
                      /\ \A i \in 0 .. PerTable - 1 : u[d[pd]][i] \in Own(q) \cup {Nil, pd * PerTable + i}
    BY DEF Translates
  <2>1. \A i \in 0 .. PerTable - 1 : t[d[pd]][i] \in Own(q) \cup {Nil, pd * PerTable + i}
    BY DEF ThreadTables, Translates
  <2> QED BY <1>1, <2>1
<1>3. ASSUME NEW i \in 0 .. PoolPages - 1 PROVE SeenAt(u, d, PoolStart + i) = q[1][2] + i
  <2> DEFINE v == PoolStart + i
             pd == v \div PerTable
  <2>1. pd \in Pd
    BY PoolIsVirtual, EntryOf
  <2>2. tmpl[pd] = Nil
    BY DEF PoolApart
  <2>3. SeenAt(t, d, v) = q[1][2] + i
    BY DEF ThreadTables
  <2>4. d[pd] # Nil => u[d[pd]] = t[d[pd]]
    BY <1>1, <2>1, <2>2
  <2> HIDE DEF v
  <2>5. SeenAt(u, d, v) = SeenAt(t, d, v)
    BY <2>4 DEF SeenAt
  <2> QED BY <2>3, <2>5 DEF v
<1> QED BY <1>2, <1>3 DEF ThreadTables

\* A directory that is a thread's, or will be one's, after x86_map_pages.
LEMMA ThreadMaps ==
  ASSUME NEW d, NEW frames, NEW fresh, NEW F, Mappable(d, frames, fresh, F),
         NEW q, NEW own, own \subseteq Own(q), F \subseteq Own(q), q # << >>,
         NEW tmpl, Translates(tables, d, own),
         \A pd \in Pd : d[pd] \in own \cup {Nil, tmpl[pd]},
         \A pd \in Pd : tmpl[pd] # Nil => d[pd] = tmpl[pd],
         \A x \in DOMAIN frames : frames[x] \in Own(q) \cup {x},
         \A i \in 0 .. PoolPages - 1 :
           \/ PoolStart + i \in DOMAIN frames /\ frames[PoolStart + i] = q[1][2] + i
           \/ /\ PoolStart + i \notin DOMAIN frames /\ q[1][2] + i # Nil
              /\ SeenAt(tables, d, PoolStart + i) = q[1][2] + i
  PROVE  ThreadTables(MappedTables(d, frames, fresh), tmpl, MappedDir(d, frames, fresh), q)
<1> DEFINE M == Missing(d, DOMAIN frames)
           new == MappedDir(d, frames, fresh)
           t == MappedTables(d, frames, fresh)
<1>1. /\ OwnTables(new)
      /\ \A pd \in Pd : IF pd \in M THEN d[pd] = Nil /\ new[pd] \in F ELSE new[pd] = d[pd]
      /\ \A v \in DOMAIN frames : new[v \div PerTable] # Nil
  BY DirOfMapping
<1>2. TablesMapped(d, frames, M, new, t)
  BY TablesOfMapping
<1>3. \A v \in DOMAIN frames : v \div PerTable \in Pd
  BY EntryOf DEF Mappable
<1>4. Translates(t, new, Own(q))
  <2>1. Translates(tables, d, Own(q))
    BY DEF Translates
  <2> QED BY <2>1, MappingTranslates
<1> HIDE DEF M, new, t
<1>5. \A pd \in Pd : new[pd] \in Own(q) \cup {Nil, tmpl[pd]}
  BY <1>1
<1>6. \A pd \in Pd : tmpl[pd] # Nil => new[pd] = tmpl[pd]
  BY <1>1
<1>7. ASSUME NEW i \in 0 .. PoolPages - 1 PROVE SeenAt(t, new, PoolStart + i) = q[1][2] + i
  <2> DEFINE v == PoolStart + i
             pd == v \div PerTable
             r == v % PerTable
  <2>1. pd \in Pd /\ r \in 0 .. PerTable - 1 /\ pd * PerTable + r = v
    BY PoolIsVirtual, EntryOf
  <2>2. CASE v \in DOMAIN frames /\ frames[v] = q[1][2] + i
    <3>1. new[pd] # Nil
      BY <1>1, <2>2
    <3> HIDE DEF v
    <3>2. t[new[pd]][r] = IF pd * PerTable + r \in DOMAIN frames THEN frames[pd * PerTable + r]
                          ELSE IF pd \in M THEN Nil ELSE tables[d[pd]][r]
      <4>1. v \in DOMAIN frames
        BY <2>2
      <4> QED BY <1>2, <2>1, <4>1 DEF TablesMapped
    <3>3. t[new[pd]][r] = frames[v]
      BY <2>1, <2>2, <3>2
    <3>4. SeenAt(t, new, v) = frames[v]
      BY <3>1, <3>3 DEF SeenAt
    <3> QED BY <2>2, <3>4 DEF v
  <2>3. CASE v \notin DOMAIN frames /\ q[1][2] + i # Nil /\ SeenAt(tables, d, v) = q[1][2] + i
    <3> HIDE DEF v
    <3>1. d[pd] # Nil /\ tables[d[pd]][r] = q[1][2] + i
      BY <2>3 DEF SeenAt
    <3>2. pd \notin M /\ new[pd] = d[pd]
      BY <1>1, <2>1, <3>1
    <3>3. t[new[pd]][r] = tables[d[pd]][r]
      <4>1. CASE \E w \in DOMAIN frames : w \div PerTable = pd
        <5>1. PICK w \in DOMAIN frames : w \div PerTable = pd
          BY <4>1
        <5>2. t[new[pd]][r] = IF pd * PerTable + r \in DOMAIN frames THEN frames[pd * PerTable + r]
                              ELSE IF pd \in M THEN Nil ELSE tables[d[pd]][r]
          <6> DEFINE e == w \div PerTable
          <6>1. r \in 0 .. PerTable - 1
            BY <2>1
          <6> HIDE DEF r
          <6>2. t[new[e]][r] = IF e * PerTable + r \in DOMAIN frames THEN frames[e * PerTable + r]
                               ELSE IF e \in M THEN Nil ELSE tables[d[e]][r]
            BY <1>2, <6>1 DEF TablesMapped
          <6>3. e = pd
            BY <5>1
          <6> HIDE DEF e, pd
          <6> QED BY <6>2, <6>3
        <5> QED BY <2>1, <2>3, <3>2, <5>2
      <4>2. CASE \A w \in DOMAIN frames : w \div PerTable # pd
        <5>1. \A w \in DOMAIN frames : new[pd] # new[w \div PerTable]
          BY <1>1, <1>3, <2>1, <4>2 DEF OwnTables
        <5>2. d[pd] \in DOMAIN tables
          BY <2>1, <3>1 DEF Translates
        <5>3. t[new[pd]] = tables[d[pd]]
          BY <1>2, <3>2, <5>1, <5>2 DEF TablesMapped
        <5> QED BY <5>3
      <4> QED BY <4>1, <4>2
    <3>4. SeenAt(t, new, v) = q[1][2] + i
      BY <3>1, <3>2, <3>3 DEF SeenAt
    <3> QED BY <3>4 DEF v
  <2> HIDE DEF pd, r
  <2> QED BY <2>2, <2>3
<1>8. ThreadTables(t, tmpl, new, q)
  BY <1>1, <1>4, <1>5, <1>6, <1>7 DEF ThreadTables
<1> QED BY <1>8 DEF t, new

(* The invariant of the page tables.                                       *)

TableInv ==
  /\ phase # "run" => \A d \in Dirs : dir[d] = NoDir
  /\ TemplateOk(tables, dir["template"])
  /\ \A c \in Live : ThreadTables(tables, dir["template"], dir[c], records[c])

\* The template has no table for the pool, nor for an address a request names.
TemplateApart ==
  /\ PoolApart(dir["template"])
  /\ \A v \in RequestAt, n \in RequestSize :
       v # 0 => \A x \in v .. v + n - 1 : dir["template"][x \div PerTable] = Nil

\* The blocks of two contexts have no page in common.
LEMMA OwnersApart ==
  ASSUME NEW t, NEW r, NEW x, RecordsOk(r, x), TreeInv(t, HeldBy(r, x)),
         NEW a \in Owners, NEW b \in Owners, a # b
  PROVE  Own(r[a]) \cap Own(r[b]) = {}
<1> SUFFICES ASSUME NEW k \in Range(r[a]), NEW l \in Range(r[b]) PROVE PagesOf(k) \cap PagesOf(l) = {}
  BY DEF Own
<1>1. k \in HeldBy(r, x) /\ l \in HeldBy(r, x)
  BY DEF HeldBy
<1>2. PICK i \in DOMAIN r[a], j \in DOMAIN r[b] : k = r[a][i] /\ l = r[b][j]
  BY DEF Range
<1>3. k # l
  BY <1>2 DEF RecordsOk
<1> QED BY <1>1, <1>3, BlocksApart

\* What a context records is handed out.
LEMMA OwnIsHeld ==
  ASSUME NEW c \in Owners
  PROVE  Own(records[c]) \subseteq HeldPages
<1>1. Range(records[c]) \subseteq Held
  BY DEF Held
<1> QED BY <1>1 DEF Own, HeldPages

\* While the template's tables are not handed out they are outside what is.
LEMMA TemplateIsOutside ==
  ASSUME NEW t, NEW tmpl, TemplateOk(t, tmpl), NEW S, S \cap Range(TemplateTables) = {}
  PROVE  TemplateOutside(tmpl, S)
BY DEF TemplateOk, TemplateOutside

\* A step of the thread c keeps the invariant when it changes pages of P only.
LEMMA StepTables ==
  ASSUME PageInv, TableInv, TemplateTablesStay, PoolApart(dir["template"]),
         phase = "run", phase' = "run", dir'["template"] = dir["template"],
         NEW c \in Context, NEW P, TablesKept(dir["template"], tables, tables', P),
         TemplateOutside(dir["template"], P),
         \A x \in Context : x # c =>
           dir'[x] = dir[x] /\ records'[x] = records[x] /\ P \cap Own(records[x]) = {},
         dir'[c] # NoDir => ThreadTables(tables', dir["template"], dir'[c], records'[c])
  PROVE  TableInv'
<1> DEFINE T == dir["template"]
<1>1. TemplateOk(tables, T)
  BY DEF TableInv
<1>2. TemplateOk(tables', T)
  BY <1>1, TemplateKept
<1>3. ASSUME NEW x \in Context, dir'[x] # NoDir
      PROVE  ThreadTables(tables', T, dir'[x], records'[x])
  <2>1. CASE x = c
    BY <1>3, <2>1
  <2>2. CASE x # c
    <3>1. dir'[x] = dir[x] /\ records'[x] = records[x] /\ P \cap Own(records[x]) = {}
      BY <2>2
    <3>2. ThreadTables(tables, T, dir[x], records[x])
      BY <1>3, <3>1 DEF TableInv, Live
    <3>3. TemplateOutside(T, Own(records[x]))
      <4>1. Own(records[x]) \subseteq HeldPages
        BY OwnIsHeld, ContextsAre
      <4>2. Own(records[x]) \cap Range(TemplateTables) = {}
        BY <4>1 DEF TemplateTablesStay
      <4> QED BY <1>1, <4>2, TemplateIsOutside
    <3>4. OwnTables(T)
      BY <1>1 DEF TemplateOk
    <3> HIDE DEF T
    <3>5. ThreadTables(tables', T, dir[x], records[x])
      BY <3>1, <3>2, <3>3, <3>4, ThreadKept DEF T
    <3> QED BY <3>1, <3>5
  <2> QED BY <2>1, <2>2
<1>4. Live' = {x \in Context : dir'[x] # NoDir}
  BY DEF Live, NoDir, Pd, Nil
<1> QED BY <1>2, <1>3, <1>4 DEF TableInv

\* The end of a context.
LEMMA DestroyTables ==
  ASSUME PageInv, TableInv, TemplateTablesStay, PoolApart(dir["template"]),
         NEW c \in Context, DestroyContext(c)
  PROVE  TableInv'
<1> DEFINE P == Own(records[c])
<1>1. /\ phase = "run" /\ phase' = "run" /\ dir' = [dir EXCEPT ![c] = NoDir]
      /\ records' = [records EXCEPT ![c] = << >>]
      /\ tables' = [pg \in DOMAIN tables \ (P \ Range(TemplateTables)) |-> tables[pg]]
  BY DEF DestroyContext, Own
<1>2. RecordsOk(records, stray) /\ TreeInv(tree, HeldBy(records, stray)) /\ DOMAIN dir = Dirs
  BY DEF PageInv
<1>3. DOMAIN records = Owners
  BY <1>2 DEF RecordsOk
<1>4. dir'["template"] = dir["template"] /\ dir'[c] = NoDir
      /\ \A x \in Context : x # c => dir'[x] = dir[x] /\ records'[x] = records[x]
  BY <1>1, <1>2, <1>3, ContextsAre
<1>5. \A x \in Context : x # c => P \cap Own(records[x]) = {}
  <2> SUFFICES ASSUME NEW x \in Context, x # c PROVE Own(records[c]) \cap Own(records[x]) = {}
    OBVIOUS
  <2> QED BY <1>2, OwnersApart, ContextsAre
<1>6. TemplateOutside(dir["template"], P)
  <2>1. P \subseteq HeldPages
    BY OwnIsHeld, ContextsAre
  <2>2. P \cap Range(TemplateTables) = {} /\ TemplateOk(tables, dir["template"])
    BY <2>1 DEF TemplateTablesStay, TableInv
  <2> HIDE DEF P
  <2> QED BY <2>2, TemplateIsOutside
<1>7. TablesKept(dir["template"], tables, tables', P)
  <2>1. P \cap Range(TemplateTables) = {}
    <3>1. P \subseteq HeldPages
      BY OwnIsHeld, ContextsAre
    <3> QED BY <3>1 DEF TemplateTablesStay
  <2> HIDE DEF P
  <2>2. P \ Range(TemplateTables) = P
    BY <2>1
  <2> QED BY <1>1, <2>2 DEF TablesKept
<1> HIDE DEF P
<1>8. \A x \in Context : x # c =>
        dir'[x] = dir[x] /\ records'[x] = records[x] /\ P \cap Own(records[x]) = {}
  BY <1>4, <1>5
<1>9. phase = "run" /\ phase' = "run" /\ dir'["template"] = dir["template"]
      /\ (dir'[c] # NoDir => ThreadTables(tables', dir["template"], dir'[c], records'[c]))
  BY <1>1, <1>4
<1> QED BY <1>6, <1>7, <1>8, <1>9, StepTables

\* The template is made of pages that map onto themselves.
LEMMA TemplateTablesMade ==
  ASSUME PageInv, TableInv, BuildTemplate
  PROVE  TableInv'
<1> DEFINE used == PagesWith(tree, UsedRam)
           same == [p \in used |-> p]
           M == Missing(NoDir, used)
           F == Range(TemplateTables)
           new == MappedDir(NoDir, same, TemplateTables)
           t == MappedTables(NoDir, same, TemplateTables)
<1>1. /\ phase = "heap" /\ records' = records
      /\ \/ dir' = dir /\ tables' = tables /\ phase' = phase
         \/ /\ Cardinality(M) <= Len(TemplateTables) /\ phase' = "run"
            /\ dir' = [dir EXCEPT !["template"] = new] /\ tables' = t
  BY DEF BuildTemplate
<1>2. DOMAIN dir = Dirs /\ \A d \in Dirs : dir[d] = NoDir
  BY <1>1 DEF PageInv, TableInv
<1>3. CASE dir' = dir /\ tables' = tables /\ phase' = phase
  <2>1. Live' = Live
    BY <1>3 DEF Live, NoDir, Pd, Nil
  <2> QED BY <1>1, <1>3, <2>1 DEF TableInv, NoDir, Pd, Nil
<1>4. CASE /\ Cardinality(M) <= Len(TemplateTables) /\ phase' = "run"
           /\ dir' = [dir EXCEPT !["template"] = new] /\ tables' = t
  <2>1. used \subseteq Page
    <3>1. \A l \in Leaves(tree) : PagesOf(l) \subseteq Page
      <4>1. Leaves(tree) \subseteq TNode
        BY LeafOfLeaf DEF PageInv, TreeInv, Tree
      <4> QED BY <4>1, PagesWithin
    <3> QED BY <3>1 DEF PagesWith
  <2>11. \A p \in used : p < Memory
    <3>1. Shape(tree) /\ RamBelow(tree)
      BY <1>1 DEF PageInv, TreeInv, Tree
    <3> QED BY <3>1, PagesByFlag DEF RamBelow
  <2> HIDE DEF used
  <2>2. \A pd \in Pd : NoDir[pd] = Nil
    BY DEF NoDir
  <2>3. Mappable(NoDir, same, TemplateTables, F)
    <3>1. DirOk(NoDir) /\ OwnTables(NoDir)
      BY <2>2 DEF DirOk, OwnTables, NoDir
    <3>2. DOMAIN same = used /\ used \subseteq Virtual
      BY <2>1, PagesAreVirtual
    <3>3. IsFiniteSet(M)
      <4>1. IsFiniteSet(Pd)
        <5>1. Entries \in Nat
          BY RequestAssumption
        <5> QED BY <5>1, FS_Interval DEF Pd
      <4>2. M \subseteq Pd
        BY DEF Missing
      <4> QED BY <4>1, <4>2, FS_Subset
    <3>4. Cardinality(M) \in Nat
      BY <3>3, FS_CardinalityType
    <3>5. /\ TemplateTables \in Seq(Page)
          /\ \A i, j \in DOMAIN TemplateTables : TemplateTables[i] = TemplateTables[j] => i = j
      BY TemplateAssumption
    <3> DEFINE m == Cardinality(M)
    <3> HIDE DEF m, M
    <3>6. DOMAIN TemplateTables = 1 .. Len(TemplateTables) /\ Len(TemplateTables) \in Nat
      BY <3>5
    <3>7. m \in Nat /\ m <= Len(TemplateTables)
      BY <1>4, <3>4 DEF m
    <3>8. 1 .. m \subseteq DOMAIN TemplateTables
      BY <3>6, <3>7
    <3>9. F \subseteq Page
      BY <3>5 DEF Range
    <3>10. Nil \notin F /\ \A pd \in Pd : NoDir[pd] \notin F
      <4>1. Nil \notin Nat
        BY DEF Nil
      <4> QED BY <2>2, <3>9, <4>1, PagesAreNumbers
    <3>11. \A k \in 1 .. m : TemplateTables[k] \in F
      BY <3>8 DEF Range
    <3>12. \A j, k \in 1 .. m : TemplateTables[j] = TemplateTables[k] => j = k
      BY <3>5, <3>8
    <3>13. Missing(NoDir, DOMAIN same) = M
      BY <3>2 DEF M
    <3> HIDE DEF F, same
    <3> QED BY <3>1, <3>2, <3>3, <3>10, <3>11, <3>12, <3>13 DEF Mappable, m
  <2>4. Translates(tables, NoDir, {})
    BY <2>2 DEF Translates
  <2>5. Translates(t, new, {})
    <3>1. \A x \in DOMAIN same : same[x] \in {} \cup {x}
      OBVIOUS
    <3> HIDE DEF same
    <3> QED BY <2>3, <2>4, <3>1, MappingTranslates
  <2>6. /\ OwnTables(new)
        /\ \A pd \in Pd : IF pd \in M THEN NoDir[pd] = Nil /\ new[pd] \in F ELSE new[pd] = NoDir[pd]
    <3>1. DOMAIN same = used
      OBVIOUS
    <3> HIDE DEF same, F
    <3> QED BY <2>3, <3>1, DirOfMapping
  <2>7. ASSUME NEW pd \in Pd, new[pd] # Nil
        PROVE  new[pd] \in F /\ pd * PerTable < Memory
    <3> HIDE DEF new
    <3>1. pd \in M /\ new[pd] \in F
      BY <2>2, <2>6, <2>7
    <3>2. PICK v \in used : v \div PerTable = pd
      BY <3>1 DEF Missing
    <3>3. v \in Virtual /\ v \in Nat /\ v < Memory
      <4>1. v \in Page
        BY <2>1, <3>2
      <4> QED BY <2>11, <3>2, <4>1, PagesAreVirtual, PagesAreNumbers
    <3> DEFINE x == pd * PerTable
               r == v % PerTable
    <3>4. PerTable \in Nat /\ pd \in Nat /\ Memory \in Nat
      BY MemoryIsNumber, RequestAssumption DEF Pd
    <3>5. x \in Nat
      BY <3>4
    <3>6. r \in 0 .. PerTable - 1 /\ x + r = v
      BY <3>2, <3>3, EntryOf
    <3> HIDE DEF x, r
    <3>7. x < Memory
      BY <3>3, <3>4, <3>5, <3>6
    <3> QED BY <3>1, <3>7 DEF x
  <2> HIDE DEF new, t, F, M
  <2>8. TemplateOk(t, new)
    BY <2>5, <2>6, <2>7 DEF TemplateOk, F
  <2>9. dir'["template"] = new /\ \A c \in Context : dir'[c] = NoDir
    BY <1>2, <1>4, ContextsAre
  <2>10. Live' = {}
    BY <2>9 DEF Live, NoDir, Pd, Nil
  <2> QED BY <1>4, <2>8, <2>9, <2>10 DEF TableInv
<1> QED BY <1>1, <1>3, <1>4

(* The blocks of a request that maps pages.                                *)

\* The block that a request gets is large enough for it.
LEMMA BlockIsEnough ==
  ASSUME NEW t0, NEW H, NEW s, AllocState(t0, H, s), NEW n \in 1 .. Size[MaxOrder],
         ~AllocatePages(s, n).short
  PROVE  \E b \in TNode : /\ AllocatePages(s, n).got = Append(s.got, b)
                          /\ n <= Size[b[1]]
<1> DEFINE u == AllocatePages(s, n)
           node == Search(s.tree, Order(n), "free", "ram")
<1>1. PICK b \in TNode : u.got = Append(s.got, b)
  BY AllocEffect
<1>2. ~(s.short \/ Candidates(s.tree, Order(n), "free", "ram") = {})
  <2> SUFFICES ASSUME s.short \/ Candidates(s.tree, Order(n), "free", "ram") = {} PROVE FALSE
    OBVIOUS
  <2>1. u = [s EXCEPT !.short = TRUE]
    BY DEF AllocatePages
  <2>2. s = [tree |-> s.tree, got |-> s.got, short |-> s.short]
    BY DEF AllocState
  <2>3. u.short = TRUE
    BY <2>1, <2>2
  <2> QED BY <2>3
<1>3. u.got = Append(s.got, node)
  <2>1. u = [s EXCEPT !.tree = SetStatus(SplitTo(s.tree, node), node, "used"), !.got = Append(s.got, node)]
    BY <1>2 DEF AllocatePages
  <2>2. s = [tree |-> s.tree, got |-> s.got, short |-> s.short]
    BY DEF AllocState
  <2> DEFINE x == SetStatus(SplitTo(s.tree, node), node, "used")
             y == Append(s.got, node)
  <2>3. u = [s EXCEPT !.tree = x, !.got = y]
    BY <2>1
  <2> HIDE DEF x, y, u
  <2>4. u.got = y
    BY <2>2, <2>3
  <2> QED BY <2>4 DEF y
<1>4. node[1] = Order(n)
  BY DEF Search
<1> HIDE DEF u, node
<1>5. s.got \in Seq(TNode)
  BY DEF AllocState
<1>6. b = node
  <2>1. Append(s.got, b) = Append(s.got, node)
    BY <1>1, <1>3
  <2> QED BY <1>5, <2>1
<1>7. n <= Size[b[1]]
  BY <1>4, <1>6, OrderIs, OrdersAreNumbers, SizeOf
<1> QED BY <1>1, <1>7 DEF u

\* pages[L + 1] holds the n pages, and pages[L + 2] the tables that are missing.
BlocksFor(q, L, d, v, n) ==
  LET base == q[L + 1][2]
      at == IF v = 0 THEN base ELSE v
      need == Cardinality(Missing(d, at .. at + n - 1))
  IN  /\ n <= Size[q[L + 1][1]]
      /\ \/ need = 0 /\ Len(q) = L + 1
         \/ need # 0 /\ Len(q) = L + 2 /\ need <= Size[q[L + 2][1]]

\* pmgr_alloc_pages takes blocks that are large enough for both.
LEMMA MappedBlocks ==
  ASSUME NEW t0, NEW H, NEW s, AllocState(t0, H, s), NEW d, NEW v \in Nat, NEW n \in 1 .. Size[MaxOrder],
         ~AllocateMapped(s, d, v, n).short
  PROVE  BlocksFor(AllocateMapped(s, d, v, n).got, Len(s.got), d, v, n)
<1> DEFINE pages == AllocatePages(s, n)
           base == pages.got[Len(pages.got)][2]
           at == IF v = 0 THEN base ELSE v
           need == Cardinality(Missing(d, at .. at + n - 1))
           u == AllocateMapped(s, d, v, n)
           L == Len(s.got)
<1>1. u = IF pages.short \/ need = 0 THEN pages ELSE AllocatePages(pages, need)
  BY DEF AllocateMapped, WithTables
<1>2. AllocState(t0, H, pages)
  BY AllocEffect
<1> HIDE DEF pages, u
<1>3. ~pages.short
  BY <1>1 DEF u
<1>4. PICK b \in TNode : pages.got = Append(s.got, b) /\ n <= Size[b[1]]
  BY <1>3, BlockIsEnough DEF pages
<1>5. s.got \in Seq(TNode) /\ L \in Nat /\ pages.got \in Seq(TNode)
  <2>1. s.got \in Seq(TNode) /\ pages.got \in Seq(TNode)
    BY <1>2 DEF AllocState
  <2> QED BY <2>1
<1>6. Len(pages.got) = L + 1 /\ pages.got[L + 1] = b
  <2>1. Len(Append(s.got, b)) = L + 1 /\ Append(s.got, b)[L + 1] = b
    BY <1>5, AppendFacts
  <2> QED BY <1>4, <2>1
<1>7. at \in Nat /\ base = b[2]
  BY <1>6, TNodeFields
<1> HIDE DEF at
<1>8. need \in 0 .. Size[MaxOrder]
  BY <1>7, MissingCount
<1>9. at = IF v = 0 THEN b[2] ELSE v
  BY <1>7 DEF at
<1> HIDE DEF need, base, L
<1>10. CASE need = 0
  <2>1. u = pages
    BY <1>1, <1>10
  <2>2. u.got[L + 1] = b /\ Len(u.got) = L + 1
    BY <1>6, <2>1
  <2> QED BY <1>4, <1>9, <1>10, <2>2 DEF BlocksFor, need, u, L
<1>11. CASE need # 0
  <2>1. u = AllocatePages(pages, need) /\ need \in 1 .. Size[MaxOrder]
    BY <1>1, <1>3, <1>8, <1>11, OrdersAreNumbers, SizeOf
  <2>2. ~AllocatePages(pages, need).short
    BY <2>1 DEF u
  <2>3. PICK c \in TNode : AllocatePages(pages, need).got = Append(pages.got, c) /\ need <= Size[c[1]]
    BY <1>2, <2>1, <2>2, BlockIsEnough
  <2>4. u.got = Append(pages.got, c)
    BY <2>1, <2>3
  <2>5. /\ Len(Append(pages.got, c)) = L + 2 /\ Append(pages.got, c)[L + 2] = c
        /\ Append(pages.got, c)[L + 1] = b
    <3>1. pages.got \in Seq(TNode) /\ Len(pages.got) = L + 1 /\ L \in Nat
      BY <1>5, <1>6
    <3> DEFINE g == pages.got
    <3>2. g \in Seq(TNode) /\ Len(g) = L + 1 /\ L \in Nat /\ g[L + 1] = b
      BY <1>6, <3>1
    <3> HIDE DEF g
    <3>3. /\ Len(Append(g, c)) = L + 2 /\ Append(g, c)[L + 2] = c
          /\ Append(g, c)[L + 1] = b
      BY <3>2
    <3> QED BY <3>3 DEF g
  <2>6. Len(u.got) = L + 2 /\ u.got[L + 2] = c /\ u.got[L + 1] = b
    BY <2>4, <2>5
  <2> QED BY <1>4, <1>9, <1>11, <2>3, <2>6 DEF BlocksFor, need, u, L
<1> QED BY <1>10, <1>11

\* The pages that new tables are made of.
TablesFrom(q, d, at, n) ==
  IF Cardinality(Missing(d, at .. at + n - 1)) = 0 THEN {} ELSE PagesOf(q[Len(q)])

FreshFrom(q) == [k \in 1 .. Size[MaxOrder] |-> q[Len(q)][2] + k - 1]

\* With blocks that are large enough, and new, pages and tables can be mapped.
LEMMA BlocksMap ==
  ASSUME NEW d, DirOk(d), OwnTables(d), NEW q \in Seq(TNode), NEW v \in Nat, NEW n \in 1 .. Size[MaxOrder],
         BlocksFor(q, 0, d, v, n), NEW at \in Nat, at = IF v = 0 THEN q[1][2] ELSE v,
         at .. at + n - 1 \subseteq Virtual,
         \A pd \in Pd, x \in Range(q) : d[pd] \notin PagesOf(x)
  PROVE  /\ Mappable(d, Frames(at, n, q[1][2]), FreshFrom(q), TablesFrom(q, d, at, n))
         /\ TablesFrom(q, d, at, n) \subseteq Own(q)
         /\ DOMAIN Frames(at, n, q[1][2]) = at .. at + n - 1
         /\ \A x \in at .. at + n - 1 :
              Frames(at, n, q[1][2])[x] = q[1][2] + (x - at) /\ Frames(at, n, q[1][2])[x] \in Own(q)
<1> DEFINE base == q[1][2]
           V == at .. at + n - 1
           M == Missing(d, V)
           need == Cardinality(M)
           frames == Frames(at, n, base)
           last == q[Len(q)]
           F == TablesFrom(q, d, at, n)
<1>1. /\ n <= Size[q[1][1]]
      /\ \/ need = 0 /\ Len(q) = 1
         \/ need # 0 /\ Len(q) = 2 /\ need <= Size[q[2][1]]
  <2>1. 0 + 1 = 1 /\ 0 + 2 = 2
    OBVIOUS
  <2> QED BY <2>1 DEF BlocksFor
<1>2. q[1] \in TNode /\ last \in TNode /\ q[1] \in Range(q) /\ last \in Range(q)
  <2>1. Len(q) \in Nat /\ DOMAIN q = 1 .. Len(q)
    OBVIOUS
  <2> HIDE DEF need
  <2>2. 1 \in DOMAIN q /\ Len(q) \in DOMAIN q
    BY <1>1, <2>1
  <2> QED BY <2>2 DEF Range
<1>3. base \in Nat /\ last[2] \in Nat /\ Size[MaxOrder] \in Nat /\ n \in Nat
      /\ Size[q[1][1]] \in Nat /\ Size[last[1]] \in Nat
  <2>1. Size[MaxOrder] \in Nat /\ n \in Nat
    <3>1. Size[MaxOrder] \in Nat
      BY OrdersAreNumbers, SizeOf
    <3> QED BY <3>1
  <2>2. \A x \in TNode : x[2] \in Nat /\ Size[x[1]] \in Nat
    <3> TAKE x \in TNode
    <3> QED BY TNodeFields, OrdersAreNumbers, SizeOf
  <2> DEFINE b == q[1]
  <2>3. b \in TNode
    BY <1>2
  <2> HIDE DEF last, b
  <2>4. last[2] \in Nat /\ Size[last[1]] \in Nat /\ b[2] \in Nat /\ Size[b[1]] \in Nat
    BY <1>2, <2>2, <2>3
  <2> QED BY <2>1, <2>4 DEF b
<1>4. IsFiniteSet(M) /\ need \in 0 .. Size[MaxOrder]
  BY MissingCount
<1>5. DOMAIN frames = V /\ \A x \in V : frames[x] = base + (x - at)
  BY DEF Frames
<1>6. \A x \in V : frames[x] \in PagesOf(q[1])
  <2> SUFFICES ASSUME NEW x \in V PROVE base + (x - at) \in PagesOf(q[1])
    BY <1>5
  <2>1. x \in Int /\ at <= x /\ x <= at + n - 1
    OBVIOUS
  <2> DEFINE b == base
             z == Size[q[1][1]]
  <2>2. PagesOf(q[1]) = b .. b + z - 1
    BY DEF PagesOf
  <2>3. b \in Nat /\ z \in Nat /\ n <= z /\ n \in Nat
    BY <1>1, <1>3
  <2> HIDE DEF b, z
  <2>4. \A e \in Nat : e < n => b + e \in b .. b + z - 1
    BY <2>3
  <2>5. x - at \in Nat /\ x - at < n
    <3> HIDE DEF V, M, need, frames, F
    <3>1. at \in Nat /\ n \in Nat
      BY <1>3
    <3> QED BY <2>1, <3>1
  <2>6. b + (x - at) \in b .. b + z - 1
    BY <2>4, <2>5
  <2> QED BY <2>2, <2>6 DEF b
<1>7. PagesOf(q[1]) \subseteq Own(q) /\ PagesOf(last) \subseteq Own(q)
  BY <1>2 DEF Own
<1>8. F \subseteq Own(q) /\ F \subseteq PagesOf(last)
  BY <1>7 DEF TablesFrom
<1>9. Nil \notin F /\ \A pd \in Pd : d[pd] \notin F
  <2>1. PagesOf(last) \subseteq Nat
    BY <1>2, PagesWithin, PagesAreNumbers
  <2>2. Nil \notin Nat
    BY DEF Nil
  <2>3. \A pd \in Pd : d[pd] \notin PagesOf(last)
    BY <1>2
  <2> HIDE DEF F, last
  <2> QED BY <1>8, <2>1, <2>2, <2>3
<1>10. \A k \in 1 .. need : FreshFrom(q)[k] = last[2] + k - 1
  <2>1. \A k \in 1 .. need : k \in 1 .. Size[MaxOrder]
    <3> HIDE DEF need
    <3> QED BY <1>3, <1>4
  <2> HIDE DEF need
  <2> QED BY <2>1 DEF FreshFrom
<1>11. \A k \in 1 .. need : last[2] + k - 1 \in F
  <2> SUFFICES ASSUME NEW k \in 1 .. need PROVE last[2] + k - 1 \in F
    OBVIOUS
  <2> DEFINE z == Size[last[1]]
             b == last[2]
  <2>1. need # 0 /\ need <= z
    <3>1. need # 0
      <4> HIDE DEF need
      <4> QED BY <1>4
    <3> HIDE DEF need
    <3> QED BY <1>1, <3>1
  <2>2. F = PagesOf(last)
    BY <2>1 DEF TablesFrom
  <2>3. PagesOf(last) = b .. b + z - 1
    BY DEF PagesOf
  <2>4. b \in Nat /\ z \in Nat
    BY <1>3
  <2> HIDE DEF need, b, z
  <2>5. b + k - 1 \in b .. b + z - 1
    BY <1>4, <2>1, <2>4
  <2> QED BY <2>2, <2>3, <2>5 DEF b
<1>12. \A j, k \in 1 .. need : last[2] + j - 1 = last[2] + k - 1 => j = k
  <2> HIDE DEF need
  <2> QED BY <1>3
<1> DEFINE fresh == FreshFrom(q)
<1> HIDE DEF fresh, F, last, frames
<1>13. Mappable(d, frames, fresh, F)
  <2>1. \A k \in 1 .. need : fresh[k] = last[2] + k - 1
    BY <1>10 DEF fresh
  <2>2. /\ \A k \in 1 .. need : fresh[k] \in F
        /\ \A j, k \in 1 .. need : fresh[j] = fresh[k] => j = k
    <3> HIDE DEF need
    <3> QED BY <1>11, <1>12, <2>1
  <2>3. DOMAIN frames \subseteq Virtual /\ Missing(d, DOMAIN frames) = M
    BY <1>5
  <2> HIDE DEF M
  <2> QED BY <1>4, <1>9, <2>2, <2>3 DEF Mappable
<1>14. \A x \in V : frames[x] = base + (x - at) /\ frames[x] \in Own(q)
  BY <1>5, <1>6, <1>7
<1> QED BY <1>5, <1>8, <1>13, <1>14 DEF fresh, F, frames

\* Virtual addresses of the pages of a request.
LEMMA RequestIsVirtual ==
  ASSUME NEW at \in Nat, NEW n \in Nat \ {0}, at + n <= Entries * PerTable
  PROVE  at .. at + n - 1 \subseteq Virtual
<1> DEFINE z == Entries * PerTable
<1>1. z \in Nat /\ at + n <= z
  BY RequestAssumption
<1> HIDE DEF z
<1>2. at .. at + n - 1 \subseteq 0 .. z - 1
  BY <1>1
<1> QED BY <1>2 DEF Virtual, z

\* A block that a request has got has none of the pages recorded before.
LEMMA GotApart ==
  ASSUME NEW t0, NEW H, NEW s, AllocState(t0, H, s), NEW x \in Range(s.got), NEW y \in H
  PROVE  PagesOf(x) \cap PagesOf(y) = {}
<1>1. TreeInv(s.tree, H \cup Range(s.got))
  BY DEF AllocState, TreeInv, Blocks
<1>2. x # y
  BY DEF AllocState, Range
<1>3. x \in H \cup Range(s.got) /\ y \in H \cup Range(s.got)
  OBVIOUS
<1> DEFINE K == H \cup Range(s.got)
<1> HIDE DEF K
<1>4. TreeInv(s.tree, K) /\ x \in K /\ y \in K
  BY <1>1, <1>3 DEF K
<1> QED BY <1>2, <1>4, BlocksApart

\* The pages of a sequence of blocks with more at its end.
LEMMA OwnGrows ==
  ASSUME NEW q \in Seq(TNode), NEW g \in Seq(TNode)
  PROVE  /\ Own(q) \subseteq Own(q \o g) /\ Own(g) \subseteq Own(q \o g)
         /\ q # << >> => (q \o g)[1] = q[1] /\ q \o g # << >>
<1>1. Range(q) \subseteq Range(q \o g) /\ Range(g) \subseteq Range(q \o g)
  <2>1. \A i \in DOMAIN q : i \in DOMAIN (q \o g) /\ (q \o g)[i] = q[i]
    BY Concatenated
  <2>2. \A i \in DOMAIN g : Len(q) + i \in DOMAIN (q \o g) /\ (q \o g)[Len(q) + i] = g[i]
    OBVIOUS
  <2> QED BY <2>1, <2>2 DEF Range
<1>2. q # << >> => (q \o g)[1] = q[1] /\ q \o g # << >>
  OBVIOUS
<1> QED BY <1>1, <1>2 DEF Own

\* A thread walks its tables whatever else its context records.
LEMMA ThreadGrows ==
  ASSUME NEW t, NEW tmpl, NEW d, NEW r \in Seq(TNode), NEW g \in Seq(TNode), ThreadTables(t, tmpl, d, r)
  PROVE  ThreadTables(t, tmpl, d, r \o g)
<1> DEFINE q == r \o g
<1>1. Own(r) \subseteq Own(q) /\ q # << >> /\ q[1] = r[1]
  <2>1. r # << >>
    BY DEF ThreadTables
  <2> QED BY <2>1, OwnGrows
<1> HIDE DEF q
<1>2. Translates(t, d, Own(q))
  BY <1>1 DEF ThreadTables, Translates
<1>3. ThreadTables(t, tmpl, d, q)
  BY <1>1, <1>2 DEF ThreadTables
<1> QED BY <1>3 DEF q

\* The first block of a thread's context begins at a page.
LEMMA FirstIsPage ==
  ASSUME NEW r \in Seq(TNode), r # << >>
  PROVE  r[1] \in TNode /\ r[1] \in Range(r) /\ \A i \in Nat : r[1][2] + i # Nil
<1>1. 1 \in DOMAIN r
  OBVIOUS
<1>2. r[1] \in TNode /\ r[1] \in Range(r)
  BY <1>1 DEF Range
<1> DEFINE x == r[1][2]
<1>3. x \in Nat
  BY <1>2, TNodeFields
<1> HIDE DEF x
<1>4. \A i \in Nat : x + i # Nil
  BY <1>3 DEF Nil
<1> QED BY <1>2, <1>4 DEF x

\* The tables of a thread are not in the blocks of a request.
LEMMA TablesOutside ==
  ASSUME NEW t0, NEW H, NEW s, AllocState(t0, H, s), NEW r \in Seq(TNode), Range(r) \subseteq H,
         NEW d, NEW tmpl, \A pd \in Pd : d[pd] \in Own(r) \cup {Nil, tmpl[pd]},
         TemplateOutside(tmpl, Own(s.got))
  PROVE  \A pd \in Pd, x \in Range(s.got) : d[pd] \notin PagesOf(x)
<1> TAKE pd \in Pd, x \in Range(s.got)
<1>1. x \in TNode /\ PagesOf(x) \subseteq Own(s.got)
  <2>1. s.got \in Seq(TNode)
    BY DEF AllocState
  <2>2. x \in TNode
    BY <2>1 DEF Range
  <2> QED BY <2>2 DEF Own
<1>2. Nil \notin PagesOf(x)
  <2>1. PagesOf(x) \subseteq Nat
    BY <1>1, PagesWithin, PagesAreNumbers
  <2>2. Nil \notin Nat
    BY DEF Nil
  <2> QED BY <2>1, <2>2
<1>3. PagesOf(x) \cap Own(r) = {}
  <2> SUFFICES ASSUME NEW y \in Range(r) PROVE PagesOf(x) \cap PagesOf(y) = {}
    BY DEF Own
  <2> QED BY GotApart
<1>4. tmpl[pd] # Nil => tmpl[pd] \notin PagesOf(x)
  BY <1>1 DEF TemplateOutside
<1> QED BY <1>2, <1>3, <1>4

\* The pages a block without a given address is mapped at.
LEMMA BlockIsVirtual ==
  ASSUME NEW b \in TNode, NEW n \in 1 .. Size[MaxOrder], n <= Size[b[1]]
  PROVE  b[2] .. b[2] + n - 1 \subseteq Page \cap PagesOf(b)
<1>1. PagesOf(b) \subseteq Page /\ b[2] \in Nat /\ b[1] \in Nat
  BY PagesWithin, TNodeFields
<1> DEFINE x == b[2]
           z == Size[b[1]]
<1>2. x \in Nat /\ z \in Nat /\ n \in Nat /\ n <= z
  <2>1. z \in Nat /\ Size[MaxOrder] \in Nat
    BY <1>1, OrdersAreNumbers, SizeOf
  <2> HIDE DEF z
  <2> QED BY <1>1, <2>1 DEF z
<1>3. PagesOf(b) = x .. x + z - 1
  BY DEF PagesOf
<1> HIDE DEF x, z
<1>4. x .. x + n - 1 \subseteq x .. x + z - 1
  BY <1>2
<1> QED BY <1>1, <1>3, <1>4 DEF x

\* The tables after a request of a thread that gets its blocks.
LEMMA CallerMaps ==
  ASSUME NEW H, NEW s, AllocState(tree, H, s), ~s.short,
         NEW d, DirOk(d), NEW tmpl, NEW r \in Seq(TNode), Range(r) \subseteq H,
         NEW v \in RequestAt, NEW n \in RequestSize, BlocksFor(s.got, 0, d, v, n),
         ThreadTables(tables, tmpl, d, r), TemplateOutside(tmpl, Own(s.got)),
         \A p \in Own(s.got) : p < Memory,
         v # 0 => \A x \in v .. v + n - 1 : tmpl[x \div PerTable] = Nil,
         NEW at, at = IF v = 0 THEN s.got[1][2] ELSE v
  PROVE  LET frames == Frames(at, n, s.got[1][2])
             fresh == [k \in 1 .. Size[MaxOrder] |-> s.got[Len(s.got)][2] + k - 1]
         IN  /\ TablesKept(tmpl, tables, MappedTables(d, frames, fresh), Own(r \o s.got))
             /\ ThreadTables(MappedTables(d, frames, fresh), tmpl, MappedDir(d, frames, fresh), r \o s.got)
<1> DEFINE q == s.got
           e == r \o q
           V == at .. at + n - 1
           frames == Frames(at, n, q[1][2])
           fresh == FreshFrom(q)
           F == TablesFrom(q, d, at, n)
           own == Own(r)
<1>1. v \in Nat /\ n \in 1 .. Size[MaxOrder] /\ n \in Nat \ {0} /\ q \in Seq(TNode)
  <2>1. v \in Nat /\ n \in 1 .. Size[MaxOrder] /\ Size[MaxOrder] \in Nat
    BY RequestAssumption, OrdersAreNumbers, SizeOf
  <2>2. q \in Seq(TNode)
    BY DEF AllocState
  <2> QED BY <2>1, <2>2
<1>2. q # << >> /\ n <= Size[q[1][1]]
  <2>1. 0 + 1 = 1 /\ 0 + 2 = 2
    OBVIOUS
  <2>2. n <= Size[q[1][1]] /\ (Len(q) = 1 \/ Len(q) = 2)
    BY <2>1 DEF BlocksFor
  <2> QED BY <1>1, <2>2
<1>3. q[1] \in TNode /\ q[1][2] \in Nat
  BY <1>1, <1>2, FirstIsPage, TNodeFields
<1>4. at \in Nat
  BY <1>1, <1>3
<1>5. v = 0 => at = q[1][2] /\ V \subseteq Page /\ \A p \in V : p < Memory
  <2>1. q[1][2] .. q[1][2] + n - 1 \subseteq Page \cap PagesOf(q[1])
    BY <1>1, <1>2, <1>3, BlockIsVirtual
  <2>2. PagesOf(q[1]) \subseteq Own(q)
    <3>1. q[1] \in Range(q)
      BY <1>1, <1>2, FirstIsPage
    <3> QED BY <3>1 DEF Own
  <2> QED BY <2>1, <2>2
<1>6. V \subseteq Virtual
  <2>1. CASE v = 0
    BY <1>5, <2>1, PagesAreVirtual
  <2>2. CASE v # 0
    <3>1. v + n <= Entries * PerTable
      BY RequestAssumption
    <3>2. v .. v + n - 1 \subseteq Virtual
      BY <1>1, <3>1, RequestIsVirtual
    <3> QED BY <2>2, <3>2
  <2> QED BY <2>1, <2>2
<1>7. OwnTables(d) /\ Translates(tables, d, own) /\ r # << >>
      /\ (\A pd \in Pd : d[pd] \in own \cup {Nil, tmpl[pd]})
      /\ (\A pd \in Pd : tmpl[pd] # Nil => d[pd] = tmpl[pd])
      /\ \A i \in 0 .. PoolPages - 1 : SeenAt(tables, d, PoolStart + i) = r[1][2] + i
  BY DEF ThreadTables
<1>8. \A pd \in Pd, x \in Range(q) : d[pd] \notin PagesOf(x)
  BY <1>7, TablesOutside
<1> HIDE DEF q, V, frames, fresh, F, e, own
<1>9. /\ Mappable(d, frames, fresh, F)
      /\ F \subseteq Own(q) /\ DOMAIN frames = V
      /\ \A x \in V : frames[x] = q[1][2] + (x - at) /\ frames[x] \in Own(q)
  <2>1. BlocksFor(q, 0, d, v, n) /\ at = IF v = 0 THEN q[1][2] ELSE v
    BY DEF q
  <2>2. at .. at + n - 1 \subseteq Virtual
    BY <1>6 DEF V
  <2>3. /\ Mappable(d, Frames(at, n, q[1][2]), FreshFrom(q), TablesFrom(q, d, at, n))
        /\ TablesFrom(q, d, at, n) \subseteq Own(q)
        /\ DOMAIN Frames(at, n, q[1][2]) = at .. at + n - 1
        /\ \A x \in at .. at + n - 1 :
             Frames(at, n, q[1][2])[x] = q[1][2] + (x - at) /\ Frames(at, n, q[1][2])[x] \in Own(q)
    <3>1. OwnTables(d) /\ q \in Seq(TNode) /\ v \in Nat /\ n \in 1 .. Size[MaxOrder]
      BY <1>1, <1>7
    <3> QED BY <1>4, <1>8, <2>1, <2>2, <3>1, BlocksMap
  <2> QED BY <2>3 DEF V, frames, fresh, F
<1>10. /\ own \subseteq Own(e) /\ Own(q) \subseteq Own(e) /\ e # << >> /\ e[1] = r[1]
  BY <1>1, <1>7, OwnGrows DEF own, e
<1>11. \/ \A x \in DOMAIN frames : frames[x] = x
       \/ \A x \in DOMAIN frames : tmpl[x \div PerTable] = Nil
  <2>1. CASE v = 0
    <3>1. ASSUME NEW x \in V PROVE q[1][2] + (x - at) = x
      <4>1. x \in Int
        BY <1>4 DEF V
      <4> QED BY <1>3, <1>5, <2>1, <4>1
    <3> QED BY <1>9, <3>1
  <2>2. CASE v # 0
    <3>1. \A x \in v .. v + n - 1 : tmpl[x \div PerTable] = Nil
      BY <2>2
    <3> QED BY <1>9, <2>2, <3>1 DEF V
  <2> QED BY <2>1, <2>2
<1>12. TablesKept(tmpl, tables, MappedTables(d, frames, fresh), Own(e))
  <2>1. F \subseteq Own(e) /\ \A pd \in Pd : d[pd] \in Own(e) \cup {Nil, tmpl[pd]}
    BY <1>7, <1>9, <1>10
  <2> QED BY <1>9, <1>11, <2>1, MappingKeeps
<1>13. ASSUME NEW i \in 0 .. PoolPages - 1
       PROVE  PoolStart + i \notin DOMAIN frames /\ e[1][2] + i # Nil
              /\ SeenAt(tables, d, PoolStart + i) = e[1][2] + i
  <2>1. PoolPages \in Nat /\ PoolStart \in Nat /\ Memory \in Nat /\ PoolStart >= Memory
    <3>1. Size[MaxOrder] \in Nat
      BY OrdersAreNumbers, SizeOf
    <3> QED BY <3>1, MemoryIsNumber, PoolAssumption
  <2>2. i \in Nat
    BY <2>1
  <2>3. SeenAt(tables, d, PoolStart + i) = e[1][2] + i
    BY <1>7, <1>10
  <2>4. e[1][2] + i # Nil
    BY <1>7, <1>10, <2>2, FirstIsPage
  <2>5. PoolStart + i \notin V
    <3>1. CASE v = 0
      <4>1. \A p \in V : p < Memory
        BY <1>5, <3>1
      <4>2. ~(PoolStart + i < Memory)
        BY <2>1, <2>2
      <4> QED BY <4>1, <4>2
    <3>2. CASE v # 0
      <4>1. (v .. v + n - 1) \cap (PoolStart .. PoolStart + PoolPages - 1) = {}
        BY <3>2, PoolAssumption
      <4>2. PoolStart + i \in PoolStart .. PoolStart + PoolPages - 1
        BY <2>1
      <4>3. V = v .. v + n - 1
        BY <3>2 DEF V
      <4> QED BY <4>1, <4>2, <4>3
    <3> QED BY <3>1, <3>2
  <2> QED BY <1>9, <2>3, <2>4, <2>5
<1>14. \A x \in DOMAIN frames : frames[x] \in Own(e) \cup {x}
  BY <1>9, <1>10
<1>15. ThreadTables(MappedTables(d, frames, fresh), tmpl, MappedDir(d, frames, fresh), e)
  <2>1. F \subseteq Own(e)
    BY <1>9, <1>10
  <2>2. \A pd \in Pd : d[pd] \in own \cup {Nil, tmpl[pd]}
    BY <1>7
  <2>3. \A pd \in Pd : tmpl[pd] # Nil => d[pd] = tmpl[pd]
    BY <1>7
  <2> QED BY <1>7, <1>9, <1>10, <1>13, <1>14, <2>1, <2>2, <2>3, ThreadMaps
<1> QED BY <1>12, <1>15 DEF frames, fresh, e, q, FreshFrom

\* What the contexts record after a step has no page table of the template, nor
\* a page that two of them record.
LEMMA RecordsStayApart ==
  ASSUME PageInv', TableInv, TemplateTablesStay', NEW c \in Owners
  PROVE  /\ TemplateOutside(dir["template"], Own(records'[c]))
         /\ \A x \in Owners : x # c => Own(records'[c]) \cap Own(records'[x]) = {}
         /\ \A p \in Own(records'[c]) : p < Memory
<1>1. RecordsOk(records', stray') /\ TreeInv(tree', HeldBy(records', stray'))
  BY DEF PageInv
<1>2. \A x \in Owners : x # c => Own(records'[c]) \cap Own(records'[x]) = {}
  <2> SUFFICES ASSUME NEW x \in Owners, x # c PROVE Own(records'[c]) \cap Own(records'[x]) = {}
    OBVIOUS
  <2> QED BY <1>1, OwnersApart
<1>3. Own(records'[c]) \cap Range(TemplateTables) = {}
  BY DEF TemplateTablesStay, HeldPages, Held, Own
<1>4. TemplateOk(tables, dir["template"])
  BY DEF TableInv
<1>5. ASSUME NEW p \in Own(records'[c]) PROVE p < Memory
  <2>1. PICK b \in Range(records'[c]) : p \in PagesOf(b)
    BY DEF Own
  <2>2. b \in HeldBy(records', stray') /\ b \in TNode
    <3>1. b \in HeldBy(records', stray')
      BY DEF HeldBy
    <3>2. Shape(tree') /\ b \in Leaves(tree')
      BY <1>1, <3>1 DEF TreeInv, Blocks, Tree
    <3> QED BY <3>1, <3>2, LeafOfLeaf
  <2>3. p \in Page
    BY <2>1, <2>2, PagesWithin
  <2>4. KeptOut(tree', HeldBy(records', stray'), Beyond)
    <3>1. Beyond' = Beyond
      BY DEF Beyond
    <3> QED BY <3>1 DEF PageInv
  <2>5. p \notin Beyond
    BY <2>1, <2>2, <2>3, <2>4 DEF KeptOut
  <2> QED BY <2>3, <2>5, PagesAreNumbers, MemoryIsNumber DEF Beyond
<1> QED BY <1>2, <1>3, <1>4, <1>5, TemplateIsOutside

\* A request of a thread.
LEMMA CallerTables ==
  ASSUME PageInv, PageInv', TableInv, TemplateApart, TemplateTablesStay, TemplateTablesStay',
         NEW c \in Context, NEW v \in RequestAt, NEW n \in RequestSize, AllocForCaller(c, v, n)
  PROVE  TableInv'
<1> DEFINE T == dir["template"]
           H == HeldBy(records, stray)
           s == AllocateMapped(Fresh(tree), dir[c], v, n)
           r == records[c]
           P == Own(records'[c])
           at == IF v = 0 THEN s.got[1][2] ELSE v
           frames == Frames(at, n, s.got[1][2])
           fresh == [k \in 1 .. Size[MaxOrder] |-> s.got[Len(s.got)][2] + k - 1]
           new == MappedDir(dir[c], frames, fresh)
           t == MappedTables(dir[c], frames, fresh)
<1>1. /\ phase = "run" /\ phase' = "run" /\ dir[c] # NoDir
      /\ records' = [records EXCEPT ![c] = @ \o s.got]
      /\ \/ dir' = dir /\ tables' = tables
         \/ ~s.short /\ dir' = [dir EXCEPT ![c] = new] /\ tables' = t
  BY DEF AllocForCaller, Live
<1>2. RecordsOk(records, stray) /\ TreeInv(tree, H) /\ DOMAIN dir = Dirs /\ DirOk(dir[c])
  BY ContextsAre DEF PageInv
<1>3. c \in Owners /\ c \in Dirs /\ c # "template" /\ DOMAIN records = Owners /\ r \in Seq(TNode) /\ Range(r) \subseteq H
  BY <1>2, ContextsAre DEF RecordsOk, HeldBy
<1>4. v \in Nat /\ n \in 1 .. Size[MaxOrder]
  BY RequestAssumption
<1>5. AllocState(tree, H, Fresh(tree)) /\ AllocState(tree, H, s)
  <2>1. AllocState(tree, H, Fresh(tree))
    BY <1>2, FreshIs
  <2> HIDE DEF H
  <2> QED BY <1>4, <2>1, MappedEffect
<1>6. ~s.short => BlocksFor(s.got, 0, dir[c], v, n)
  <2>1. Len(Fresh(tree).got) = 0
    BY DEF Fresh
  <2>2. ~s.short => BlocksFor(s.got, Len(Fresh(tree).got), dir[c], v, n)
    <3> HIDE DEF H
    <3> QED BY <1>4, <1>5, MappedBlocks
  <2> QED BY <2>1, <2>2
<1> HIDE DEF s, H
<1>7. /\ records'[c] = r \o s.got /\ \A x \in Context : x # c => records'[x] = records[x]
      /\ s.got \in Seq(TNode)
  <2>1. s.got \in Seq(TNode)
    BY <1>5 DEF AllocState
  <2> QED BY <1>1, <1>3, <2>1, ContextsAre
<1>8. TemplateOutside(T, P) /\ \A x \in Context : x # c => P \cap Own(records[x]) = {}
  <2>1. TemplateOutside(T, P) /\ \A x \in Owners : x # c => P \cap Own(records'[x]) = {}
    BY <1>3, RecordsStayApart
  <2> HIDE DEF P, T
  <2> QED BY <1>7, <2>1, ContextsAre
<1>9. ThreadTables(tables, T, dir[c], r)
  BY <1>1 DEF TableInv, Live
<1>10. PoolApart(T) /\ (v # 0 => \A x \in v .. v + n - 1 : T[x \div PerTable] = Nil)
  BY DEF TemplateApart
<1>11. CASE dir' = dir /\ tables' = tables
  <2>1. TablesKept(T, tables, tables', P)
    BY <1>11 DEF TablesKept
  <2>2. ThreadTables(tables', T, dir'[c], records'[c])
    BY <1>3, <1>7, <1>9, <1>11, ThreadGrows
  <2>3. \A x \in Context : x # c =>
          dir'[x] = dir[x] /\ records'[x] = records[x] /\ P \cap Own(records[x]) = {}
    BY <1>7, <1>8, <1>11
  <2>4. dir'["template"] = dir["template"]
    BY <1>11
  <2> HIDE DEF P
  <2> QED BY <1>1, <1>8, <1>10, <2>1, <2>2, <2>3, <2>4, StepTables
<1>12. CASE ~s.short /\ dir' = [dir EXCEPT ![c] = new] /\ tables' = t
  <2>1. TemplateOutside(T, Own(s.got)) /\ \A p \in Own(s.got) : p < Memory
    <3>1. Own(s.got) \subseteq P
      BY <1>3, <1>7, OwnGrows
    <3>2. \A p \in P : p < Memory
      BY <1>3, RecordsStayApart
    <3> HIDE DEF P
    <3> QED BY <1>8, <3>1, <3>2 DEF TemplateOutside
  <2> HIDE DEF T, r
  <2>2. TablesKept(T, tables, t, Own(r \o s.got)) /\ ThreadTables(t, T, new, r \o s.got)
    BY <1>2, <1>3, <1>5, <1>6, <1>9, <1>10, <1>12, <2>1, CallerMaps
  <2> HIDE DEF t, new
  <2>3. dir'[c] = new /\ dir'["template"] = dir["template"] /\ \A x \in Context : x # c => dir'[x] = dir[x]
    BY <1>2, <1>3, <1>12, ContextsAre
  <2>4. TablesKept(dir["template"], tables, tables', P) /\ ThreadTables(tables', dir["template"], dir'[c], records'[c])
    BY <1>7, <1>12, <2>2, <2>3 DEF T
  <2>5. \A x \in Context : x # c =>
          dir'[x] = dir[x] /\ records'[x] = records[x] /\ P \cap Own(records[x]) = {}
    BY <1>7, <1>8, <2>3
  <2>6. TemplateOutside(dir["template"], P) /\ PoolApart(dir["template"])
    BY <1>8, <1>10 DEF T
  <2> HIDE DEF P
  <2> QED BY <1>1, <2>3, <2>4, <2>5, <2>6, StepTables
<1> QED BY <1>1, <1>11, <1>12

\* The tables of a new thread: a copy of the template with its pool.
LEMMA SpawnMaps ==
  ASSUME NEW q \in Seq(TNode), NEW tmpl, DirOk(tmpl), TemplateOk(tables, tmpl), PoolApart(tmpl),
         TemplateOutside(tmpl, Own(q)), BlocksFor(q, 0, tmpl, PoolStart, PoolPages)
  PROVE  LET frames == Frames(PoolStart, PoolPages, q[1][2])
             fresh == [k \in 1 .. Size[MaxOrder] |-> q[Len(q)][2] + k - 1]
         IN  /\ TablesKept(tmpl, tables, MappedTables(tmpl, frames, fresh), Own(q))
             /\ ThreadTables(MappedTables(tmpl, frames, fresh), tmpl, MappedDir(tmpl, frames, fresh), q)
<1> DEFINE V == PoolStart .. PoolStart + PoolPages - 1
           frames == Frames(PoolStart, PoolPages, q[1][2])
           fresh == FreshFrom(q)
           F == TablesFrom(q, tmpl, PoolStart, PoolPages)
<1>1. PoolStart \in Nat /\ PoolStart # 0 /\ PoolPages \in 1 .. Size[MaxOrder] /\ PoolPages \in Nat \ {0}
      /\ PoolStart + PoolPages <= Entries * PerTable
  <2>1. Size[MaxOrder] \in Nat
    BY OrdersAreNumbers, SizeOf
  <2> QED BY <2>1, PoolAssumption
<1>2. q # << >>
  <2>1. 0 + 1 = 1 /\ 0 + 2 = 2
    OBVIOUS
  <2>2. Len(q) = 1 \/ Len(q) = 2
    BY <2>1 DEF BlocksFor
  <2> QED BY <2>2
<1>3. \A pd \in Pd, x \in Range(q) : tmpl[pd] \notin PagesOf(x)
  <2> TAKE pd \in Pd, x \in Range(q)
  <2>1. x \in TNode /\ PagesOf(x) \subseteq Own(q)
    BY DEF Range, Own
  <2>2. PagesOf(x) \subseteq Nat
    BY <2>1, PagesWithin, PagesAreNumbers
  <2>3. Nil \notin Nat
    BY DEF Nil
  <2> QED BY <2>1, <2>2, <2>3 DEF TemplateOutside
<1>4. V \subseteq Virtual
  BY <1>1, RequestIsVirtual
<1>5. OwnTables(tmpl) /\ Translates(tables, tmpl, {})
  BY DEF TemplateOk
<1>6. /\ Mappable(tmpl, frames, fresh, F) /\ F \subseteq Own(q) /\ DOMAIN frames = V
      /\ \A x \in V : frames[x] = q[1][2] + (x - PoolStart) /\ frames[x] \in Own(q)
  <2>1. PoolStart = IF PoolStart = 0 THEN q[1][2] ELSE PoolStart
    BY <1>1
  <2> HIDE DEF frames, fresh, F
  <2>2. /\ Mappable(tmpl, Frames(PoolStart, PoolPages, q[1][2]), FreshFrom(q), TablesFrom(q, tmpl, PoolStart, PoolPages))
        /\ TablesFrom(q, tmpl, PoolStart, PoolPages) \subseteq Own(q)
        /\ DOMAIN Frames(PoolStart, PoolPages, q[1][2]) = V
        /\ \A x \in V : /\ Frames(PoolStart, PoolPages, q[1][2])[x] = q[1][2] + (x - PoolStart)
                        /\ Frames(PoolStart, PoolPages, q[1][2])[x] \in Own(q)
    BY <1>1, <1>3, <1>4, <1>5, <2>1, BlocksMap
  <2> QED BY <2>2 DEF frames, fresh, F
<1> HIDE DEF frames, fresh, F
<1>7. \A x \in V : \E i \in 0 .. PoolPages - 1 : x = PoolStart + i
  <2> TAKE x \in V
  <2>1. x - PoolStart \in 0 .. PoolPages - 1 /\ x = PoolStart + (x - PoolStart)
    BY <1>1
  <2> QED BY <2>1
<1>8. \A x \in DOMAIN frames : tmpl[x \div PerTable] = Nil
  BY <1>6, <1>7 DEF PoolApart
<1>9. TablesKept(tmpl, tables, MappedTables(tmpl, frames, fresh), Own(q))
  BY <1>6, <1>8, MappingKeeps
<1>10. ASSUME NEW i \in 0 .. PoolPages - 1
       PROVE  PoolStart + i \in DOMAIN frames /\ frames[PoolStart + i] = q[1][2] + i
  <2>1. PoolStart + i \in V /\ (PoolStart + i) - PoolStart = i
    BY <1>1
  <2> QED BY <1>6, <2>1
<1>11. ThreadTables(MappedTables(tmpl, frames, fresh), tmpl, MappedDir(tmpl, frames, fresh), q)
  <2>1. {} \subseteq Own(q) /\ (\A pd \in Pd : tmpl[pd] \in {} \cup {Nil, tmpl[pd]})
        /\ (\A x \in DOMAIN frames : frames[x] \in Own(q) \cup {x})
    BY <1>6
  <2> QED BY <1>2, <1>5, <1>6, <1>10, <2>1, ThreadMaps
<1> QED BY <1>9, <1>11 DEF frames, fresh, FreshFrom

\* What follows the first of the blocks.
LEMMA BlocksAfterFirst ==
  ASSUME NEW q \in Seq(TNode), NEW d, NEW v, NEW n, BlocksFor(q, 1, d, v, n)
  PROVE  BlocksFor(Tail(q), 0, d, v, n) /\ q # << >>
<1>1. 1 + 1 = 2 /\ 1 + 2 = 3 /\ 0 + 1 = 1 /\ 0 + 2 = 2
  OBVIOUS
<1>2. Len(q) = 2 \/ Len(q) = 3
  BY <1>1 DEF BlocksFor
<1>3. /\ Tail(q)[1] = q[2] /\ Len(Tail(q)) = Len(q) - 1 /\ q # << >>
      /\ Len(q) = 3 => Tail(q)[2] = q[3]
  BY <1>2
<1> DEFINE e == Tail(q)
<1>4. e[1] = q[2] /\ (Len(q) = 2 => Len(e) = 1) /\ (Len(q) = 3 => Len(e) = 2 /\ e[2] = q[3])
  <2>1. 2 - 1 = 1 /\ 3 - 1 = 2
    OBVIOUS
  <2>2. e[1] = q[2] /\ Len(e) = Len(q) - 1 /\ (Len(q) = 3 => e[2] = q[3])
    BY <1>3
  <2> HIDE DEF e
  <2> QED BY <2>1, <2>2
<1> HIDE DEF e
<1>5. BlocksFor(e, 0, d, v, n)
  BY <1>1, <1>2, <1>4 DEF BlocksFor
<1> QED BY <1>3, <1>5 DEF e

\* The blocks of a new thread.
LEMMA SpawnBlocks ==
  ASSUME NEW t, NEW H, TreeInv(t, H), NEW d,
         NEW first, first = AllocatePages(Fresh(t), 1),
         NEW s, s = IF first.short THEN first ELSE AllocateMapped(first, d, PoolStart, PoolPages), ~s.short
  PROVE  BlocksFor(Tail(s.got), 0, d, PoolStart, PoolPages) /\ s.got # << >> /\ s.got \in Seq(TNode)
<1>1. 1 \in 1 .. Size[MaxOrder] /\ PoolStart \in Nat /\ PoolPages \in 1 .. Size[MaxOrder]
  <2>1. Size[MaxOrder] \in Nat \ {0}
    BY OrdersAreNumbers, SizeOf
  <2> QED BY <2>1, PoolAssumption
<1>2. /\ AllocState(t, H, first)
      /\ \/ first.short /\ first.got = Fresh(t).got
         \/ ~first.short /\ ~Fresh(t).short /\ \E b \in TNode : first.got = Append(Fresh(t).got, b)
  BY <1>1, FreshIs, AllocEffect
<1>3. ~first.short /\ s = AllocateMapped(first, d, PoolStart, PoolPages)
  BY <1>2
<1>4. Len(first.got) = 1
  <2>1. PICK b \in TNode : first.got = Append(Fresh(t).got, b)
    BY <1>2, <1>3
  <2>2. Fresh(t).got = << >>
    BY DEF Fresh
  <2>3. Len(Append(<< >>, b)) = 1
    OBVIOUS
  <2>4. first.got = Append(<< >>, b)
    BY <2>1, <2>2
  <2> QED BY <2>3, <2>4
<1>5. BlocksFor(s.got, Len(first.got), d, PoolStart, PoolPages)
  BY <1>1, <1>2, <1>3, MappedBlocks
<1>6. s.got \in Seq(TNode)
  <2>1. AllocState(t, H, s)
    <3>1. AllocState(t, H, AllocateMapped(first, d, PoolStart, PoolPages))
      BY <1>1, <1>2, MappedEffect
    <3> QED BY <1>3, <3>1
  <2> QED BY <2>1 DEF AllocState
<1>7. BlocksFor(s.got, 1, d, PoolStart, PoolPages)
  BY <1>4, <1>5
<1> DEFINE q == s.got
<1> HIDE DEF q
<1>8. BlocksFor(q, 1, d, PoolStart, PoolPages) /\ q \in Seq(TNode)
  BY <1>6, <1>7 DEF q
<1>9. BlocksFor(Tail(q), 0, d, PoolStart, PoolPages) /\ q # << >>
  BY <1>8, BlocksAfterFirst
<1> QED BY <1>6, <1>9 DEF q

\* A new thread.
LEMMA SpawnTables ==
  ASSUME PageInv, PageInv', TableInv, TemplateApart, TemplateTablesStay, TemplateTablesStay',
         NEW c \in Context, SpawnThread(c)
  PROVE  TableInv'
<1> DEFINE T == dir["template"]
           H == HeldBy(records, stray)
           s == SpawnState
           rest == IF s.got = << >> THEN << >> ELSE Tail(s.got)
           P == Own(records'[c])
           frames == Frames(PoolStart, PoolPages, rest[1][2])
           fresh == [k \in 1 .. Size[MaxOrder] |-> rest[Len(rest)][2] + k - 1]
           new == MappedDir(T, frames, fresh)
           t == MappedTables(T, frames, fresh)
<1>1. /\ phase = "run" /\ phase' = "run" /\ dir[c] = NoDir
      /\ \/ /\ ~s.short /\ dir' = [dir EXCEPT ![c] = new] /\ tables' = t
            /\ records' = [records EXCEPT !["syscore"] = Append(@, s.got[1]), ![c] = rest]
         \/ /\ dir' = dir /\ tables' = tables
            /\ records' = [records EXCEPT !["syscore"] = IF s.got = << >> THEN @ ELSE Append(@, s.got[1])]
  BY DEF SpawnThread, Live
<1>2. RecordsOk(records, stray) /\ TreeInv(tree, H) /\ DOMAIN dir = Dirs /\ DirOk(T)
  BY ContextsAre DEF PageInv
<1>3. c \in Owners /\ c \in Dirs /\ c # "template" /\ c # "syscore" /\ DOMAIN records = Owners
      /\ \A x \in Context : x \in Owners /\ x # "syscore"
  BY <1>2, ContextsAre DEF RecordsOk
<1>4. TemplateOutside(T, P) /\ \A x \in Owners : x # c => P \cap Own(records'[x]) = {}
  BY <1>3, RecordsStayApart
<1>5. PoolApart(T) /\ TemplateOk(tables, T)
  BY DEF TemplateApart, TableInv
<1>6. ~s.short => BlocksFor(Tail(s.got), 0, T, PoolStart, PoolPages) /\ s.got # << >> /\ s.got \in Seq(TNode)
  <2> DEFINE first == AllocatePages(Fresh(tree), 1)
  <2>1. s = IF first.short THEN first ELSE AllocateMapped(first, T, PoolStart, PoolPages)
    BY DEF SpawnState
  <2> HIDE DEF s, H, T
  <2> QED BY <1>2, <2>1, SpawnBlocks
<1> HIDE DEF s, H
<1>7. CASE /\ ~s.short /\ dir' = [dir EXCEPT ![c] = new] /\ tables' = t
           /\ records' = [records EXCEPT !["syscore"] = Append(@, s.got[1]), ![c] = rest]
  <2>1. rest = Tail(s.got) /\ rest \in Seq(TNode)
    <3> DEFINE q == s.got
    <3>1. q # << >> /\ q \in Seq(TNode)
      BY <1>6, <1>7
    <3> HIDE DEF q
    <3>2. Tail(q) \in Seq(TNode)
      BY <3>1
    <3> QED BY <3>1, <3>2 DEF q
  <2>2. BlocksFor(rest, 0, T, PoolStart, PoolPages)
    BY <1>6, <1>7, <2>1
  <2> HIDE DEF rest
  <2>3. records'[c] = rest /\ \A x \in Context : x # c => records'[x] = records[x]
    BY <1>3, <1>7
  <2>4. TemplateOutside(T, Own(rest))
    BY <1>4, <2>3
  <2> HIDE DEF T
  <2>5. TablesKept(T, tables, t, Own(rest)) /\ ThreadTables(t, T, new, rest)
    BY <1>2, <1>5, <2>1, <2>2, <2>4, SpawnMaps
  <2> HIDE DEF t, new
  <2>6. dir'[c] = new /\ dir'["template"] = dir["template"] /\ \A x \in Context : x # c => dir'[x] = dir[x]
    BY <1>2, <1>3, <1>7, ContextsAre
  <2>7. TablesKept(dir["template"], tables, tables', P) /\ ThreadTables(tables', dir["template"], dir'[c], records'[c])
    BY <1>7, <2>3, <2>5, <2>6 DEF T
  <2>8. \A x \in Context : x # c => P \cap Own(records[x]) = {}
    BY <1>3, <1>4, <2>3
  <2>9. \A x \in Context : x # c =>
          dir'[x] = dir[x] /\ records'[x] = records[x] /\ P \cap Own(records[x]) = {}
    BY <2>3, <2>6, <2>8
  <2>10. TemplateOutside(dir["template"], P) /\ PoolApart(dir["template"])
    BY <1>4, <1>5 DEF T
  <2> HIDE DEF P
  <2> QED BY <1>1, <2>6, <2>7, <2>9, <2>10, StepTables
<1>8. CASE /\ dir' = dir /\ tables' = tables
           /\ records' = [records EXCEPT !["syscore"] = IF s.got = << >> THEN @ ELSE Append(@, s.got[1])]
  <2>1. \A x \in Context : records'[x] = records[x]
    BY <1>3, <1>8
  <2>2. TablesKept(dir["template"], tables, tables', {})
    BY <1>8 DEF TablesKept
  <2>3. TemplateOutside(dir["template"], {})
    BY DEF TemplateOutside
  <2>4. \A x \in Context : x # c =>
          dir'[x] = dir[x] /\ records'[x] = records[x] /\ {} \cap Own(records[x]) = {}
    BY <1>8, <2>1
  <2>5. dir'["template"] = dir["template"] /\ dir'[c] = NoDir
    BY <1>1, <1>8
  <2> QED BY <1>1, <1>5, <2>2, <2>3, <2>4, <2>5, StepTables
<1> QED BY <1>1, <1>7, <1>8

\* A page from the size of the memory on is in no table that memory fills.
LEMMA TablesEnd ==
  ASSUME NEW s \in Nat \ {0}, NEW z \in Nat, z % s = 0, NEW pd \in Nat, s * pd < z,
         NEW x \in Nat, x >= z
  PROVE  x \div s # pd
<1> SUFFICES ASSUME x \div s = pd PROVE FALSE
  OBVIOUS
<1> DEFINE k == z \div s
           r == x % s
<1>1. k \in Nat /\ z = s * k
  <2>1. z \div s \in Nat /\ z = s * (z \div s) + (z % s)
    BY DivMod
  <2>2. s * k \in Nat
    BY <2>1
  <2> HIDE DEF k
  <2>3. z = s * k + 0 /\ k \in Nat
    BY <2>1 DEF k
  <2> QED BY <2>2, <2>3
<1>2. r \in 0 .. s - 1 /\ x = s * pd + r
  BY DivMod
<1> HIDE DEF k, r
<1> DEFINE a == s * pd
           b == s * k
<1>3. a \in Nat /\ b \in Nat
  BY <1>1
<1>4. pd < k
  <2> SUFFICES ASSUME ~(pd < k) PROVE FALSE
    OBVIOUS
  <2>1. CASE k = pd
    BY <1>1, <2>1
  <2>2. CASE k < pd
    <3>1. b + s <= a
      BY <1>1, <2>2, TimesGrows
    <3>2. a < b
      BY <1>1
    <3> HIDE DEF a, b
    <3> QED BY <1>3, <3>1, <3>2
  <2> QED BY <1>1, <2>1, <2>2
<1>5. a + s <= b
  BY <1>1, <1>4, TimesGrows
<1>6. x = a + r /\ x >= b
  BY <1>1, <1>2
<1> HIDE DEF a, b
<1> QED BY <1>2, <1>3, <1>5, <1>6

\* The memory has whole tables, so the template has none above it.
LEMMA TemplateStaysApart ==
  ASSUME TableInv
  PROVE  TemplateApart
<1> DEFINE T == dir["template"]
           z == Memory
<1>1. ASSUME NEW x \in Virtual, x >= z PROVE T[x \div PerTable] = Nil
  <2> SUFFICES ASSUME T[x \div PerTable] # Nil PROVE FALSE
    OBVIOUS
  <2> DEFINE pd == x \div PerTable
  <2>1. pd \in Pd /\ pd \in Nat /\ x \in Nat
    <3>1. Entries \in Nat /\ PerTable \in Nat
      BY RequestAssumption
    <3>2. Entries * PerTable \in Nat
      BY <3>1
    <3>3. pd \in Pd
      BY EntryOf
    <3>4. pd \in Nat
      BY <3>3 DEF Pd
    <3> DEFINE y == Entries * PerTable
    <3>5. x \in 0 .. y - 1 /\ y \in Nat
      BY <3>2 DEF Virtual
    <3> HIDE DEF y
    <3>6. x \in Nat
      BY <3>5
    <3> QED BY <3>3, <3>4, <3>6
  <2> HIDE DEF pd
  <2>2. pd * PerTable < z
    BY <2>1 DEF TableInv, TemplateOk, pd
  <2>3. PerTable \in Nat \ {0} /\ z \in Nat /\ z % PerTable = 0
    BY RequestAssumption, MemoryIsNumber, MemoryAssumption
  <2>4. PerTable * pd < z
    BY <2>1, <2>2, <2>3
  <2>5. x \div PerTable # pd
    <3> HIDE DEF z
    <3> QED BY <1>1, <2>1, <2>3, <2>4, TablesEnd
  <2> QED BY <2>5 DEF pd
<1>2. z \in Nat
  BY MemoryIsNumber
<1> HIDE DEF T, z
<1>3. PoolApart(T)
  <2> SUFFICES ASSUME NEW i \in 0 .. PoolPages - 1 PROVE T[(PoolStart + i) \div PerTable] = Nil
    BY DEF PoolApart
  <2>1. PoolStart + i >= z
    <3>1. Size[MaxOrder] \in Nat
      BY OrdersAreNumbers, SizeOf
    <3>2. PoolStart \in Nat /\ PoolStart >= z /\ PoolPages \in Int
      BY <3>1, PoolAssumption DEF z
    <3> QED BY <1>2, <3>2
  <2> QED BY <1>1, <2>1, PoolIsVirtual
<1>4. ASSUME NEW v \in RequestAt, NEW n \in RequestSize, v # 0, NEW x \in v .. v + n - 1
      PROVE  T[x \div PerTable] = Nil
  <2>1. v \in Nat /\ n \in 1 .. Size[MaxOrder] /\ v + n <= Entries * PerTable /\ Size[MaxOrder] \in Nat
    BY RequestAssumption, OrdersAreNumbers, SizeOf
  <2>2. n \in Nat \ {0}
    BY <2>1
  <2>3. v .. v + n - 1 \subseteq Virtual
    BY <2>1, <2>2, RequestIsVirtual
  <2>4. v >= z
    BY <1>4, PoolAssumption DEF z
  <2>5. x >= z
    BY <1>2, <2>1, <2>2, <2>4
  <2>6. x \in Virtual
    BY <2>3
  <2> QED BY <1>1, <2>5, <2>6
<1> QED BY <1>3, <1>4 DEF TemplateApart, T

\* No directory is there at the start.
LEMMA TablesInit ==
  ASSUME Init
  PROVE  TableInv
<1>1. phase = "early" /\ \A d \in Dirs : dir[d] = NoDir
  BY DEF Init
<1>2. "template" \in Dirs /\ Context \subseteq Dirs
  BY ContextsAre
<1>3. Live = {}
  BY <1>1, <1>2 DEF Live
<1>4. \A pd \in Pd : NoDir[pd] = Nil
  BY DEF NoDir
<1>5. TemplateOk(tables, NoDir)
  <2>1. OwnTables(NoDir) /\ Translates(tables, NoDir, {})
    BY <1>4 DEF OwnTables, Translates
  <2> QED BY <1>4, <2>1 DEF TemplateOk
<1> QED BY <1>1, <1>2, <1>3, <1>5 DEF TableInv

\* Each step keeps the invariant of the tables, while no request gets a page of
\* the template's.
LEMMA TablesStep ==
  ASSUME PageInv, PageInv', TableInv, TemplateApart, TemplateTablesStay, TemplateTablesStay', [Next]_vars
  PROVE  TableInv'
<1>1. CASE AllocateHeap
  <2>1. phase # "run" /\ phase' # "run" /\ dir' = dir /\ tables' = tables /\ records' = records
    BY <1>1 DEF AllocateHeap
  <2>2. Live' = Live
    BY <2>1 DEF Live, NoDir, Pd, Nil
  <2> QED BY <2>1, <2>2 DEF TableInv, NoDir, Pd, Nil
<1>2. CASE BuildTemplate
  BY <1>2, TemplateTablesMade
<1>3. ASSUME NEW c \in Context, SpawnThread(c) PROVE TableInv'
  BY <1>3, SpawnTables
<1>4. ASSUME NEW c \in Context, DestroyContext(c) PROVE TableInv'
  BY <1>4, DestroyTables DEF TemplateApart
<1>5. ASSUME NEW c \in Context, NEW v \in RequestAt, NEW n \in RequestSize, AllocForCaller(c, v, n)
      PROVE  TableInv'
  BY <1>5, CallerTables
<1>6. CASE UNCHANGED vars
  <2>1. phase' = phase /\ dir' = dir /\ tables' = tables /\ records' = records
    BY <1>6 DEF vars
  <2>2. Live' = Live
    BY <2>1 DEF Live, NoDir, Pd, Nil
  <2> QED BY <2>1, <2>2 DEF TableInv, NoDir, Pd, Nil
<1> QED BY <1>1, <1>2, <1>3, <1>4, <1>5, <1>6 DEF Next

\* What the invariant says of the pages a thread reaches.
LEMMA TablesReachOwnPages ==
  ASSUME TableInv
  PROVE  OwnPagesOnly
<1> SUFFICES ASSUME NEW c \in Live
             PROVE  /\ \A pd \in Pd : dir[c][pd] \in Own(records[c]) \cup {Nil, dir["template"][pd]}
                    /\ \A v \in Virtual : Translate(dir[c], v) \in Own(records[c]) \cup {Nil, v}
                    /\ \A i \in 0 .. PoolPages - 1 : Translate(dir[c], PoolStart + i) = records[c][1][2] + i
  BY DEF OwnPagesOnly, Own
<1> DEFINE own == Own(records[c])
<1>1. /\ Translates(tables, dir[c], own)
      /\ \A pd \in Pd : dir[c][pd] \in own \cup {Nil, dir["template"][pd]}
      /\ \A i \in 0 .. PoolPages - 1 : SeenAt(tables, dir[c], PoolStart + i) = records[c][1][2] + i
  BY DEF TableInv, ThreadTables
<1>2. \A v : Translate(dir[c], v) = SeenAt(tables, dir[c], v)
  BY DEF Translate, SeenAt
<1> HIDE DEF own
<1>3. ASSUME NEW v \in Virtual PROVE Translate(dir[c], v) \in own \cup {Nil, v}
  <2> DEFINE pd == v \div PerTable
             r == v % PerTable
  <2>1. pd \in Pd /\ r \in 0 .. PerTable - 1 /\ pd * PerTable + r = v
    BY EntryOf
  <2>2. Translate(dir[c], v) = IF dir[c][pd] = Nil THEN Nil ELSE tables[dir[c][pd]][r]
    BY DEF Translate
  <2> HIDE DEF pd, r
  <2>3. dir[c][pd] # Nil => tables[dir[c][pd]][r] \in own \cup {Nil, v}
    BY <1>1, <2>1 DEF Translates
  <2> QED BY <2>2, <2>3
<1> QED BY <1>1, <1>2, <1>3 DEF own

\* For any layout, as long as no request gets a page of the template's tables, a live thread
\* reaches its own pages and what is mapped onto itself, through tables of its
\* own or the template's, and its pool stays where it is: whatever the order in
\* which threads come, map pages and go (x86_map_pages, x86_copy_pagetable).
THEOREM ThreadsAlwaysReachOwnPages == Spec => ThreadsReachOwnPages
<1>1. Init => TableInv
  BY TablesInit
<1>2. TableInv => TemplateApart
  BY TemplateStaysApart
<1>3. PageInv /\ PageInv' /\ TableInv /\ TemplateApart /\ TemplateTablesStay /\ TemplateTablesStay'
        /\ [Next]_vars => TableInv'
  BY TablesStep
<1>4. TableInv => OwnPagesOnly
  BY TablesReachOwnPages
<1>5. Spec /\ []TemplateTablesStay => []OwnPagesOnly
  BY <1>1, <1>2, <1>3, <1>4, InvHolds, PTL DEF Spec
<1> QED BY <1>5 DEF ThreadsReachOwnPages
=============================================================================
