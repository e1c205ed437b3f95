---------------------------- MODULE KHeapProofs ----------------------------
(***************************************************************************)
(* The heap, for any pool, any sizes and any alignments.  The inductive    *)
(* invariant says where the nodes lie, which list each is in, and which    *)
(* node each user holds; every function of heap.c keeps it.                *)
(***************************************************************************)
EXTENDS KHeap, SequenceTheorems, WellFoundedInduction, TLAPS

Node == [size : Nat, free : BOOLEAN, resizeable : BOOLEAN]
Nodes == UNION {[D -> Node] : D \in SUBSET Nat}
Heaps == [head : Nat, node : Nodes, allocBin : Seq(Nat), freeBin : Seq(Nat)]

\* The nodes of f lie one after the other between 0 and e.
Tiles(f, e) ==
  /\ \A n \in DOMAIN f : n + Header + f[n].size <= e
  /\ \A m, n \in DOMAIN f : m < n => m + Header + f[m].size <= n
  /\ \A a \in Nat : a < e => \E n \in DOMAIN f : n <= a /\ a < n + Header + f[n].size

BinsSplit(h) ==
  /\ IsInjective(h.allocBin) /\ IsInjective(h.freeBin)
  /\ Range(h.allocBin) = {n \in DOMAIN h.node : ~h.node[n].free}
  /\ Range(h.freeBin) = {n \in DOMAIN h.node : h.node[n].free}

Consistent(h) ==
  h \in Heaps /\ h.head <= PoolSize /\ Tiles(h.node, h.head) /\ BinsSplit(h)

\* Each user holds a node in use that is large enough, and every such node has
\* a user.
UsersHold(h, l) ==
  /\ \A p \in DOMAIN l :
       p - Header \in Nat /\ p \in Nat /\ l[p] \in Nat /\ l[p] <= h.node[p - Header].size
  /\ {p - Header : p \in DOMAIN l} = Range(h.allocBin)

HeapInv == Consistent(heap) /\ UsersHold(heap, live)

-----------------------------------------------------------------------------
(* The nodes as a function from their addresses.                           *)

LEMMA NodesAre ==
  ASSUME NEW f \in Nodes
  PROVE  /\ DOMAIN f \subseteq Nat /\ \A n \in DOMAIN f : f[n] \in Node /\ f[n].size \in Nat
         /\ f = [n \in DOMAIN f |-> f[n]]
<1>1. PICK D \in SUBSET Nat : f \in [D -> Node]
  BY DEF Nodes
<1> QED BY <1>1 DEF Node

LEMMA AreNodes ==
  ASSUME NEW D \in SUBSET Nat, NEW f \in [D -> Node] PROVE f \in Nodes
BY DEF Nodes

\* g is f with a node v at x.
Extends(g, f, x, v) ==
  /\ g \in Nodes /\ DOMAIN g = DOMAIN f \cup {x}
  /\ g[x] = v /\ \A y \in DOMAIN f : y # x => g[y] = f[y]

LEMMA WithIs ==
  ASSUME NEW f \in Nodes, NEW x \in Nat, NEW v \in Node
  PROVE  Extends(With(f, x, v), f, x, v)
<1> DEFINE g == With(f, x, v)
           D == DOMAIN f \cup {x}
<1>1. DOMAIN f \subseteq Nat /\ \A n \in DOMAIN f : f[n] \in Node
  BY NodesAre
<1>2. g = [y \in D |-> IF y = x THEN v ELSE f[y]]
  BY DEF With
<1>3. D \in SUBSET Nat /\ g \in [D -> Node]
  BY <1>1, <1>2
<1>4. g \in Nodes
  BY <1>3, AreNodes
<1> QED BY <1>2, <1>4 DEF Extends

\* A node at the end of the used part.
LEMMA TilesAtEnd ==
  ASSUME NEW f \in Nodes, NEW e \in Nat, Tiles(f, e), NEW v \in Node
  PROVE  e \notin DOMAIN f /\ Tiles(With(f, e, v), e + Header + v.size)
<1> DEFINE g == With(f, e, v)
<1>1. DOMAIN f \subseteq Nat /\ (\A n \in DOMAIN f : f[n].size \in Nat) /\ v.size \in Nat
  BY NodesAre DEF Node
<1>2. e \notin DOMAIN f
  BY <1>1 DEF Tiles, Header
<1> HIDE DEF g
<1>3. /\ DOMAIN g = DOMAIN f \cup {e} /\ g[e] = v
      /\ \A y \in DOMAIN f : y # e => g[y] = f[y]
  BY WithIs DEF g, Extends
<1>4. Tiles(g, e + Header + v.size)
  <2>1. \A n \in DOMAIN g : n + Header + g[n].size <= e + Header + v.size
    BY <1>1, <1>2, <1>3 DEF Tiles, Header
  <2>2. \A m, n \in DOMAIN g : m < n => m + Header + g[m].size <= n
    BY <1>1, <1>2, <1>3 DEF Tiles, Header
  <2>3. ASSUME NEW a \in Nat, a < e + Header + v.size
        PROVE  \E n \in DOMAIN g : n <= a /\ a < n + Header + g[n].size
    <3>1. CASE a < e
      BY <3>1, <1>2, <1>3 DEF Tiles
    <3>2. CASE ~(a < e)
      BY <2>3, <3>2, <1>3
    <3> QED BY <3>1, <3>2
  <2> QED BY <2>1, <2>2, <2>3 DEF Tiles
<1> QED BY <1>2, <1>4 DEF g

\* A node is cut in two.
LEMMA TilesCut ==
  ASSUME NEW f \in Nodes, NEW e \in Nat, Tiles(f, e), NEW n \in DOMAIN f,
         NEW v \in Node, NEW w \in Node, v.size + Header + w.size = f[n].size
  PROVE  LET rest == n + Header + v.size
         IN  rest \in Nat \ DOMAIN f /\ Tiles(With(With(f, n, v), rest, w), e)
<1> DEFINE rest == n + Header + v.size
           c == With(f, n, v)
           g == With(c, rest, w)
<1>1. /\ DOMAIN f \subseteq Nat /\ (\A m \in DOMAIN f : f[m].size \in Nat)
      /\ v.size \in Nat /\ w.size \in Nat /\ n \in Nat
  BY NodesAre DEF Node
<1>2. rest \in Nat /\ rest # n /\ rest > n
  BY <1>1 DEF Header
<1>3. rest \notin DOMAIN f
  <2> SUFFICES ASSUME rest \in DOMAIN f PROVE FALSE
    OBVIOUS
  <2>1. n + Header + f[n].size <= rest
    BY <1>1, <1>2 DEF Tiles
  <2> QED BY <1>1, <2>1 DEF Header
<1>4. /\ DOMAIN g = DOMAIN f \cup {rest} /\ g[rest] = w /\ g[n] = v
      /\ \A y \in DOMAIN f : y # n => g[y] = f[y]
  <2>1. /\ c \in Nodes /\ DOMAIN c = DOMAIN f /\ c[n] = v
        /\ \A y \in DOMAIN f : y # n => c[y] = f[y]
    <3>1. n \in Nat /\ c = With(f, n, v)
      BY <1>1
    <3>2. Extends(c, f, n, v)
      BY <3>1, WithIs
    <3> HIDE DEF c
    <3> QED BY <3>2 DEF Extends
  <2>2. /\ DOMAIN g = DOMAIN c \cup {rest} /\ g[rest] = w
        /\ \A y \in DOMAIN c : y # rest => g[y] = c[y]
    <3>1. rest \in Nat /\ c \in Nodes /\ g = With(c, rest, w)
      BY <1>2, <2>1
    <3> HIDE DEF rest, c, g
    <3>2. Extends(g, c, rest, w)
      BY <3>1, WithIs
    <3> QED BY <3>2 DEF Extends
  <2> HIDE DEF c
  <2> QED BY <1>2, <1>3, <2>1, <2>2
<1>5. rest + Header + w.size = n + Header + f[n].size
  BY <1>1 DEF Header
<1> HIDE DEF g, c
<1>6. \A m \in DOMAIN f : m # n => m + Header + f[m].size <= n \/ m >= rest + Header + w.size
  BY <1>1, <1>5 DEF Tiles
<1>7. Tiles(g, e)
  <2>1. \A m \in DOMAIN g : m + Header + g[m].size <= e
    <3>1. n + Header + v.size <= e /\ rest + Header + w.size <= e
      BY <1>1, <1>5 DEF Tiles, Header
    <3> QED BY <1>4, <3>1 DEF Tiles
  <2>2. ASSUME NEW k \in DOMAIN g, NEW m \in DOMAIN g, k < m
        PROVE  k + Header + g[k].size <= m
    <3>1. CASE k = rest
      <4>1. m \in DOMAIN f /\ m # n
        BY <1>1, <1>2, <1>4, <2>2, <3>1
      <4>2. ~(m + Header + f[m].size <= n)
        BY <1>1, <1>2, <2>2, <3>1, <4>1 DEF Header
      <4> QED BY <1>4, <1>6, <3>1, <4>1, <4>2
    <3>2. CASE k = n
      <4>1. m = rest \/ (m \in DOMAIN f /\ m # n)
        BY <1>1, <1>4, <2>2, <3>2
      <4>2. m # rest => m >= rest + Header + w.size
        BY <1>1, <1>6, <2>2, <3>2, <4>1 DEF Header
      <4> QED BY <1>1, <1>2, <1>4, <3>2, <4>1, <4>2 DEF Header
    <3>3. CASE k # rest /\ k # n /\ m = rest
      <4>1. k \in DOMAIN f /\ g[k] = f[k]
        BY <1>4, <3>3
      <4>2. ~(k >= rest + Header + w.size)
        BY <1>1, <1>2, <2>2, <3>3, <4>1 DEF Header
      <4>3. k + Header + f[k].size <= n
        BY <1>6, <3>3, <4>1, <4>2
      <4> QED BY <1>1, <1>2, <3>3, <4>1, <4>3 DEF Header
    <3>4. CASE k # rest /\ k # n /\ m # rest
      <4>1. k \in DOMAIN f /\ m \in DOMAIN f /\ g[k] = f[k]
        BY <1>4, <3>4
      <4> QED BY <2>2, <4>1 DEF Tiles
    <3> QED BY <3>1, <3>2, <3>3, <3>4
  <2>3. ASSUME NEW a \in Nat, a < e
        PROVE  \E m \in DOMAIN g : m <= a /\ a < m + Header + g[m].size
    <3>1. PICK m \in DOMAIN f : m <= a /\ a < m + Header + f[m].size
      BY <2>3 DEF Tiles
    <3>2. CASE m # n
      BY <1>4, <3>1, <3>2
    <3>3. CASE m = n /\ a < rest
      BY <1>1, <1>4, <3>1, <3>3
    <3>4. CASE m = n /\ ~(a < rest)
      <4>1. rest <= a /\ a < rest + Header + w.size
        BY <1>1, <1>2, <1>5, <3>1, <3>4
      <4> QED BY <1>4, <4>1
    <3> QED BY <3>2, <3>3, <3>4
  <2> QED BY <2>1, <2>2, <2>3 DEF Tiles
<1> QED BY <1>2, <1>3, <1>7 DEF g, c

\* A node at the end goes back to the heap bin.
LEMMA TilesDrop ==
  ASSUME NEW f \in Nodes, NEW e \in Nat, Tiles(f, e), NEW n \in DOMAIN f,
         n + Header + f[n].size = e
  PROVE  LET g == [m \in DOMAIN f \ {n} |-> f[m]]
         IN  g \in Nodes /\ Tiles(g, n)
<1> DEFINE g == [m \in DOMAIN f \ {n} |-> f[m]]
<1>1. /\ DOMAIN f \subseteq Nat /\ n \in Nat
      /\ \A m \in DOMAIN f : f[m].size \in Nat /\ f[m] \in Node
  BY NodesAre
<1>2. g \in Nodes
  BY <1>1, AreNodes
<1>3. \A m \in DOMAIN f : m # n => m + Header + f[m].size <= n
  <2> SUFFICES ASSUME NEW m \in DOMAIN f, m # n PROVE m + Header + f[m].size <= n
    OBVIOUS
  <2>1. CASE m < n
    BY <2>1 DEF Tiles
  <2>2. CASE m > n
    BY <1>1, <2>2 DEF Tiles, Header
  <2> QED BY <1>1, <2>1, <2>2
<1>4. \A a \in Nat : a < n => \E m \in DOMAIN g : m <= a /\ a < m + Header + g[m].size
  <2> SUFFICES ASSUME NEW a \in Nat, a < n
               PROVE  \E m \in DOMAIN g : m <= a /\ a < m + Header + g[m].size
    OBVIOUS
  <2>1. a < e
    BY <1>1 DEF Header
  <2>2. PICK m \in DOMAIN f : m <= a /\ a < m + Header + f[m].size
    BY <2>1 DEF Tiles
  <2>3. m \in DOMAIN g /\ g[m] = f[m]
    BY <1>1, <2>2
  <2> QED BY <2>2, <2>3
<1>5. \A m \in DOMAIN g : m \in DOMAIN f /\ m # n /\ g[m] = f[m]
  OBVIOUS
<1> HIDE DEF g
<1>6. Tiles(g, n)
  BY <1>3, <1>4, <1>5 DEF Tiles
<1> QED BY <1>2, <1>6 DEF g

\* Only the sizes matter.
LEMMA TilesSame ==
  ASSUME NEW f, NEW g, NEW e, Tiles(f, e), DOMAIN g = DOMAIN f,
         \A n \in DOMAIN f : g[n].size = f[n].size
  PROVE  Tiles(g, e)
BY DEF Tiles

-----------------------------------------------------------------------------
(* The two lists.                                                          *)

LEMMA RemoveAtIsShift ==
  ASSUME NEW s \in Seq(Nat), NEW i \in 1 .. Len(s)
  PROVE  /\ RemoveAt(s, i) \in Seq(Nat)
         /\ Len(RemoveAt(s, i)) = Len(s) - 1
         /\ \A j \in 1 .. Len(s) - 1 :
              RemoveAt(s, i)[j] = IF j < i THEN s[j] ELSE s[j + 1]
<1> DEFINE a == SubSeq(s, 1, i - 1)
           b == SubSeq(s, i + 1, Len(s))
<1>1. a \in Seq(Nat) /\ Len(a) = i - 1 /\ \A j \in 1 .. i - 1 : a[j] = s[j]
  OBVIOUS
<1>2. b \in Seq(Nat) /\ Len(b) = Len(s) - i /\ \A j \in 1 .. Len(s) - i : b[j] = s[i + j]
  OBVIOUS
<1>3. RemoveAt(s, i) = a \o b
  BY DEF RemoveAt
<1> HIDE DEF a, b
<1>4. /\ a \o b \in Seq(Nat) /\ Len(a \o b) = Len(a) + Len(b)
      /\ \A j \in 1 .. Len(a) + Len(b) : (a \o b)[j] = IF j <= Len(a) THEN a[j] ELSE b[j - Len(a)]
  BY <1>1, <1>2, ConcatProperties
<1>5. Len(s) \in Nat /\ Len(a) + Len(b) = Len(s) - 1
  BY <1>1, <1>2
<1>6. ASSUME NEW j \in 1 .. Len(s) - 1
      PROVE  (a \o b)[j] = IF j < i THEN s[j] ELSE s[j + 1]
  <2>1. CASE j < i
    BY <1>1, <1>4, <1>5, <2>1
  <2>2. CASE ~(j < i)
    <3>1. ~(j <= Len(a)) /\ j - Len(a) \in 1 .. Len(s) - i /\ i + (j - Len(a)) = j + 1
      BY <1>1, <1>5, <2>2
    <3> QED BY <1>2, <1>4, <1>5, <2>2, <3>1
  <2> QED BY <2>1, <2>2
<1> QED BY <1>3, <1>4, <1>5, <1>6

\* bin_push.
LEMMA PushIs ==
  ASSUME NEW s \in Seq(Nat), IsInjective(s), NEW n \in Nat, n \notin Range(s)
  PROVE  /\ Push(s, n) \in Seq(Nat) /\ IsInjective(Push(s, n))
         /\ Range(Push(s, n)) = Range(s) \cup {n}
<1> DEFINE a == Push(s, n)
<1>1. /\ a \in Seq(Nat) /\ DOMAIN a = 1 .. Len(s) + 1 /\ Len(s) \in Nat
      /\ DOMAIN s = 1 .. Len(s) /\ a[Len(s) + 1] = n
      /\ \A i \in DOMAIN s : a[i] = s[i]
  BY DEF Push
<1> HIDE DEF a
<1>2. \A i \in DOMAIN a : i = Len(s) + 1 \/ i \in DOMAIN s
  BY <1>1
<1>3. \A i \in DOMAIN s : i \in DOMAIN a /\ s[i] # n
  BY <1>1 DEF Range
<1>4. IsInjective(a)
  BY <1>1, <1>2, <1>3 DEF IsInjective
<1>5. Range(a) = Range(s) \cup {n}
  <2>1. Len(s) + 1 \in DOMAIN a
    BY <1>1
  <2> QED BY <1>1, <1>2, <1>3, <2>1 DEF Range
<1> QED BY <1>1, <1>4, <1>5 DEF a

\* bin_remove of a node that is in the list.
LEMMA UnlinkIs ==
  ASSUME NEW s \in Seq(Nat), IsInjective(s), NEW n \in Range(s)
  PROVE  /\ Unlink(s, n) \in Seq(Nat) /\ IsInjective(Unlink(s, n))
         /\ Range(Unlink(s, n)) = Range(s) \ {n}
<1>1. PICK i \in DOMAIN s : s[i] = n
  BY DEF Range
<1>2. /\ Len(s) \in Nat /\ DOMAIN s = 1 .. Len(s) /\ i \in Nat
      /\ \A j \in DOMAIN s : s[j] = n => j = i
  BY <1>1 DEF IsInjective
<1> DEFINE I == {j \in 1 .. Len(s) : s[j] = n}
<1>3. I = {i}
  BY <1>1, <1>2
<1>4. Min({i}) = i
  BY <1>2 DEF Min
<1>5. Unlink(s, n) = RemoveAt(s, i)
  <2>1. SelectInSeq(s, LAMBDA v : v = n) = IF I # {} THEN Min(I) ELSE 0
    BY DEF SelectInSeq
  <2>2. SelectInSeq(s, LAMBDA v : v = n) = i
    BY <1>3, <1>4, <2>1
  <2>3. RemoveFirst(s, n) = RemoveAt(s, SelectInSeq(s, LAMBDA v : v = n))
    BY <1>1, <1>2 DEF RemoveFirst
  <2> QED BY <2>2, <2>3 DEF Unlink
<1> HIDE DEF I
<1> DEFINE r == RemoveAt(s, i)
<1>6. /\ r \in Seq(Nat) /\ Len(r) = Len(s) - 1
      /\ \A j \in 1 .. Len(s) - 1 : r[j] = IF j < i THEN s[j] ELSE s[j + 1]
  BY <1>1, <1>2, RemoveAtIsShift
<1> HIDE DEF r
<1>7. DOMAIN r = 1 .. Len(s) - 1 /\ i \in 1 .. Len(s)
  BY <1>1, <1>2, <1>6
<1>8. \A j \in DOMAIN r : LET o == IF j < i THEN j ELSE j + 1
                          IN  j \in Nat /\ o \in DOMAIN s /\ o # i /\ r[j] = s[o]
  BY SMTT(30), <1>2, <1>6, <1>7
<1>9. IsInjective(r)
  <2> SUFFICES ASSUME NEW j \in DOMAIN r, NEW k \in DOMAIN r, r[j] = r[k] PROVE j = k
    BY DEF IsInjective
  <2>1. (IF j < i THEN j ELSE j + 1) = (IF k < i THEN k ELSE k + 1)
    BY <1>8 DEF IsInjective
  <2> QED BY SMTT(30), <1>2, <1>8, <2>1
<1>10. \A o \in DOMAIN s \ {i} : \E j \in DOMAIN r : r[j] = s[o]
  <2> SUFFICES ASSUME NEW o \in DOMAIN s, o # i PROVE \E j \in DOMAIN r : r[j] = s[o]
    OBVIOUS
  <2>1. CASE o < i
    <3>1. o \in DOMAIN r /\ r[o] = s[o]
      BY SMTT(30), <1>2, <1>6, <1>7, <2>1
    <3> QED BY <3>1
  <2>2. CASE ~(o < i)
    <3>1. o - 1 \in DOMAIN r /\ ~(o - 1 < i) /\ (o - 1) + 1 = o
      BY <1>2, <1>7, <2>2
    <3>2. r[o - 1] = s[o]
      BY <1>6, <1>7, <3>1
    <3> QED BY <3>1, <3>2
  <2> QED BY <2>1, <2>2
<1>11. Range(r) = Range(s) \ {n}
  <2>1. ASSUME NEW x \in Range(r) PROVE x \in Range(s) \ {n}
    BY <1>1, <1>2, <1>8, <2>1 DEF Range
  <2>2. ASSUME NEW x \in Range(s) \ {n} PROVE x \in Range(r)
    <3>1. PICK o \in DOMAIN s : s[o] = x
      BY DEF Range
    <3>2. o # i
      BY <1>1, <3>1
    <3> QED BY <1>10, <3>1, <3>2 DEF Range
  <2> QED BY <2>1, <2>2
<1> QED BY <1>5, <1>6, <1>9, <1>11 DEF r

\* bin_find_node: null, or a free node that is large enough.
LEMMA FoundNode ==
  ASSUME NEW h \in Heaps, NEW size \in Nat, FindNode(h, size) # Null
  PROVE  FindNode(h, size) \in Range(h.freeBin) /\ h.node[FindNode(h, size)].size >= size
<1> DEFINE fits == {i \in DOMAIN h.freeBin : h.node[h.freeBin[i]].size >= size}
           first == CHOOSE i \in fits : \A j \in fits : i <= j
<1>1. fits # {} /\ FindNode(h, size) = h.freeBin[first]
  BY DEF FindNode
<1>2. fits \subseteq Nat
  BY DEF Heaps
<1>3. PICK i \in fits : \A y \in fits : ~ (<<y, i>> \in OpToRel(<, Nat))
  <2> HIDE DEF fits
  <2> QED BY <1>1, <1>2, NatLessThanWellFounded, WFMin
<1>4. \A j \in fits : i <= j
  <2> SUFFICES ASSUME NEW j \in fits, ~(i <= j) PROVE FALSE
    OBVIOUS
  <2>1. j < i /\ j \in Nat /\ i \in Nat
    BY <1>2
  <2>2. <<j, i>> \in OpToRel(<, Nat)
    BY <2>1 DEF OpToRel
  <2> QED BY <2>2, <1>3
<1>5. first \in fits
  <2> HIDE DEF fits
  <2> QED BY <1>4
<1> QED BY <1>1, <1>5 DEF Range

-----------------------------------------------------------------------------
(* The functions of heap.c.                                                *)

LEMMA HeapIs ==
  ASSUME NEW h, Consistent(h)
  PROVE  /\ h \in Heaps /\ h.head \in Nat /\ h.node \in Nodes
         /\ h.allocBin \in Seq(Nat) /\ h.freeBin \in Seq(Nat)
         /\ Tiles(h.node, h.head) /\ h.head <= PoolSize
         /\ IsInjective(h.allocBin) /\ IsInjective(h.freeBin)
         /\ Range(h.allocBin) = {k \in DOMAIN h.node : ~h.node[k].free}
         /\ Range(h.freeBin) = {k \in DOMAIN h.node : h.node[k].free}
BY DEF Consistent, Heaps, BinsSplit

LEMMA ConsistentIs ==
  ASSUME NEW m \in Heaps, m.head <= PoolSize, Tiles(m.node, m.head),
         IsInjective(m.allocBin), IsInjective(m.freeBin),
         Range(m.allocBin) = {n \in DOMAIN m.node : ~m.node[n].free},
         Range(m.freeBin) = {n \in DOMAIN m.node : m.node[n].free}
  PROVE  Consistent(m)
BY DEF Consistent, BinsSplit

\* The nodes in use stay as large as they are, and the request gets one more.
Serves(h, out, size) ==
  /\ \A n \in Range(h.allocBin) : out.heap.node[n].size = h.node[n].size
  /\ out.ptr = Null => Range(out.heap.allocBin) = Range(h.allocBin)
  /\ out.ptr # Null =>
       /\ out.ptr - Header \in Nat /\ out.ptr \in Nat
       /\ out.ptr - Header \notin Range(h.allocBin)
       /\ Range(out.heap.allocBin) = Range(h.allocBin) \cup {out.ptr - Header}
       /\ out.heap.node[out.ptr - Header].size >= size

\* A node n is handed out.
LEMMA ServesNode ==
  ASSUME NEW h, NEW out, NEW size, NEW n \in Nat, out.ptr = n + Header,
         \A k \in Range(h.allocBin) : out.heap.node[k].size = h.node[k].size,
         n \notin Range(h.allocBin),
         Range(out.heap.allocBin) = Range(h.allocBin) \cup {n},
         out.heap.node[n].size >= size
  PROVE  Serves(h, out, size)
<1>1. out.ptr # Null /\ out.ptr - Header = n /\ out.ptr \in Nat
  BY DEF Null, Header
<1> QED BY <1>1 DEF Serves

LEMMA FreshNode ==
  ASSUME NEW size \in Nat
  PROVE  LET v == NewNode(size)
             f == [NewNode(size) EXCEPT !.free = TRUE]
             r == [NewNode(size) EXCEPT !.resizeable = TRUE]
         IN  /\ v \in Node /\ v.size = size /\ v.free = FALSE
             /\ f \in Node /\ f.size = size /\ f.free = TRUE
             /\ r \in Node /\ r.size = size /\ r.free = FALSE
BY DEF NewNode, Node

LEMMA BumpKeeps ==
  ASSUME NEW h, Consistent(h), NEW size \in Nat, Header + size <= Room(h)
  PROVE  Consistent(Bump(h, size).heap) /\ Serves(h, Bump(h, size), size)
<1> DEFINE e == h.head
           f == h.node
           v == NewNode(size)
           g == With(f, e, v)
           s == Push(h.allocBin, e)
           out == Bump(h, size)
           m == out.heap
<1>1. /\ h \in Heaps /\ e \in Nat /\ f \in Nodes
      /\ h.allocBin \in Seq(Nat) /\ h.freeBin \in Seq(Nat) /\ Tiles(f, e)
      /\ IsInjective(h.allocBin) /\ IsInjective(h.freeBin)
      /\ Range(h.allocBin) = {k \in DOMAIN f : ~f[k].free}
      /\ Range(h.freeBin) = {k \in DOMAIN f : f[k].free}
  BY HeapIs
<1>2. v \in Node /\ v.size = size /\ v.free = FALSE
  BY FreshNode
<1>3. e + Header + size \in Nat /\ e + Header + size <= PoolSize
  BY <1>1, HeapAssumption DEF Room, Header
<1>4. m = [h EXCEPT !.head = e + Header + size, !.node = g, !.allocBin = s]
      /\ out.ptr = e + Header /\ g = With(f, e, v)
  BY DEF Bump
<1> HIDE DEF v, e, f, m
<1>5. e \notin DOMAIN f /\ Tiles(g, e + Header + size)
  BY <1>1, <1>2, TilesAtEnd
<1> HIDE DEF g
<1>6. /\ g \in Nodes /\ DOMAIN g = DOMAIN f \cup {e} /\ g[e] = v
      /\ \A y \in DOMAIN f : y # e => g[y] = f[y]
  <2>1. Extends(g, f, e, v)
    BY <1>1, <1>2, <1>4, WithIs
  <2> QED BY <2>1 DEF Extends
<1>7. /\ s \in Seq(Nat) /\ IsInjective(s) /\ Range(s) = Range(h.allocBin) \cup {e}
  BY <1>1, <1>5, PushIs
<1> HIDE DEF s
<1>8. /\ m \in Heaps /\ m.head = e + Header + size /\ m.node = g /\ m.allocBin = s
      /\ m.freeBin = h.freeBin
  BY <1>1, <1>3, <1>4, <1>6, <1>7 DEF Heaps
<1>9. /\ Range(s) = {n \in DOMAIN g : ~g[n].free}
      /\ Range(h.freeBin) = {n \in DOMAIN g : g[n].free}
  BY <1>1, <1>2, <1>5, <1>6, <1>7
<1>10. Consistent(m)
  BY <1>1, <1>3, <1>5, <1>7, <1>8, <1>9, ConsistentIs
<1>11. \A n \in Range(h.allocBin) : g[n].size = f[n].size
  BY <1>1, <1>5, <1>6
<1>12. Serves(h, out, size)
  <2>1. out.heap = m /\ h.node = f
    BY DEF m, f
  <2>2. e \notin Range(h.allocBin) /\ g[e].size >= size
    BY <1>1, <1>2, <1>5, <1>6
  <2>3. out.ptr = e + Header /\ e \in Nat
    BY <1>1, <1>4
  <2> HIDE DEF out
  <2>4. /\ \A k \in Range(h.allocBin) : out.heap.node[k].size = h.node[k].size
        /\ Range(out.heap.allocBin) = Range(h.allocBin) \cup {e}
        /\ out.heap.node[e].size >= size
    BY <1>7, <1>8, <1>11, <2>1, <2>2
  <2> QED BY <2>2, <2>3, <2>4, ServesNode
<1> QED BY <1>10, <1>12 DEF m

LEMMA ReuseKeeps ==
  ASSUME NEW h, Consistent(h), NEW size \in Nat, NEW n \in Range(h.freeBin),
         h.node[n].size >= size
  PROVE  Consistent(Reuse(h, n).heap) /\ Serves(h, Reuse(h, n), size)
<1> DEFINE f == h.node
           g == [f EXCEPT ![n].free = FALSE]
           s == Push(h.allocBin, n)
           t == Unlink(h.freeBin, n)
           out == Reuse(h, n)
           m == out.heap
<1>1. /\ h \in Heaps /\ h.head \in Nat /\ f \in Nodes
      /\ h.allocBin \in Seq(Nat) /\ h.freeBin \in Seq(Nat)
      /\ Tiles(f, h.head) /\ h.head <= PoolSize
      /\ IsInjective(h.allocBin) /\ IsInjective(h.freeBin)
      /\ Range(h.allocBin) = {k \in DOMAIN f : ~f[k].free}
      /\ Range(h.freeBin) = {k \in DOMAIN f : f[k].free}
  BY HeapIs
<1>2. m = [h EXCEPT !.freeBin = t, !.allocBin = s, !.node = g] /\ out.ptr = n + Header
  BY DEF Reuse
<1>3. f[n].size >= size
  OBVIOUS
<1> HIDE DEF f, m
<1>4. /\ DOMAIN f \subseteq Nat /\ \A k \in DOMAIN f : f[k] \in Node /\ f[k].size \in Nat
      /\ n \in DOMAIN f /\ n \in Nat /\ n \notin Range(h.allocBin)
  BY <1>1, NodesAre
<1>5. /\ DOMAIN g = DOMAIN f /\ g[n] = [f[n] EXCEPT !.free = FALSE]
      /\ \A y \in DOMAIN f : y # n => g[y] = f[y]
  BY <1>4
<1>6. /\ g[n] \in Node /\ g[n].size = f[n].size /\ g[n].free = FALSE
  BY <1>4, <1>5 DEF Node
<1>7. g \in Nodes
  <2>1. g \in [DOMAIN f -> Node]
    BY <1>4, <1>6
  <2> QED BY <1>4, <2>1, AreNodes
<1> HIDE DEF g
<1>8. \A k \in DOMAIN f : g[k].size = f[k].size
  BY <1>5, <1>6
<1>9. Tiles(g, h.head)
  BY <1>1, <1>5, <1>8, TilesSame
<1>10. /\ s \in Seq(Nat) /\ IsInjective(s) /\ Range(s) = Range(h.allocBin) \cup {n}
  BY <1>1, <1>4, PushIs
<1>11. /\ t \in Seq(Nat) /\ IsInjective(t) /\ Range(t) = Range(h.freeBin) \ {n}
  BY <1>1, UnlinkIs
<1> HIDE DEF s, t
<1>12. /\ Range(s) = {k \in DOMAIN g : ~g[k].free}
       /\ Range(t) = {k \in DOMAIN g : g[k].free}
  BY ZenonT(40), <1>1, <1>4, <1>5, <1>6, <1>10, <1>11
<1>13. /\ m \in Heaps /\ m.head = h.head /\ m.node = g /\ m.allocBin = s /\ m.freeBin = t
  BY <1>1, <1>2, <1>7, <1>10, <1>11 DEF Heaps
<1>14. Consistent(m)
  BY <1>1, <1>9, <1>10, <1>11, <1>12, <1>13, ConsistentIs
<1>15. Serves(h, out, size)
  <2>1. out.heap = m /\ h.node = f
    BY DEF m, f
  <2>2. \A k \in Range(h.allocBin) : g[k].size = f[k].size
    BY <1>1, <1>8
  <2>3. g[n].size >= size
    BY <1>3, <1>6
  <2> HIDE DEF out
  <2> QED BY ZenonT(40), <1>2, <1>4, <1>10, <1>13, <2>1, <2>2, <2>3, ServesNode
<1> QED BY <1>14, <1>15 DEF m

LEMMA SplitKeeps ==
  ASSUME NEW h, Consistent(h), NEW size \in Nat, NEW n \in Range(h.freeBin),
         h.node[n].size >= size + Header + 1
  PROVE  Consistent(Split(h, n, size).heap) /\ Serves(h, Split(h, n, size), size)
<1> DEFINE f == h.node
           left == f[n].size - size - Header
           v == [NewNode(size) EXCEPT !.resizeable = TRUE]
           w == [NewNode(left) EXCEPT !.free = TRUE]
           rest == n + Header + size
           c == With(f, n, v)
           g == With(c, rest, w)
           s == Push(h.allocBin, n)
           u == Unlink(h.freeBin, n)
           t == Push(u, rest)
           out == Split(h, n, size)
           m == out.heap
<1>1. /\ h \in Heaps /\ h.head \in Nat /\ f \in Nodes
      /\ h.allocBin \in Seq(Nat) /\ h.freeBin \in Seq(Nat)
      /\ Tiles(f, h.head) /\ h.head <= PoolSize
      /\ IsInjective(h.allocBin) /\ IsInjective(h.freeBin)
      /\ Range(h.allocBin) = {k \in DOMAIN f : ~f[k].free}
      /\ Range(h.freeBin) = {k \in DOMAIN f : f[k].free}
  BY HeapIs
<1>2. m = [h EXCEPT !.node = g, !.allocBin = s, !.freeBin = t] /\ out.ptr = n + Header
  BY DEF Split
<1>3. f[n].size >= size + Header + 1
  OBVIOUS
<1> HIDE DEF f, m
<1>4. /\ DOMAIN f \subseteq Nat /\ n \in DOMAIN f /\ n \in Nat /\ n \notin Range(h.allocBin)
      /\ f[n].size \in Nat
  BY <1>1, NodesAre
<1>5. left \in Nat /\ size + Header + left = f[n].size
  BY <1>3, <1>4 DEF Header
<1> HIDE DEF left
<1>6. /\ v \in Node /\ w \in Node /\ v.size = size /\ w.size = left
      /\ v.free = FALSE /\ w.free = TRUE
  BY <1>5, FreshNode
<1> HIDE DEF v, w
<1>7. rest \in Nat \ DOMAIN f /\ Tiles(g, h.head)
  BY <1>1, <1>4, <1>5, <1>6, TilesCut
<1> HIDE DEF rest, c
<1>8. /\ c \in Nodes /\ DOMAIN c = DOMAIN f /\ c[n] = v
      /\ \A y \in DOMAIN f : y # n => c[y] = f[y]
  <2>1. Extends(c, f, n, v)
    BY <1>1, <1>4, <1>6, WithIs DEF c
  <2> QED BY <1>4, <2>1 DEF Extends
<1> HIDE DEF g
<1>9. /\ g \in Nodes /\ DOMAIN g = DOMAIN c \cup {rest} /\ g[rest] = w
      /\ \A y \in DOMAIN c : y # rest => g[y] = c[y]
  <2>1. Extends(g, c, rest, w)
    BY <1>6, <1>7, <1>8, WithIs DEF g
  <2> QED BY <2>1 DEF Extends
<1>10. /\ DOMAIN g = DOMAIN f \cup {rest} /\ g[n] = v
       /\ \A y \in DOMAIN f : y # n => g[y] = f[y]
  BY <1>4, <1>7, <1>8, <1>9
<1>11. /\ s \in Seq(Nat) /\ IsInjective(s) /\ Range(s) = Range(h.allocBin) \cup {n}
  BY <1>1, <1>4, PushIs
<1>12. /\ u \in Seq(Nat) /\ IsInjective(u) /\ Range(u) = Range(h.freeBin) \ {n}
  BY <1>1, UnlinkIs
<1> HIDE DEF u
<1>13. /\ t \in Seq(Nat) /\ IsInjective(t) /\ Range(t) = Range(u) \cup {rest}
  <2>1. rest \in Nat /\ rest \notin Range(u)
    BY <1>1, <1>7, <1>12
  <2> QED BY <1>12, <2>1, PushIs
<1> HIDE DEF s, t
<1>14. /\ Range(s) = {k \in DOMAIN g : ~g[k].free}
       /\ Range(t) = {k \in DOMAIN g : g[k].free}
  <2>1. rest \notin DOMAIN f /\ g[rest].free = TRUE /\ g[n].free = FALSE
    BY <1>6, <1>7, <1>9, <1>10
  <2>2. ASSUME NEW k PROVE k \in Range(s) <=> k \in DOMAIN g /\ ~g[k].free
    <3>1. CASE k \in DOMAIN f /\ k # n
      BY <1>1, <1>10, <1>11, <3>1
    <3>2. CASE k = n
      BY <1>4, <1>10, <1>11, <2>1, <3>2
    <3>3. CASE k = rest \/ k \notin DOMAIN g
      BY <1>1, <1>4, <1>10, <1>11, <2>1, <3>3
    <3> QED BY <1>10, <3>1, <3>2, <3>3
  <2>3. ASSUME NEW k PROVE k \in Range(t) <=> k \in DOMAIN g /\ g[k].free
    <3>1. CASE k \in DOMAIN f /\ k # n
      BY <1>1, <1>10, <1>12, <1>13, <2>1, <3>1
    <3>2. CASE k = n
      BY <1>4, <1>12, <1>13, <2>1, <3>2
    <3>3. CASE k = rest \/ k \notin DOMAIN g
      BY <1>1, <1>10, <1>12, <1>13, <2>1, <3>3
    <3> QED BY <1>10, <3>1, <3>2, <3>3
  <2> QED BY <2>2, <2>3
<1>15. /\ m \in Heaps /\ m.head = h.head /\ m.node = g /\ m.allocBin = s /\ m.freeBin = t
  BY <1>1, <1>2, <1>9, <1>11, <1>13 DEF Heaps
<1>16. Consistent(m)
  BY <1>1, <1>7, <1>11, <1>13, <1>14, <1>15, ConsistentIs
<1>17. Serves(h, out, size)
  <2>1. out.heap = m /\ h.node = f
    BY DEF m, f
  <2>2. \A k \in Range(h.allocBin) : g[k].size = f[k].size
    BY <1>1, <1>4, <1>10
  <2>3. g[n].size >= size
    BY <1>6, <1>10
  <2> HIDE DEF out
  <2> QED BY ZenonT(40), <1>2, <1>4, <1>11, <1>15, <2>1, <2>2, <2>3, ServesNode
<1> QED BY <1>16, <1>17 DEF m
\* The free node malloc_aligned puts before the aligned address.
Pad(h, gap) ==
  [h EXCEPT !.node = With(@, h.head, [NewNode(gap) EXCEPT !.free = TRUE]),
            !.freeBin = Push(@, h.head),
            !.head = @ + (gap + Header)]

SameInUse(h, m) ==
  /\ m.allocBin = h.allocBin
  /\ \A k \in Range(h.allocBin) : m.node[k] = h.node[k]

LEMMA PadKeeps ==
  ASSUME NEW h, Consistent(h), NEW gap \in Nat, h.head + Header + gap <= PoolSize
  PROVE  Consistent(Pad(h, gap)) /\ SameInUse(h, Pad(h, gap))
<1> DEFINE m == Pad(h, gap)
           e == h.head
           f == h.node
           v == [NewNode(gap) EXCEPT !.free = TRUE]
           g == With(f, e, v)
           t == Push(h.freeBin, e)
<1>1. /\ h \in Heaps /\ e \in Nat /\ f \in Nodes
      /\ h.allocBin \in Seq(Nat) /\ h.freeBin \in Seq(Nat) /\ Tiles(f, e)
      /\ IsInjective(h.allocBin) /\ IsInjective(h.freeBin)
      /\ Range(h.allocBin) = {k \in DOMAIN f : ~f[k].free}
      /\ Range(h.freeBin) = {k \in DOMAIN f : f[k].free}
  BY HeapIs
<1>2. v \in Node /\ v.size = gap /\ v.free = TRUE
  BY FreshNode
<1>3. m = [h EXCEPT !.node = g, !.freeBin = t, !.head = e + (gap + Header)]
  BY DEF Pad
<1>4. /\ e + (gap + Header) \in Nat /\ e + (gap + Header) <= PoolSize
      /\ e + (gap + Header) = e + Header + gap
  <2>1. e \in Nat /\ e + Header + gap <= PoolSize
    BY <1>1
  <2> HIDE DEF e
  <2> QED BY <2>1 DEF Header
<1>5. e \notin DOMAIN f /\ Tiles(g, e + Header + gap)
  BY <1>1, <1>2, TilesAtEnd
<1>6. Extends(g, f, e, v)
  BY <1>1, <1>2, WithIs
<1>7. t \in Seq(Nat) /\ IsInjective(t) /\ Range(t) = Range(h.freeBin) \cup {e}
  BY <1>1, <1>5, PushIs
<1> HIDE DEF m, e, f, g, v, t
<1>8. /\ g \in Nodes /\ DOMAIN g = DOMAIN f \cup {e} /\ g[e] = v
      /\ \A y \in DOMAIN f : y # e => g[y] = f[y]
  BY <1>6 DEF Extends
<1>9. /\ m \in Heaps /\ m.head = e + (gap + Header) /\ m.node = g
      /\ m.allocBin = h.allocBin /\ m.freeBin = t
  BY <1>1, <1>3, <1>4, <1>7, <1>8 DEF Heaps
<1>10. /\ Range(h.allocBin) = {n \in DOMAIN g : ~g[n].free}
       /\ Range(t) = {n \in DOMAIN g : g[n].free}
  BY <1>1, <1>2, <1>5, <1>7, <1>8
<1>11. Tiles(m.node, m.head) /\ m.head <= PoolSize
  BY <1>4, <1>5, <1>9
<1>12. Consistent(m)
  BY <1>1, <1>7, <1>9, <1>10, <1>11, ConsistentIs
<1>13. \A k \in Range(h.allocBin) : g[k] = f[k]
  BY <1>1, <1>5, <1>8
<1>14. SameInUse(h, m)
  BY <1>9, <1>13 DEF f, SameInUse
<1> QED BY <1>12, <1>14 DEF m

LEMMA MallocKeeps ==
  ASSUME NEW h, Consistent(h), NEW size \in Nat
  PROVE  Consistent(Malloc(h, size).heap) /\ Serves(h, Malloc(h, size), size)
<1> DEFINE toCut == FindNode(h, size + Header + 1)
           toFill == FindNode(h, size)
<1>1. h \in Heaps /\ size + Header + 1 \in Nat
  BY DEF Consistent, Header
<1>2. toCut # Null => toCut \in Range(h.freeBin) /\ h.node[toCut].size >= size + Header + 1
  BY <1>1, FoundNode
<1>3. toFill # Null => toFill \in Range(h.freeBin) /\ h.node[toFill].size >= size
  BY <1>1, FoundNode
<1>4. Malloc(h, size) = IF Header + size <= Room(h) THEN Bump(h, size)
                        ELSE IF toCut # Null THEN Split(h, toCut, size)
                        ELSE IF toFill # Null THEN Reuse(h, toFill)
                        ELSE Out(h)
  BY DEF Malloc
<1> HIDE DEF toCut, toFill
<1>5. CASE Header + size <= Room(h)
  <2>1. Malloc(h, size) = Bump(h, size)
    BY <1>4, <1>5
  <2> QED BY <1>5, <2>1, BumpKeeps
<1>6. CASE ~(Header + size <= Room(h)) /\ toCut # Null
  <2>1. Malloc(h, size) = Split(h, toCut, size)
    BY <1>4, <1>6
  <2> QED BY <1>2, <1>6, <2>1, SplitKeeps
<1>7. CASE ~(Header + size <= Room(h)) /\ toCut = Null /\ toFill # Null
  <2>1. Malloc(h, size) = Reuse(h, toFill)
    BY <1>4, <1>7
  <2> QED BY <1>3, <1>7, <2>1, ReuseKeeps
<1>8. CASE ~(Header + size <= Room(h)) /\ toCut = Null /\ toFill = Null
  <2>1. Malloc(h, size) = Out(h)
    BY <1>4, <1>8
  <2>2. Serves(h, Out(h), size)
    BY DEF Serves, Out
  <2>3. Out(h).heap = h
    BY DEF Out
  <2> QED BY <2>1, <2>2, <2>3
<1> QED BY <1>5, <1>6, <1>7, <1>8

LEMMA MallocAlignedKeeps ==
  ASSUME NEW h, Consistent(h), NEW size \in Nat \ {0}, NEW align \in Nat \ {0}
  PROVE  LET out == MallocAligned(h, size, align)
         IN  Consistent(out.heap) /\ Serves(h, out, size)
<1> DEFINE data == PoolBase + h.head + Header
           padding == (align - (data % align)) % align
           padded == [h EXCEPT
             !.node = With(@, h.head, [NewNode(padding - Header) EXCEPT !.free = TRUE]),
             !.freeBin = Push(@, h.head),
             !.head = @ + padding]
           out == MallocAligned(h, size, align)
<1>1. h.head \in Nat /\ data \in Nat
  BY HeapIs, HeapAssumption DEF Header
<1>2. data % align \in 0 .. align - 1
  BY <1>1
<1>3. align - (data % align) \in Nat
  BY <1>2
<1>4. padding \in Nat
  BY <1>3
<1>5. out = IF align = 1 \/ padding = 0 THEN Malloc(h, size)
            ELSE IF Room(h) < padding + size THEN Out(h)
            ELSE Malloc(padded, size)
  BY DEF MallocAligned
<1> HIDE DEF padding, out
<1>6. CASE align = 1 \/ padding = 0
  <2>1. out = Malloc(h, size)
    BY <1>5, <1>6
  <2> QED BY <2>1, MallocKeeps DEF out
<1>7. CASE ~(align = 1 \/ padding = 0) /\ Room(h) < padding + size
  <2>1. out = Out(h)
    BY <1>5, <1>7
  <2>2. Serves(h, Out(h), size) /\ Out(h).heap = h
    BY DEF Serves, Out
  <2> QED BY <2>1, <2>2 DEF out
<1>8. CASE ~(align = 1 \/ padding = 0) /\ ~(Room(h) < padding + size)
  <2> DEFINE gap == padding - Header
  <2>1. gap \in Nat /\ padding = gap + Header
    BY <1>4, <1>8 DEF Header
  <2>2. h.head + Header + gap <= PoolSize
    BY <1>1, <1>4, <1>8, <2>1, HeapAssumption DEF Room, Header
  <2>3. out = Malloc(padded, size)
    BY <1>5, <1>8
  <2>4. padded = Pad(h, gap)
    BY <2>1 DEF Pad
  <2> HIDE DEF gap, padded
  <2>5. /\ Consistent(padded) /\ padded.allocBin = h.allocBin
        /\ \A k \in Range(h.allocBin) : padded.node[k] = h.node[k]
    BY <2>1, <2>2, <2>4, PadKeeps DEF SameInUse
  <2>6. Consistent(out.heap) /\ Serves(padded, out, size)
    BY <2>3, <2>5, MallocKeeps
  <2>7. Serves(h, out, size)
    BY <2>5, <2>6 DEF Serves
  <2> QED BY <2>6, <2>7 DEF out
<1> QED BY <1>6, <1>7, <1>8 DEF out

\* The node n of a user is given back.
Releases(h, m, n) ==
  /\ Range(m.allocBin) = Range(h.allocBin) \ {n}
  /\ \A k \in Range(h.allocBin) \ {n} : m.node[k].size = h.node[k].size

LEMMA FreeKeeps ==
  ASSUME NEW h, Consistent(h), NEW ptr \in Nat, ptr - Header \in Range(h.allocBin)
  PROVE  Consistent(Free(h, ptr)) /\ Releases(h, Free(h, ptr), ptr - Header)
<1> DEFINE n == ptr - Header
           f == h.node
           e == h.head
           g == [f EXCEPT ![n].free = TRUE]
           d == [k \in DOMAIN f \ {n} |-> f[k]]
           s == Unlink(h.allocBin, n)
           t == Push(h.freeBin, n)
           m == Free(h, ptr)
<1>1. /\ h \in Heaps /\ e \in Nat /\ e <= PoolSize /\ f \in Nodes
      /\ h.allocBin \in Seq(Nat) /\ h.freeBin \in Seq(Nat) /\ Tiles(f, e)
      /\ IsInjective(h.allocBin) /\ IsInjective(h.freeBin)
      /\ Range(h.allocBin) = {k \in DOMAIN f : ~f[k].free}
      /\ Range(h.freeBin) = {k \in DOMAIN f : f[k].free}
  BY HeapIs
<1>2. n \in Range(h.allocBin) /\ ptr = n + Header
  BY DEF Header
<1> DEFINE freed == [h EXCEPT !.node = g, !.allocBin = s]
<1>3. m = IF f[n].free THEN h
          ELSE IF ptr + f[n].size = e
          THEN [freed EXCEPT !.head = n, !.node = [k \in DOMAIN @ \ {n} |-> @[k]]]
          ELSE [freed EXCEPT !.freeBin = t]
  BY DEF Free
<1> HIDE DEF n, f, e, m
<1>4. /\ n \in Nat /\ n \in DOMAIN f /\ DOMAIN f \subseteq Nat /\ ~f[n].free
      /\ n \notin Range(h.freeBin) /\ \A k \in DOMAIN f : f[k] \in Node /\ f[k].size \in Nat
  BY <1>1, <1>2, NodesAre
<1>5. s \in Seq(Nat) /\ IsInjective(s) /\ Range(s) = Range(h.allocBin) \ {n}
  BY <1>1, <1>2, UnlinkIs
<1>6. t \in Seq(Nat) /\ IsInjective(t) /\ Range(t) = Range(h.freeBin) \cup {n}
  BY <1>1, <1>4, PushIs
<1>7. /\ DOMAIN g = DOMAIN f /\ g[n] = [f[n] EXCEPT !.free = TRUE]
      /\ \A k \in DOMAIN f : k # n => g[k] = f[k]
  BY <1>4
<1>8. g[n] \in Node /\ g[n].size = f[n].size /\ g[n].free = TRUE
  BY <1>4, <1>7 DEF Node
<1> HIDE DEF g, s, t
<1>9. CASE ptr + f[n].size = e
  <2>1. d \in Nodes /\ Tiles(d, n)
    <3>1. n + Header + f[n].size = e
      BY <1>2, <1>9
    <3> QED BY <1>1, <1>4, <3>1, TilesDrop
  <2>2. DOMAIN d = DOMAIN f \ {n} /\ \A k \in DOMAIN d : d[k] = f[k]
    OBVIOUS
  <2>3. d = [k \in DOMAIN g \ {n} |-> g[k]]
    BY <1>7
  <2>4. m = [freed EXCEPT !.head = n, !.node = [k \in DOMAIN g \ {n} |-> g[k]]]
    BY <1>1, <1>3, <1>4, <1>9 DEF Heaps
  <2>5. m = [freed EXCEPT !.head = n, !.node = d]
    BY <2>3, <2>4
  <2> HIDE DEF d
  <2>6. /\ m \in Heaps /\ m.head = n /\ m.node = d /\ m.allocBin = s
        /\ m.freeBin = h.freeBin
    BY <1>1, <1>4, <1>5, <2>1, <2>5 DEF Heaps
  <2>7. n <= PoolSize
    <3>1. n <= e
      BY <1>1, <1>2, <1>4, <1>9 DEF Header
    <3> QED BY <1>1, <1>4, <3>1, HeapAssumption
  <2>8. /\ Range(s) = {k \in DOMAIN d : ~d[k].free}
        /\ Range(h.freeBin) = {k \in DOMAIN d : d[k].free}
    BY <1>1, <1>4, <1>5, <2>2
  <2>9. Consistent(m)
    BY <1>1, <1>5, <2>1, <2>6, <2>7, <2>8, ConsistentIs
  <2>10. Releases(h, m, n)
    <3>1. \A k \in Range(h.allocBin) \ {n} : d[k].size = f[k].size
      BY <1>1, <2>2
    <3> QED BY <1>5, <2>6, <3>1 DEF Releases, f
  <2> QED BY <2>9, <2>10 DEF m, n
<1>10. CASE ptr + f[n].size # e
  <2>1. m = [freed EXCEPT !.freeBin = t]
    BY <1>3, <1>4, <1>10
  <2>2. g \in Nodes
    <3>1. g \in [DOMAIN f -> Node]
      BY <1>4, <1>7, <1>8 DEF g
    <3> QED BY <1>4, <3>1, AreNodes
  <2>3. m \in Heaps /\ m.head = e /\ m.node = g /\ m.allocBin = s /\ m.freeBin = t
    BY <1>1, <1>5, <1>6, <2>1, <2>2 DEF Heaps, e
  <2>4. Tiles(g, e)
    <3>1. \A k \in DOMAIN f : g[k].size = f[k].size
      BY <1>7, <1>8
    <3> QED BY <1>1, <1>7, <3>1, TilesSame
  <2>5. /\ Range(s) = {k \in DOMAIN g : ~g[k].free}
        /\ Range(t) = {k \in DOMAIN g : g[k].free}
    BY <1>1, <1>4, <1>5, <1>6, <1>7, <1>8
  <2>6. Consistent(m)
    BY <1>1, <1>5, <1>6, <2>3, <2>4, <2>5, ConsistentIs
  <2>7. Releases(h, m, n)
    <3>1. \A k \in Range(h.allocBin) \ {n} : g[k].size = f[k].size
      BY <1>1, <1>7
    <3> QED BY <1>5, <2>3, <3>1 DEF Releases, f
  <2> QED BY <2>6, <2>7 DEF m, n
<1> QED BY <1>9, <1>10

-----------------------------------------------------------------------------
(* The users.                                                              *)

LEMMA InitHolds == HeapInit => HeapInv
<1> SUFFICES ASSUME HeapInit PROVE HeapInv
  OBVIOUS
<1>1. /\ heap = EmptyHeap /\ live = << >>
  BY DEF HeapInit
<1>2. /\ EmptyHeap.head = 0 /\ EmptyHeap.node = << >>
      /\ EmptyHeap.allocBin = << >> /\ EmptyHeap.freeBin = << >>
  BY DEF EmptyHeap
<1>3. DOMAIN << >> = {}
  OBVIOUS
<1>4. << >> \in Nodes
  <2>1. << >> \in [{} -> Node]
    BY <1>3
  <2> QED BY <2>1, AreNodes
<1>5. << >> \in Seq(Nat) /\ IsInjective(<< >>) /\ Range(<< >>) = {}
  BY <1>3 DEF IsInjective, Range
<1>6. heap \in Heaps
  BY <1>1, <1>4, <1>5 DEF EmptyHeap, Heaps
<1>7. Tiles(<< >>, 0)
  BY <1>3 DEF Tiles
<1>8. Consistent(heap)
  BY <1>1, <1>2, <1>3, <1>5, <1>6, <1>7, HeapAssumption DEF Consistent, BinsSplit
<1>9. UsersHold(heap, live)
  BY <1>1, <1>2, <1>3, <1>5 DEF UsersHold
<1> QED BY <1>8, <1>9 DEF HeapInv

LEMMA TakeHolds ==
  ASSUME HeapInv, NEW out, NEW size \in Nat, Consistent(out.heap), Serves(heap, out, size),
         Take(out, size)
  PROVE  HeapInv'
<1> DEFINE n == out.ptr - Header
<1>1. heap' = out.heap /\ Consistent(heap')
  BY DEF Take
<1>2. /\ \A p \in DOMAIN live : /\ p - Header \in Range(heap.allocBin)
                                /\ p - Header \in Nat /\ p \in Nat /\ live[p] \in Nat
                                /\ live[p] <= heap.node[p - Header].size
      /\ {p - Header : p \in DOMAIN live} = Range(heap.allocBin)
  BY DEF HeapInv, UsersHold
<1>3. \A p \in DOMAIN live : heap'.node[p - Header].size = heap.node[p - Header].size
  BY <1>1, <1>2 DEF Serves
<1>4. UsersHold(heap', live')
  <2>1. CASE out.ptr = Null
    <3>1. live' = live /\ Range(heap'.allocBin) = Range(heap.allocBin)
      BY <1>1, <2>1 DEF Take, Serves
    <3> QED BY <1>2, <1>3, <3>1 DEF UsersHold
  <2>2. CASE out.ptr # Null
    <3>1. /\ n \in Nat /\ out.ptr \in Nat /\ n \notin Range(heap.allocBin)
          /\ Range(heap'.allocBin) = Range(heap.allocBin) \cup {n}
          /\ heap'.node[n].size >= size
      BY <1>1, <2>2 DEF Serves
    <3>2. live' = [y \in DOMAIN live \cup {out.ptr} |-> IF y = out.ptr THEN size ELSE live[y]]
      BY <2>2 DEF Take, With
    <3>3. out.ptr \notin DOMAIN live
      BY <1>2, <3>1
    <3> DEFINE q == out.ptr
    <3> HIDE DEF n
    <3>4. /\ DOMAIN live' = DOMAIN live \cup {q} /\ live'[q] = size
          /\ \A p \in DOMAIN live : live'[p] = live[p]
      BY <3>2, <3>3
    <3>5. q - Header = n /\ q \in Nat
      BY <3>1 DEF n
    <3> HIDE DEF q
    <3>6. \A p \in DOMAIN live' : /\ p - Header \in Nat /\ p \in Nat /\ live'[p] \in Nat
                                  /\ live'[p] <= heap'.node[p - Header].size
      <4> SUFFICES ASSUME NEW p \in DOMAIN live'
                   PROVE  /\ p - Header \in Nat /\ p \in Nat /\ live'[p] \in Nat
                          /\ live'[p] <= heap'.node[p - Header].size
        OBVIOUS
      <4>1. CASE p = q
        <5>1. heap'.node[n] = heap'.node[p - Header] /\ live'[p] = size
          BY <3>4, <3>5, <4>1
        <5>2. size <= heap'.node[n].size
          <6>1. heap'.node[n].size \in Nat
            <7>1. n \in DOMAIN heap'.node /\ heap'.node \in Nodes
              BY <1>1, <3>1, HeapIs
            <7> QED BY <7>1, NodesAre
          <6> QED BY <3>1, <6>1
        <5> QED BY <3>1, <3>5, <4>1, <5>1, <5>2
      <4>2. CASE p # q
        <5>1. p \in DOMAIN live /\ live'[p] = live[p]
          BY <3>4, <4>2
        <5> QED BY <1>2, <1>3, <5>1
      <4> QED BY <4>1, <4>2
    <3>7. {p - Header : p \in DOMAIN live'} = Range(heap'.allocBin)
      BY <1>2, <3>1, <3>4, <3>5
    <3> QED BY <3>6, <3>7 DEF UsersHold
  <2> QED BY <2>1, <2>2
<1> QED BY <1>1, <1>4 DEF HeapInv

LEMMA GiveBackHolds ==
  ASSUME HeapInv, NEW ptr \in DOMAIN live, GiveBack(ptr)
  PROVE  HeapInv'
<1> DEFINE n == ptr - Header
<1>1. /\ \A p \in DOMAIN live : /\ p - Header \in Range(heap.allocBin)
                                /\ p - Header \in Nat /\ p \in Nat /\ live[p] \in Nat
                                /\ live[p] <= heap.node[p - Header].size
      /\ {p - Header : p \in DOMAIN live} = Range(heap.allocBin)
  BY DEF HeapInv, UsersHold
<1>2. Consistent(heap') /\ Releases(heap, heap', n)
  <2>1. heap' = Free(heap, ptr) /\ Consistent(heap)
    BY DEF GiveBack, HeapInv
  <2>2. ptr \in Nat /\ ptr - Header \in Range(heap.allocBin)
    BY <1>1
  <2> QED BY <2>1, <2>2, FreeKeeps
<1>3. DOMAIN live' = DOMAIN live \ {ptr} /\ \A p \in DOMAIN live' : live'[p] = live[p]
  BY DEF GiveBack
<1>4. \A p \in DOMAIN live' : p \in DOMAIN live /\ p - Header # n
  BY <1>1, <1>3 DEF Header
<1> HIDE DEF n
<1>5. \A p \in DOMAIN live' : heap'.node[p - Header].size = heap.node[p - Header].size
  BY <1>1, <1>2, <1>4 DEF Releases
<1>6. \A p \in DOMAIN live' : /\ p - Header \in Nat /\ p \in Nat /\ live'[p] \in Nat
                              /\ live'[p] <= heap'.node[p - Header].size
  BY <1>1, <1>3, <1>4, <1>5
<1>7. {p - Header : p \in DOMAIN live'} = Range(heap'.allocBin)
  <2>1. Range(heap'.allocBin) = {p - Header : p \in DOMAIN live} \ {n}
    BY <1>1, <1>2 DEF Releases
  <2>2. \A p \in DOMAIN live : p - Header # n => p \in DOMAIN live'
    BY <1>3 DEF n
  <2> QED BY <1>4, <2>1, <2>2
<1> QED BY <1>2, <1>6, <1>7 DEF HeapInv, UsersHold

LEMMA StepHolds == HeapInv /\ [HeapNext]_heapVars => HeapInv'
<1> SUFFICES ASSUME HeapInv, [HeapNext]_heapVars PROVE HeapInv'
  OBVIOUS
<1>1. Consistent(heap)
  BY DEF HeapInv
<1>2. ASSUME NEW size \in Sizes, AskMalloc(size) PROVE HeapInv'
  <2>1. size \in Nat
    BY HeapAssumption
  <2>2. Consistent(Malloc(heap, size).heap) /\ Serves(heap, Malloc(heap, size), size)
    BY <1>1, <2>1, MallocKeeps
  <2> QED BY <1>2, <2>1, <2>2, TakeHolds DEF AskMalloc
<1>3. ASSUME NEW size \in Sizes, NEW align \in Aligns, AskAligned(size, align) PROVE HeapInv'
  <2>1. size \in Nat \ {0} /\ align \in Nat \ {0}
    BY HeapAssumption
  <2> DEFINE out == MallocAligned(heap, size, align)
  <2>2. Consistent(out.heap) /\ Serves(heap, out, size)
    BY <1>1, <2>1, MallocAlignedKeeps
  <2>3. Take(out, size)
    BY <1>3 DEF AskAligned
  <2> HIDE DEF out
  <2> QED BY <2>1, <2>2, <2>3, TakeHolds
<1>4. ASSUME NEW ptr \in DOMAIN live, GiveBack(ptr) PROVE HeapInv'
  BY <1>4, GiveBackHolds
<1>5. CASE UNCHANGED heapVars
  BY <1>5 DEF heapVars, HeapInv, Consistent, UsersHold
<1> QED BY <1>2, <1>3, <1>4, <1>5 DEF HeapNext

\* After any sequence of requests and returns the nodes tile the used part of
\* the pool, each is in the list its flag names, and each node in use belongs to
\* one user and is large enough for it (heap.c, heap_bin.c).
THEOREM HeapInvariant == HeapSpec => []HeapInv
<1>1. HeapInit => HeapInv
  BY InitHolds
<1>2. HeapInv /\ [HeapNext]_heapVars => HeapInv'
  BY StepHolds
<1> QED BY <1>1, <1>2, PTL DEF HeapSpec

-----------------------------------------------------------------------------
(* The properties.                                                         *)

LEMMA ExtentsAre ==
  ASSUME HeapInv, NEW n \in DOMAIN heap.node
  PROVE  /\ n \in Nat /\ heap.node[n].size \in Nat
         /\ \A a : a \in Extent(heap, n)
                     <=> a \in Nat /\ n <= a /\ a < n + Header + heap.node[n].size
<1>1. n \in Nat /\ heap.node[n].size \in Nat
  BY HeapIs, NodesAre DEF HeapInv
<1> DEFINE k == heap.node[n].size
<1>2. Extent(heap, n) = n .. n + Header + k - 1
  BY DEF Extent
<1> HIDE DEF k
<1>3. \A a : a \in n .. n + Header + k - 1 <=> a \in Nat /\ n <= a /\ a < n + Header + k
  BY <1>1 DEF Header, k
<1> QED BY <1>1, <1>2, <1>3 DEF k

LEMMA ExtentsApart ==
  ASSUME HeapInv, NEW m \in DOMAIN heap.node, NEW n \in DOMAIN heap.node, m # n
  PROVE  Extent(heap, m) \cap Extent(heap, n) = {}
<1>1. Tiles(heap.node, heap.head)
  BY HeapIs DEF HeapInv
<1>2. \/ m + Header + heap.node[m].size <= n
      \/ n + Header + heap.node[n].size <= m
  BY <1>1, ExtentsAre DEF Tiles
<1> SUFFICES ASSUME NEW a \in Extent(heap, m), a \in Extent(heap, n) PROVE FALSE
  OBVIOUS
<1>3. /\ a \in Nat /\ m \in Nat /\ n \in Nat
      /\ m <= a /\ a < m + Header + heap.node[m].size
      /\ n <= a /\ a < n + Header + heap.node[n].size
  BY ExtentsAre
<1>4. heap.node[m].size \in Nat /\ heap.node[n].size \in Nat
  BY ExtentsAre
<1> QED BY <1>2, <1>3, <1>4 DEF Header

\* Splitting, padding and the return of the last node neither lose memory of the
\* pool nor count it twice (heap.c: malloc, malloc_aligned, free).
THEOREM PoolIsTiled == HeapSpec => []NodesTileThePool
<1>1. ASSUME HeapInv PROVE NodesTileThePool
  <2>1. Tiles(heap.node, heap.head) /\ heap.head \in Nat
    BY <1>1, HeapIs DEF HeapInv
  <2>2. ASSUME NEW a PROVE (\E n \in DOMAIN heap.node : a \in Extent(heap, n))
                             <=> a \in 0 .. heap.head - 1
    <3>1. ASSUME NEW n \in DOMAIN heap.node, a \in Extent(heap, n)
          PROVE  a \in 0 .. heap.head - 1
      <4>1. /\ a \in Nat /\ a < n + Header + heap.node[n].size
            /\ n \in Nat /\ heap.node[n].size \in Nat
        BY <1>1, <3>1, ExtentsAre
      <4>2. n + Header + heap.node[n].size <= heap.head
        BY <2>1 DEF Tiles
      <4> QED BY <2>1, <4>1, <4>2 DEF Header
    <3>2. ASSUME a \in 0 .. heap.head - 1
          PROVE  \E n \in DOMAIN heap.node : a \in Extent(heap, n)
      <4>1. a \in Nat /\ a < heap.head
        BY <2>1, <3>2
      <4>2. PICK n \in DOMAIN heap.node : n <= a /\ a < n + Header + heap.node[n].size
        BY <2>1, <4>1 DEF Tiles
      <4>3. a \in Extent(heap, n)
        BY <1>1, <4>1, <4>2, ExtentsAre
      <4> QED BY <4>3
    <3> QED BY <3>1, <3>2
  <2>3. UNION {Extent(heap, n) : n \in DOMAIN heap.node} = 0 .. heap.head - 1
    BY <2>2
  <2>4. \A m, n \in DOMAIN heap.node :
          m # n => Extent(heap, m) \cap Extent(heap, n) = {}
    BY <1>1, ExtentsApart
  <2> QED BY <2>3, <2>4 DEF NodesTileThePool
<1> QED BY <1>1, HeapInvariant, PTL

\* Each node is in the list its flag names, once, and those in use are the users'
\* (bin_push, bin_remove and the flags set in malloc and free).
THEOREM ListsAgree == HeapSpec => []ListsAgreeWithFlags
<1>1. HeapInv => ListsAgreeWithFlags
  BY DEF HeapInv, Consistent, BinsSplit, UsersHold, ListsAgreeWithFlags
<1> QED BY <1>1, HeapInvariant, PTL

\* What a user writes to its data reaches no header and no data of another node
\* and stays inside the pool (the sizes malloc and malloc_aligned hand out).
THEOREM UsersAreApart == HeapSpec => []DataIsPrivate
<1>1. ASSUME HeapInv PROVE DataIsPrivate
  <2> SUFFICES ASSUME NEW p \in DOMAIN live
               PROVE  LET data == p .. p + live[p] - 1 IN
                        /\ data \subseteq 0 .. PoolSize - 1
                        /\ \A n \in DOMAIN heap.node \ {p - Header} :
                             data \cap Extent(heap, n) = {}
                        /\ heap.node[p - Header].size >= live[p]
    BY DEF DataIsPrivate
  <2> DEFINE data == p .. p + live[p] - 1
             o == p - Header
             k == heap.node[o].size
  <2>1. o \in Nat /\ p \in Nat /\ live[p] \in Nat /\ live[p] <= k /\ o \in DOMAIN heap.node
    BY <1>1, HeapIs DEF HeapInv, UsersHold
  <2>2. k \in Nat /\ p = o + Header
    BY <1>1, <2>1, ExtentsAre DEF Header
  <2>3. k >= live[p]
    BY <2>1, <2>2
  <2>4. o + Header + k <= heap.head /\ heap.head <= PoolSize /\ heap.head \in Nat
    BY <1>1, <2>1, HeapIs DEF HeapInv, Tiles
  <2>5. \A a \in data : a \in Extent(heap, o) /\ a \in 0 .. PoolSize - 1
    <3> SUFFICES ASSUME NEW a \in data PROVE a \in Extent(heap, o) /\ a \in 0 .. PoolSize - 1
      OBVIOUS
    <3>1. a \in Nat /\ p <= a /\ a < p + live[p]
      BY <2>1
    <3> HIDE DEF o, k, data
    <3>2. o <= a /\ a < o + Header + k
      BY <2>1, <2>2, <3>1 DEF Header
    <3>3. a \in Extent(heap, o)
      BY <1>1, <2>1, <3>1, <3>2, ExtentsAre DEF k
    <3>4. a < PoolSize
      BY <2>1, <2>2, <2>4, <3>1, <3>2, HeapAssumption DEF Header
    <3> QED BY <3>1, <3>3, <3>4, HeapAssumption
  <2>6. \A n \in DOMAIN heap.node \ {o} : Extent(heap, o) \cap Extent(heap, n) = {}
    BY <1>1, <2>1, ExtentsApart
  <2> HIDE DEF data
  <2>7. data \subseteq 0 .. PoolSize - 1
    BY <2>5
  <2>8. \A n \in DOMAIN heap.node \ {o} : data \cap Extent(heap, n) = {}
    BY <2>5, <2>6
  <2> QED BY <2>3, <2>7, <2>8 DEF data
<1> QED BY <1>1, HeapInvariant, PTL

=============================================================================
