----------------------------- MODULE BootProofs -----------------------------
(***************************************************************************)
(* The boot loader, for any volumes: which failed reads can reach the       *)
(* kernel, where the sectors of the bump allocator lie, and that the image  *)
(* of the kernel is the one on the disk. Each of these theorems names the   *)
(* assumption of module Boot it needs about the volumes.                    *)
(* The kernel's start: the interrupts that come while it runs, and what it  *)
(* and its threads print, in which colour and in which order, on a screen   *)
(* of any size, through a buffer of any size and whatever the stale         *)
(* position of tty1 is.                                                     *)
(***************************************************************************)
EXTENDS BootChain, TLAPS, NaturalsInduction, WellFoundedInduction

\* Whatever the kernel does, it leaves the loader alone.
LEMMA LoaderOrNothing ==
  ChainNext \/ UNCHANGED chainVars => Step \/ UNCHANGED vars
BY DEF ChainNext, LoaderStep, KernelStep, Over, chainVars

-----------------------------------------------------------------------------
(* Induction.                                                              *)

\* There is no endless descent in the numbers.
LEMMA LessIsWellFounded ==
  IsWellFoundedOn({ss \in Nat \X Nat : ss[1] < ss[2]}, Nat)
BY NatLessThanWellFounded DEF OpToRel

\* A set of numbers that is not empty has a least member.
LEMMA LeastMember ==
  ASSUME NEW T, T \subseteq Nat, T # {}
  PROVE  \E x \in T : \A y \in T : x <= y
<1> DEFINE R == {ss \in Nat \X Nat : ss[1] < ss[2]}
<1>1. PICK x \in T : \A y \in T : <<y, x>> \notin R
  <2>1. IsWellFoundedOn(R, Nat)
    BY LessIsWellFounded
  <2> HIDE DEF R
  <2> QED BY <2>1, WFMin
<1>2. \A y \in T : ~(y < x)
  BY <1>1
<1> QED BY <1>2

\* Induction, for a set.
LEMMA Induct ==
  ASSUME NEW T, 0 \in T, \A n \in Nat : n \in T => n + 1 \in T
  PROVE  Nat \subseteq T
<1> SUFFICES ASSUME Nat \ T # {} PROVE FALSE
  OBVIOUS
<1>1. PICK x \in Nat \ T : \A y \in Nat \ T : x <= y
  <2> DEFINE U == Nat \ T
  <2> HIDE DEF U
  <2>1. U \subseteq Nat /\ U # {}
    BY DEF U
  <2>2. \E x \in U : \A y \in U : x <= y
    BY <2>1, LeastMember
  <2> QED BY <2>2 DEF U
<1>2. x # 0 /\ x - 1 \in Nat
  BY <1>1
<1>3. x - 1 \in T
  BY <1>1, <1>2
<1> QED BY <1>1, <1>2, <1>3

-----------------------------------------------------------------------------
(* Division.                                                               *)

\* Multiplication is monotone, by a whole step.
LEMMA TimesGrows ==
  ASSUME NEW s \in Nat, NEW q \in Nat, NEW k \in Nat, q < k
  PROVE  s * q + s <= s * k
<1>1. PICK d \in Nat : k = q + 1 + d
  <2>1. k - q - 1 \in Nat /\ k = q + 1 + (k - q - 1)
    OBVIOUS
  <2> QED BY <2>1
<1>2. s * k = s * q + s + s * d
  BY <1>1
<1>3. s * d \in Nat
  OBVIOUS
<1>4. s * q \in Nat
  OBVIOUS
<1> QED BY <1>2, <1>3, <1>4

\* There is one quotient and one remainder.
LEMMA QuotientIsUnique ==
  ASSUME NEW s \in Nat \ {0}, NEW q \in Nat, NEW k \in Nat, NEW r \in 0 .. s - 1, NEW v \in 0 .. s - 1,
         s * q + r = s * k + v
  PROVE  q = k /\ r = v
<1>1. s * q \in Nat /\ s * k \in Nat
  OBVIOUS
<1>2. ~(q < k)
  <2> SUFFICES ASSUME q < k PROVE FALSE
    OBVIOUS
  <2>1. s * q + s <= s * k
    BY TimesGrows
  <2> QED BY <1>1, <2>1
<1>3. ~(k < q)
  <2> SUFFICES ASSUME k < q PROVE FALSE
    OBVIOUS
  <2>1. s * k + s <= s * q
    BY TimesGrows
  <2> QED BY <1>1, <2>1
<1>4. q = k
  BY <1>2, <1>3
<1> QED BY <1>1, <1>4

\* Quotient and remainder of a division.
LEMMA DivMod ==
  ASSUME NEW s \in Nat \ {0}, NEW p \in Nat
  PROVE  /\ p \div s \in Nat /\ p % s \in 0 .. s - 1 /\ p = s * (p \div s) + (p % s)
<1>1. p \div s \in Nat /\ p % s \in 0 .. s - 1
  OBVIOUS
<1> QED BY <1>1

LEMMA DivModIs ==
  ASSUME NEW s \in Nat \ {0}, NEW q \in Nat, NEW r \in 0 .. s - 1
  PROVE  (s * q + r) \div s = q /\ (s * q + r) % s = r
<1> DEFINE p == s * q + r
<1>1. p \in Nat
  <2>1. s * q \in Nat
    OBVIOUS
  <2> QED BY <2>1
<1>2. p \div s \in Nat /\ p % s \in 0 .. s - 1 /\ p = s * (p \div s) + (p % s)
  <2> HIDE DEF p
  <2> QED BY <1>1, DivMod
<1>3. s * q + r = s * (p \div s) + (p % s)
  BY <1>2
<1> HIDE DEF p
<1>4. r = p % s /\ q = p \div s
  BY <1>2, <1>3, QuotientIsUnique
<1> QED BY <1>4 DEF p

\* A quotient grows with what is divided.
LEMMA DivGrows ==
  ASSUME NEW s \in Nat \ {0}, NEW p \in Nat, NEW r \in Nat, p <= r
  PROVE  p \div s <= r \div s
<1> DEFINE q == p \div s
           k == r \div s
<1>1. q \in Nat /\ p % s \in 0 .. s - 1 /\ p = s * q + (p % s)
  BY DivMod
<1>2. k \in Nat /\ r % s \in 0 .. s - 1 /\ r = s * k + (r % s)
  BY DivMod
<1> HIDE DEF q, k
<1>3. SUFFICES ASSUME k < q PROVE FALSE
  BY <1>1, <1>2 DEF q, k
<1>4. s * k + s <= s * q
  BY <1>1, <1>2, <1>3, TimesGrows
<1>5. s * k \in Nat /\ s * q \in Nat
  BY <1>1, <1>2
<1> QED BY <1>1, <1>2, <1>4, <1>5

-----------------------------------------------------------------------------
(* The volume: the chain of the kernel's file, the places of its units, and *)
(* the positions the file goes through.                                     *)

\* The first n hops down the chain.
IsChain(d, f, n) == f = [i \in 0..n |-> IF i = 0 THEN d.kernel ELSE d.fat[f[i - 1]]]

LEMMA ChainExists ==
  ASSUME NEW d, NEW n \in Nat
  PROVE  \E f : IsChain(d, f, n)
<1> DEFINE T == {k \in Nat : \E f : IsChain(d, f, k)}
<1>1. 0 \in T
  <2> DEFINE f == [i \in 0..0 |-> d.kernel]
  <2>1. f = [i \in 0..0 |-> IF i = 0 THEN d.kernel ELSE d.fat[f[i - 1]]]
    OBVIOUS
  <2> QED BY <2>1 DEF IsChain
<1>2. ASSUME NEW k \in Nat, k \in T PROVE k + 1 \in T
  <2>1. PICK f : IsChain(d, f, k)
    BY <1>2
  <2> DEFINE g == [i \in 0..k + 1 |-> IF i = k + 1 THEN d.fat[f[k]] ELSE f[i]]
  <2>2. ASSUME NEW i \in 0..k + 1 PROVE g[i] = IF i = 0 THEN d.kernel ELSE d.fat[g[i - 1]]
    <3>1. CASE i = k + 1
      BY <3>1
    <3>2. CASE i # k + 1
      <4>1. i \in 0..k /\ g[i] = f[i] /\ (i # 0 => g[i - 1] = f[i - 1])
        BY <3>2
      <4>2. f[i] = IF i = 0 THEN d.kernel ELSE d.fat[f[i - 1]]
        BY <2>1, <4>1 DEF IsChain
      <4> QED BY <4>1, <4>2
    <3> QED BY <3>1, <3>2
  <2>3. g = [i \in 0..k + 1 |-> IF i = 0 THEN d.kernel ELSE d.fat[g[i - 1]]]
    <3>1. DOMAIN g = 0..k + 1 /\ g = [i \in 0..k + 1 |-> g[i]]
      OBVIOUS
    <3> HIDE DEF g
    <3> QED BY <2>2, <3>1
  <2> HIDE DEF g
  <2>4. IsChain(d, g, k + 1)
    BY <2>3 DEF IsChain
  <2> QED BY <2>4
<1>3. Nat \subseteq T
  <2> HIDE DEF T
  <2> QED BY <1>1, <1>2, Induct
<1> QED BY <1>3

LEMMA ChainIs ==
  ASSUME NEW d, NEW n \in Nat
  PROVE  IsChain(d, Chain(d, n), n)
<1>1. Chain(d, n) = CHOOSE f : IsChain(d, f, n)
  BY DEF Chain, IsChain
<1> QED BY <1>1, ChainExists

\* The cluster q hops down the chain of the kernel's file.
ClusterOf(d, q) == Chain(d, q)[q]

LEMMA NextCluster ==
  ASSUME NEW d, NEW n \in Nat
  PROVE  ClusterOf(d, n + 1) = d.fat[ClusterOf(d, n)] /\ ClusterOf(d, 0) = d.kernel
<1> DEFINE f == Chain(d, n)
           g == Chain(d, n + 1)
           T == {i \in Nat : i <= n => f[i] = g[i]}
<1>1. IsChain(d, f, n) /\ IsChain(d, g, n + 1) /\ IsChain(d, Chain(d, 0), 0)
  BY ChainIs
<1> HIDE DEF f, g
<1>2. f[0] = d.kernel /\ g[0] = d.kernel /\ Chain(d, 0)[0] = d.kernel
  BY <1>1 DEF IsChain
<1>3. \A i \in 1..n : f[i] = d.fat[f[i - 1]] /\ g[i] = d.fat[g[i - 1]]
  BY <1>1 DEF IsChain
<1>4. g[n + 1] = d.fat[g[n]]
  <2>1. n + 1 \in 0..n + 1 /\ n + 1 # 0 /\ (n + 1) - 1 = n
    OBVIOUS
  <2> QED BY <1>1, <2>1 DEF IsChain
<1>5. 0 \in T
  BY <1>2
<1>6. ASSUME NEW k \in Nat, k \in T PROVE k + 1 \in T
  <2> SUFFICES ASSUME k + 1 <= n PROVE f[k + 1] = g[k + 1]
    OBVIOUS
  <2>1. k + 1 \in 1..n /\ (k + 1) - 1 = k /\ f[k] = g[k]
    BY <1>6
  <2>2. f[k + 1] = d.fat[f[(k + 1) - 1]] /\ g[k + 1] = d.fat[g[(k + 1) - 1]]
    BY <1>3, <2>1
  <2> QED BY <2>1, <2>2
<1>7. Nat \subseteq T
  <2> HIDE DEF T
  <2> QED BY <1>5, <1>6, Induct
<1>8. f[n] = g[n]
  BY <1>7
<1> QED BY <1>2, <1>4, <1>8 DEF ClusterOf, f, g

\* A cluster that the file reaches has its entry in the FAT, and its number
\* fits in 16 bits.
LEMMA ClusterInFile ==
  ASSUME NEW d, FileIsWhole(d), NEW q \in Nat, BytesPerCluster * q < d.fileSize
  PROVE  ClusterOf(d, q) \in DOMAIN d.fat /\ ClusterOf(d, q) \in 0..UINT16_MAX
<1> DEFINE b == BytesPerCluster
           f == d.fileSize
           m == (f - 1) \div b
<1>1. b \in Nat \ {0} /\ f \in Nat /\ b * q \in Nat
  BY BootFatAssumption DEF FileIsWhole
<1>2. f - 1 \in Nat
  BY <1>1
<1>3. m \in Nat /\ (f - 1) % b \in 0 .. b - 1 /\ f - 1 = b * m + ((f - 1) % b)
  BY <1>1, <1>2, DivMod
<1>4. \A k \in 0..m : Chain(d, k)[k] \in DOMAIN d.fat \cap 0..UINT16_MAX
  BY DEF FileIsWhole
<1> HIDE DEF b, m
<1>5. ~(m < q)
  <2> SUFFICES ASSUME m < q PROVE FALSE
    OBVIOUS
  <2>1. b * m + b <= b * q
    BY <1>1, <1>3, TimesGrows
  <2>2. b * m \in Nat /\ b * q < f
    BY <1>1, <1>3 DEF b
  <2> QED BY <1>1, <1>3, <2>1, <2>2
<1>6. q \in 0..m
  BY <1>3, <1>5
<1> QED BY <1>4, <1>6 DEF ClusterOf

\* Where a unit of the file lies.
LEMMA UnitAt ==
  ASSUME NEW d, NEW q \in Nat, NEW p \in 0 .. BytesPerCluster - 1
  PROVE  UnitOf(d, BytesPerCluster * q + p) = <<ClusterOf(d, q), p>>
<1>1. BytesPerCluster \in Nat \ {0}
  BY BootFatAssumption
<1>2. (BytesPerCluster * q + p) \div BytesPerCluster = q /\ (BytesPerCluster * q + p) % BytesPerCluster = p
  BY <1>1, DivModIs
<1> QED BY <1>2 DEF UnitOf, ClusterOf

\* What segment i adds to the position of the file.
Gain(e, i) == IF e.segments[i].type = "LOAD"
              THEN e.segments[i].offset + e.segments[i].fileSize ELSE 0

IsSum(e, f) ==
  f = [i \in 0..Len(e.segments) |->
          IF i = 0 THEN e.headerSize + e.tablePosition + Len(e.segments)
          ELSE f[i - 1] + Gain(e, i)]

LEMMA SumExists ==
  ASSUME NEW e, Loadable(e)
  PROVE  \E f : IsSum(e, f)
<1> DEFINE n == Len(e.segments)
           a == e.headerSize + e.tablePosition + n
           Sums(f, k) == f = [i \in 0..k |-> IF i = 0 THEN a ELSE f[i - 1] + Gain(e, i)]
           T == {k \in Nat : \E f : Sums(f, k)}
<1>1. 0 \in T
  <2> DEFINE f == [i \in 0..0 |-> a]
  <2>1. f = [i \in 0..0 |-> IF i = 0 THEN a ELSE f[i - 1] + Gain(e, i)]
    OBVIOUS
  <2> QED BY <2>1
<1>2. ASSUME NEW k \in Nat, k \in T PROVE k + 1 \in T
  <2>1. PICK f : Sums(f, k)
    BY <1>2
  <2> HIDE DEF a
  <2> DEFINE g == [i \in 0..k + 1 |-> IF i = k + 1 THEN f[k] + Gain(e, k + 1) ELSE f[i]]
  <2>2. ASSUME NEW i \in 0..k + 1 PROVE g[i] = IF i = 0 THEN a ELSE g[i - 1] + Gain(e, i)
    <3>1. CASE i = k + 1
      BY <3>1
    <3>2. CASE i # k + 1
      <4>1. i \in 0..k /\ g[i] = f[i] /\ (i # 0 => g[i - 1] = f[i - 1])
        BY <3>2
      <4>2. f[i] = IF i = 0 THEN a ELSE f[i - 1] + Gain(e, i)
        BY <2>1, <4>1
      <4> QED BY <4>1, <4>2
    <3> QED BY <3>1, <3>2
  <2>3. DOMAIN g = 0..k + 1 /\ g = [i \in 0..k + 1 |-> g[i]]
    OBVIOUS
  <2> HIDE DEF g
  <2>4. Sums(g, k + 1)
    BY <2>2, <2>3
  <2> QED BY <2>4
<1>3. Nat \subseteq T
  <2> HIDE DEF T
  <2> QED BY <1>1, <1>2, Induct
<1>4. n \in Nat
  BY DEF Loadable
<1>5. \E f : Sums(f, n)
  <2> HIDE DEF Sums, n
  <2> QED BY <1>3, <1>4
<1> QED BY <1>5 DEF IsSum

LEMMA ReachedIs ==
  ASSUME NEW e, Loadable(e)
  PROVE  LET n == Len(e.segments)
             f == Reached(e)
         IN  /\ f[0] = e.headerSize + e.tablePosition + n
             /\ \A i \in 1..n : f[i] = f[i - 1] + Gain(e, i)
<1>1. Reached(e) = CHOOSE f : IsSum(e, f)
  BY DEF Reached, IsSum, Gain
<1>2. IsSum(e, Reached(e))
  BY <1>1, SumExists
<1> DEFINE n == Len(e.segments)
           f == Reached(e)
<1>3. n \in Nat
  BY DEF Loadable
<1>4. f = [i \in 0..n |-> IF i = 0 THEN e.headerSize + e.tablePosition + n
                          ELSE f[i - 1] + Gain(e, i)]
  BY <1>2 DEF IsSum
<1> HIDE DEF f, n
<1>5. f[0] = e.headerSize + e.tablePosition + n
  BY <1>3, <1>4
<1>6. \A i \in 1..n : f[i] = f[i - 1] + Gain(e, i)
  BY <1>3, <1>4
<1> QED BY <1>5, <1>6 DEF f, n

LEMMA SegmentFacts ==
  ASSUME NEW e, Loadable(e)
  PROVE  /\ Len(e.segments) \in Nat /\ DOMAIN e.segments = 1..Len(e.segments)
         /\ e.headerSize \in Nat /\ e.tablePosition \in Nat
         /\ \A i \in 1..Len(e.segments) :
                /\ e.segments[i].offset \in Nat /\ e.segments[i].fileSize \in Nat
                /\ e.segments[i].vaddr \in Nat /\ e.segments[i].memSize \in Nat
                /\ Gain(e, i) \in Nat
<1>1. /\ Len(e.segments) \in Nat /\ DOMAIN e.segments = 1..Len(e.segments)
      /\ e.headerSize \in Nat /\ e.tablePosition \in Nat
      /\ \A i \in 1..Len(e.segments) :
            e.segments[i] \in [type : STRING, offset : Nat, fileSize : Nat, vaddr : Nat, memSize : Nat]
  <2> DEFINE S == [type : STRING, offset : Nat, fileSize : Nat, vaddr : Nat, memSize : Nat]
  <2>1. e.segments \in Seq(S) /\ e.headerSize \in Nat /\ e.tablePosition \in Nat
    BY DEF Loadable
  <2> HIDE DEF S
  <2>2. /\ Len(e.segments) \in Nat /\ DOMAIN e.segments = 1..Len(e.segments)
        /\ \A i \in 1..Len(e.segments) : e.segments[i] \in S
    BY <2>1
  <2> QED BY <2>1, <2>2 DEF S
<1> QED BY <1>1 DEF Gain

\* The positions grow.
LEMMA ReachedGrows ==
  ASSUME NEW e, Loadable(e)
  PROVE  LET n == Len(e.segments) IN
         \A i \in 0..n : Reached(e)[i] \in Nat /\ Reached(e)[i] <= Reached(e)[n]
<1> DEFINE n == Len(e.segments)
           f == Reached(e)
           T == {k \in Nat : k <= n => f[k] \in Nat}
           U == {k \in Nat : k <= n => f[n - k] <= f[n]}
<1>1. /\ n \in Nat /\ f[0] \in Nat
      /\ \A i \in 1..n : Gain(e, i) \in Nat
      /\ \A i \in 1..n : f[i] = f[i - 1] + Gain(e, i)
  BY ReachedIs, SegmentFacts
<1> HIDE DEF f, n
<1>2. 0 \in T
  BY <1>1
<1>3. ASSUME NEW k \in Nat, k \in T PROVE k + 1 \in T
  <2> SUFFICES ASSUME k + 1 <= n PROVE f[k + 1] \in Nat
    OBVIOUS
  <2>1. k + 1 \in 1..n /\ (k + 1) - 1 = k /\ f[k] \in Nat
    BY <1>1, <1>3
  <2>2. f[k + 1] = f[(k + 1) - 1] + Gain(e, k + 1)
    BY <1>1, <2>1
  <2> QED BY <1>1, <2>1, <2>2
<1>4. Nat \subseteq T
  <2> HIDE DEF T
  <2> QED BY <1>2, <1>3, Induct
<1>5. \A i \in 0..n : f[i] \in Nat
  BY <1>1, <1>4
<1>6. 0 \in U
  BY <1>1, <1>5
<1>7. ASSUME NEW k \in Nat, k \in U PROVE k + 1 \in U
  <2> SUFFICES ASSUME k + 1 <= n PROVE f[n - (k + 1)] <= f[n]
    OBVIOUS
  <2>1. n - k \in 1..n /\ (n - k) - 1 = n - (k + 1) /\ f[n - k] <= f[n]
    BY <1>1, <1>7
  <2>2. f[n - k] = f[(n - k) - 1] + Gain(e, n - k)
    BY <1>1, <2>1
  <2>3. n - (k + 1) \in 0..n /\ n - k \in 0..n /\ n \in 0..n
    BY <1>1
  <2> QED BY <1>1, <1>5, <2>1, <2>2, <2>3
<1>8. Nat \subseteq U
  <2> HIDE DEF U
  <2> QED BY <1>6, <1>7, Induct
<1>9. \A i \in 0..n : f[i] <= f[n]
  <2> SUFFICES ASSUME NEW i \in 0..n PROVE f[i] <= f[n]
    OBVIOUS
  <2>1. n - i \in Nat /\ n - i <= n /\ n - (n - i) = i
    BY <1>1
  <2>2. n - i \in U
    BY <1>8, <2>1
  <2> QED BY <2>1, <2>2
<1> QED BY <1>5, <1>9 DEF f, n

-----------------------------------------------------------------------------
(* Failed reads.                                                           *)

Unchecked == {"getc", "land"}

\* The sector of the FAT that is cached is the one the driver takes it for.
Holding(cache) == cache.holds = cache.id

\* A read moves the data or is reported.
LEMMA ReadsReport == ASSUME NEW r \in Reads PROVE r.ok <=> r.got
<1>1. PICK e \in 0..retry_count, b \in BOOLEAN : r = disk_readSectors(e, b)
  BY DEF Reads
<1>2. e \in 0..3
  BY DEF retry_count
<1>3. r.got = (e = 0 \/ (b /\ e < 3))
  BY <1>1 DEF disk_readSectors, retry_count
<1>4. r.ok = (~(e > 0 /\ ~b) /\ ~(e >= 3))
  BY <1>1 DEF disk_readSectors, retry_count
<1>5. CASE b = TRUE
  BY <1>2, <1>3, <1>4, <1>5
<1>6. CASE b = FALSE
  BY <1>2, <1>3, <1>4, <1>6
<1> QED BY <1>5, <1>6

\* A failure the search did not notice sends it among clusters without a kernel.
LossInv ==
  /\ FailuresLeadNowhere
  /\ disk \in Disks
  /\ \/ pc = "halt"
     \/ /\ Holding(fatCache)
        /\ \/ lost \subseteq Unchecked
           \/ /\ pc = "search" /\ lost \subseteq Unchecked \cup {"search"}
              /\ \E S \in SUBSET (0..UINT16_MAX) : StaysIn(disk, S) /\ search \in S

LEMMA LossInit == FailuresLeadNowhere /\ ChainInit => LossInv
BY DEF ChainInit, Init, FatInit, LossInv, Holding

LEMMA CacheIsHeld ==
  ASSUME NEW c, NEW r \in Reads, Holding(fatCache)
  PROVE  Holding(CacheAfter(c, r))
BY ReadsReport DEF CacheAfter, Holding

LEMMA CheckedRead ==
  ASSUME NEW r, NEW who, NEW next, To(r, next), lost' = Lost(who, r), lost \subseteq Unchecked
  PROVE  pc' = "halt" \/ lost' \subseteq Unchecked
BY DEF To, Lost

LEMMA GetcLoses ==
  ASSUME NEW f, NEW rFat, NEW r
  PROVE  FAT32_getc(f, rFat, r).lost \subseteq lost \cup {"getc"}
<1> DEFINE next == loadNextCluster(f.sector_handle, f.currentCluster, rFat, r)
<1>1. next.lost \subseteq {"getc"}
  BY DEF loadNextCluster
<1> HIDE DEF next
<1>2. FAT32_getc(f, rFat, r).lost \in {lost, lost \cup next.lost}
  BY DEF FAT32_getc, next
<1> QED BY <1>1, <1>2

LEMMA GetcHolds ==
  ASSUME NEW f, NEW rFat \in Reads, NEW r, Holding(fatCache)
  PROVE  Holding(FAT32_getc(f, rFat, r).cache)
<1>1. FAT32_getc(f, rFat, r).cache \in {fatCache, CacheAfter(f.currentCluster, rFat)}
  BY DEF FAT32_getc
<1> QED BY <1>1, CacheIsHeld

LEMMA SearchAfterFailure ==
  ASSUME NEW c, NEW r, FatReadFails(c, r)
  PROVE  SearchNext(c, r) = ErrorCluster
BY DEF SearchNext, getNextCluster, FAT32_CLUSTER_ERROR, UINT16_MAX, ErrorCluster

\* Where the search goes on when the sector of the FAT was read.
LEMMA SearchFollows ==
  ASSUME NEW c \in Nat, NEW r \in Reads, Holding(fatCache), ~FatReadFails(c, r)
  PROVE  SearchNext(c, r) = NextSearched(disk, c)
<1> DEFINE f == CacheAfter(c, r)
<1>1. FatEntries \in Nat \ {0}
  BY BootFatAssumption
<1>2. f.id = FatSector(c) /\ f.id = f.holds
  BY ReadsReport DEF CacheAfter, FatReadFails, Holding
<1> HIDE DEF f
<1>3. c = FatEntries * FatSector(c) + (c % FatEntries) /\ FatSector(c) \in Int /\ c % FatEntries \in Int
  BY <1>1, DivMod DEF FatSector
<1>4. f.holds * FatEntries + (c % FatEntries) = c
  <2>1. f.holds * FatEntries = FatEntries * FatSector(c)
    BY <1>1, <1>2, <1>3
  <2> QED BY <1>3, <2>1
<1>5. getNextCluster(c, r) = IF FatValue(c) >= LastCluster THEN FAT32_CLUSTER_END ELSE FatValue(c)
  BY <1>4 DEF getNextCluster, f
<1> QED BY <1>5 DEF SearchNext, NextSearched, FatValue

LEMMA NothingFound ==
  ASSUME NEW S, StaysIn(disk, S), search \in S
  PROVE  /\ Matches(search, Name) = {}
         /\ ClusterIsFull(search) => NextSearched(disk, search) \in S
<1>1. Matches(search, Name) = {}
  BY DEF StaysIn, NamesKernel, Matches, Entries
<1>2. ASSUME ClusterIsFull(search) PROVE NextSearched(disk, search) \in S
  <2>1. search \in DOMAIN disk.dirs
    BY <1>2, BootFatAssumption DEF ClusterIsFull, Entries
  <2> QED BY <1>2, <2>1 DEF ClusterIsFull, Entries, StaysIn, GoesOn
<1> QED BY <1>1, <1>2

LEMMA LossStep == LossInv /\ (Step \/ UNCHANGED vars) => LossInv'
<1> SUFFICES ASSUME LossInv, Step \/ UNCHANGED vars PROVE LossInv'
  OBVIOUS
<1>0. CASE UNCHANGED vars
  BY <1>0 DEF vars, fatVars, LossInv
<1> SUFFICES ASSUME disk' = disk, Step
             PROVE  \/ pc' = "halt"
                    \/ /\ Holding(fatCache')
                       /\ \/ lost' \subseteq Unchecked
                          \/ /\ pc' = "search" /\ lost' \subseteq Unchecked \cup {"search"}
                             /\ \E S \in SUBSET (0..UINT16_MAX) : StaysIn(disk, S) /\ search' \in S
  <2>1. Step => disk' = disk
    BY DEF Step, ReadMBR, ReadPartition, FAT12_initialise, FAT32_initialise, ReadFirstFAT,
           OpenKernel, SearchDirectory, LoadFirstCluster, FAT32_read, ValidateHeader,
           SeekHop, SeekLand, Segment, EnterKernel, fatVars
  <2>2. disk' = disk => (LossInv' <=> /\ LossInv!1 /\ LossInv!2
                           /\ \/ pc' = "halt"
                              \/ /\ Holding(fatCache')
                                 /\ \/ lost' \subseteq Unchecked
                                    \/ /\ pc' = "search" /\ lost' \subseteq Unchecked \cup {"search"}
                                       /\ \E S \in SUBSET (0..UINT16_MAX) : StaysIn(disk, S) /\ search' \in S)
    BY DEF LossInv, Holding, StaysIn, NamesKernel, GoesOn, NextSearched, FailuresLeadNowhere, Searched
  <2> QED BY <1>0, <2>1, <2>2 DEF LossInv
<1>1. pc # "halt" /\ pc # "search" => lost \subseteq Unchecked /\ Holding(fatCache)
  BY DEF LossInv
<1>16. pc # "halt" => Holding(fatCache)
  BY DEF LossInv
<1>2. CASE ReadMBR
  BY <1>1, <1>2, CheckedRead DEF ReadMBR
<1>3. CASE ReadPartition
  BY <1>1, <1>3, CheckedRead DEF ReadPartition
<1>4. CASE FAT12_initialise
  BY <1>4 DEF FAT12_initialise
<1>5. CASE FAT32_initialise
  BY <1>1, <1>5, CheckedRead DEF FAT32_initialise
<1>6. CASE ReadFirstFAT
  <2>1. PICK r \in Reads : ReadFirstFAT!(r)
    BY <1>6 DEF ReadFirstFAT
  <2>2. pc' = "halt" \/ (r.ok /\ lost' \subseteq Unchecked)
    BY <1>1, <2>1 DEF To, Lost
  <2>3. r.ok => Holding(fatCache')
    BY <2>1, ReadsReport DEF Holding
  <2> QED BY <2>2, <2>3
<1>7. CASE OpenKernel
  BY <1>1, <1>7 DEF OpenKernel
<1>8. CASE SearchDirectory
  <2>1. PICK r \in Reads, rFat \in Reads : SearchDirectory!(r, rFat)
    BY <1>8 DEF SearchDirectory
  <2>2. pc = "search"
    BY <2>1
  <2>3. CASE \E S \in SUBSET (0..UINT16_MAX) : /\ StaysIn(disk, S) /\ search \in S
                                              /\ lost \subseteq Unchecked \cup {"search"}
    <3>1. PICK S \in SUBSET (0..UINT16_MAX) : /\ StaysIn(disk, S) /\ search \in S
                                              /\ lost \subseteq Unchecked \cup {"search"}
      BY <2>3
    <3>2. Matches(search, Name) = {} /\ (ClusterIsFull(search) => NextSearched(disk, search) \in S)
      BY <3>1, NothingFound
    <3>3. CASE pc' = "halt"
      BY <3>3
    <3>4. CASE /\ ClusterIsFull(search) /\ search' = SearchNext(search, rFat) /\ pc' = pc
               /\ fatCache' = CacheAfter(search, rFat)
               /\ lost' = IF FatReadFails(search, rFat) THEN lost \cup {"search"} ELSE lost
      <4>1. Holding(fatCache')
        BY <2>2, <3>4, <1>16, CacheIsHeld
      <4>2. search' \in S
        <5>1. CASE FatReadFails(search, rFat)
          BY <3>1, <3>4, <5>1, SearchAfterFailure DEF StaysIn
        <5>2. CASE ~FatReadFails(search, rFat)
          <6>1. search \in Nat
            <7>1. 0..UINT16_MAX \subseteq Nat
              OBVIOUS
            <7>2. search \in 0..UINT16_MAX
              BY <3>1, Zenon
            <7> QED BY <7>1, <7>2
          <6>2. Holding(fatCache)
            BY <2>2, <1>16
          <6>3. SearchNext(search, rFat) = NextSearched(disk, search)
            BY <5>2, <6>1, <6>2, SearchFollows
          <6>4. NextSearched(disk, search) \in S
            BY <3>2, <3>4
          <6> QED BY <3>4, <6>3, <6>4
        <5> QED BY <5>1, <5>2
      <4>3. lost' \subseteq Unchecked \cup {"search"}
        BY <3>1, <3>4
      <4> QED BY <2>2, <3>1, <3>4, <4>1, <4>2, <4>3
    <3> QED BY <2>1, <3>2, <3>3, <3>4 DEF FileDirectory
  <2>4. CASE lost \subseteq Unchecked
    <3>1. Holding(fatCache)
      BY <2>2, <1>16
    <3>2. CASE ~r.ok
      BY <2>1, <3>2 DEF FileDirectory
    <3>3. CASE lost' = lost /\ UNCHANGED fatCache
      BY <2>4, <3>1, <3>3
    <3>4. CASE /\ search' = SearchNext(search, rFat)
               /\ fatCache' = CacheAfter(search, rFat)
               /\ lost' = IF FatReadFails(search, rFat) THEN lost \cup {"search"} ELSE lost
               /\ pc' = pc
      <4>0. Holding(fatCache')
        BY <3>1, <3>4, CacheIsHeld
      <4>1. CASE FatReadFails(search, rFat)
        <5>1. PICK S \in SUBSET (Searched(disk) \cap 0..UINT16_MAX) : StaysIn(disk, S)
          BY DEF LossInv, FailuresLeadNowhere
        <5>2. S \in SUBSET (0..UINT16_MAX) /\ search' \in S
          BY <3>4, <4>1, <5>1, SearchAfterFailure DEF StaysIn
        <5>3. lost' \subseteq Unchecked \cup {"search"}
          BY <2>4, <3>4, <4>1
        <5> QED BY <2>2, <3>4, <4>0, <5>1, <5>2, <5>3
      <4>2. CASE ~FatReadFails(search, rFat)
        BY <2>4, <3>4, <4>0, <4>2
      <4> QED BY <4>1, <4>2
    <3> QED BY <2>1, <3>2, <3>3, <3>4
  <2> QED BY <2>2, <2>3, <2>4 DEF LossInv
<1>9. CASE LoadFirstCluster
  BY <1>1, <1>9, CheckedRead DEF LoadFirstCluster
<1>10. CASE FAT32_read
  <2>1. PICK rFat \in Reads, r \in Reads : FAT32_read!(rFat, r)
    BY <1>10 DEF FAT32_read
  <2>2. lost \subseteq Unchecked /\ Holding(fatCache)
    BY <1>1, <2>1
  <2> DEFINE got == FAT32_getc(kernelFile, rFat, r)
  <2>3. got.lost \subseteq lost \cup {"getc"} /\ Holding(got.cache)
    BY <2>2, GetcLoses, GetcHolds
  <2> HIDE DEF got
  <2>4. \/ lost' = lost /\ fatCache' = fatCache
        \/ lost' = got.lost /\ fatCache' = got.cache
    BY <2>1 DEF fatVars, got
  <2> QED BY <2>2, <2>3, <2>4 DEF Unchecked
<1>11. CASE ValidateHeader
  BY <1>1, <1>11 DEF ValidateHeader
<1>12. CASE SeekHop
  <2>1. PICK rFat \in Reads : SeekHop!(rFat)
    BY <1>12 DEF SeekHop
  <2>2. Holding(fatCache')
    BY <1>1, <2>1, CacheIsHeld
  <2>3. lost \subseteq Unchecked
    BY <1>1, <2>1
  <2>4. CASE FatReadFails(seek.cluster, rFat)
    BY <2>1, <2>4 DEF getNextCluster
  <2>5. CASE ~FatReadFails(seek.cluster, rFat)
    BY <2>1, <2>2, <2>3, <2>5
  <2> QED BY <2>4, <2>5
<1>13. CASE SeekLand
  BY <1>1, <1>13 DEF SeekLand, Lost, Unchecked
<1>14. CASE Segment
  BY <1>1, <1>14 DEF Segment
<1>15. CASE EnterKernel
  BY <1>1, <1>15 DEF EnterKernel, fatVars
<1> QED BY <1>2, <1>3, <1>4, <1>5, <1>6, <1>7, <1>8, <1>9, <1>10, <1>11, <1>12, <1>13,
           <1>14, <1>15 DEF Step

\* Failed reads stop the boot, but for the two the driver does not look at
\* (FAT32.c: getc keeps the next cluster in 16 bits, seek ignores its last
\* load).  A read of the FAT that fails in search_directory is not seen as one
\* either: it sends the search to cluster 65534, where it may stay for ever, and
\* keeps the boot from going on because it finds no kernel there, on the volumes
\* of which FailuresLeadNowhere is true.
THEOREM FailuresAreSeen == FailuresLeadNowhere /\ ChainSpec => []FailuresStopTheBoot
<1>1. FailuresLeadNowhere /\ ChainInit => LossInv
  BY LossInit
<1>2. LossInv /\ [ChainNext]_chainVars => LossInv'
  BY LossStep, LoaderOrNothing
<1>3. LossInv => FailuresStopTheBoot
  BY DEF LossInv, FailuresStopTheBoot, Unchecked
<1> QED BY <1>1, <1>2, <1>3, PTL DEF ChainSpec

-----------------------------------------------------------------------------
(* The sectors of the bump allocator (Memory.c).                           *)

\* What initialiseFAT, FAT32_initialise, FAT32_open and loadELF allocate.
Names == {"freeSector", "table", "open_files", "clusters", "freeCluster",
          "path", "kernelMap", "entries"}
Mounted == {"freeSector", "table", "open_files", "clusters", "freeCluster"}

Sectors(first, size) == [first |-> first, size |-> size]

\* Where each of them lies on volume d.
Place(d, n) ==
  LET c == d.sectorsPerCluster IN
  CASE n = "MBR"         -> Sectors(0, 1)
    [] n = "freeSector"  -> Sectors(0, 1)
    [] n = "table"       -> Sectors(1, 1)
    [] n = "open_files"  -> Sectors(2, 2)
    [] n = "clusters"    -> Sectors(4, 16 * c)
    [] n = "freeCluster" -> Sectors(4 + 16 * c, c)
    [] n = "path"        -> Sectors(4 + 17 * c, 1)
    [] n = "kernelMap"   -> Sectors(17 * c - 6, 1)
    [] n = "entries"     -> Sectors(17 * c - 5, TableSectors(d))

Placed(f, d) == \A n \in DOMAIN f : f[n] = Place(d, n)

Opening == {"start", "partition", "FAT12", "bpb", "fat", "open", "search", "load"}

\* The top of the allocator and the sectors in use, at each place of the stage.
Tops ==
  LET c == disk.sectorsPerCluster IN
  /\ pc = "start" => allocated = 0 /\ DOMAIN at = {}
  /\ pc = "partition" => allocated = 1
  /\ pc \in {"FAT12", "bpb"} => allocated = 0 /\ DOMAIN at = {}
  /\ pc = "fat" => allocated = 1 /\ DOMAIN at = {"freeSector"}
  /\ pc = "open" => allocated = 17 * c + 4 /\ DOMAIN at = Mounted
  /\ pc = "search" => allocated = 17 * c + 5 /\ DOMAIN at = Mounted \cup {"path"}
  /\ pc = "load" \/ (pc \in {"read", "validate"} /\ stage = HEADER) =>
         allocated = 17 * c - 6 /\ DOMAIN at = Mounted

\* Everything lies in its place: the MBR before the volume is known to be
\* FAT32, the driver's sectors and the loader's afterwards.
PlaceInv ==
  /\ FewSegments
  /\ disk \in Disks
  /\ openCount \in {0, 1} /\ (pc \in Opening => openCount = 0)
  /\ stage \in Int /\ HEADER <= stage
  /\ pc \in Opening \cup {"validate"} => stage = HEADER
  /\ pc \in {"seek", "segment"} => stage # HEADER
  /\ DOMAIN at = {"MBR"} \/ DOMAIN at \subseteq Names
  /\ "freeCluster" \in DOMAIN at => "clusters" \in DOMAIN at
  /\ Placed(at, disk)
  /\ Tops

LEMMA PlaceInit == FewSegments /\ ChainInit => PlaceInv
BY DEF ChainInit, Init, FatInit, PlaceInv, Placed, Tops, HEADER, Opening

\* The constants of the allocator, computed.
LEMMA Sizes ==
  ASSUME NEW d \in Disks, FewSegments
  PROVE  /\ d.sectorsPerCluster \in 1..4
         /\ TableSectors(d) \in 0..9 - d.sectorsPerCluster
         /\ bytesToSectors(FAT_MAX_OPEN_FILES * FILE_SIZE) = 2
         /\ bytesToSectors(PathBytes) = 1
BY BootFatAssumption
   DEF FewSegments, bytesToSectors, FAT_MAX_OPEN_FILES, FILE_SIZE, SECTOR_SIZE, PathBytes

\* Below 128 sectors alloc returns the top.
LEMMA RegionFits ==
  ASSUME NEW top \in Int, NEW n \in Int, top + n < 128
  PROVE  Region(top, n) = Sectors(top, n)
BY DEF Region, Sectors, SECTOR_SIZE, MEMORY_FAT_SIZE

LEMMA WithPlaced ==
  ASSUME NEW f, NEW d, NEW x, Placed(f, d)
  PROVE  /\ DOMAIN With(f, x, Place(d, x)) = DOMAIN f \cup {x}
         /\ Placed(With(f, x, Place(d, x)), d)
BY DEF With, Placed

\* The places are apart, but for the MBR, which is used alone, and for the
\* buffers of the open files, of which the kernel map takes some.
LEMMA PlacesApart ==
  ASSUME NEW d \in Disks, FewSegments
  PROVE  /\ \A n \in Names \cup {"MBR"} : Place(d, n).first >= 0
         /\ \A m, n \in Names \ {"clusters"} :
                LET x == Place(d, m)
                    y == Place(d, n)
                IN  m = n \/ x.first + x.size <= y.first \/ y.first + y.size <= x.first
<1> DEFINE c == d.sectorsPerCluster
           e == TableSectors(d)
<1>1. c \in 1..4 /\ e \in 0..9 - c
  BY Sizes
<1> HIDE DEF c, e
<1>2. /\ Place(d, "freeSector") = Sectors(0, 1)
      /\ Place(d, "table") = Sectors(1, 1)
      /\ Place(d, "open_files") = Sectors(2, 2)
      /\ Place(d, "clusters") = Sectors(4, 16 * c)
      /\ Place(d, "freeCluster") = Sectors(4 + 16 * c, c)
      /\ Place(d, "path") = Sectors(4 + 17 * c, 1)
      /\ Place(d, "kernelMap") = Sectors(17 * c - 6, 1)
      /\ Place(d, "entries") = Sectors(17 * c - 5, e)
      /\ Place(d, "MBR") = Sectors(0, 1)
  BY DEF Place, c, e
<1>3. \A n \in Names \cup {"MBR"} : Place(d, n).first >= 0
  BY <1>1, <1>2 DEF Names, Sectors
<1>4. ASSUME NEW m \in Names \ {"clusters"}, NEW n \in Names \ {"clusters"}, m # n
      PROVE  \/ Place(d, m).first + Place(d, m).size <= Place(d, n).first
             \/ Place(d, n).first + Place(d, n).size <= Place(d, m).first
  BY <1>1, <1>2, <1>4 DEF Names, Sectors
<1> QED BY <1>3, <1>4

\* So is the buffer of the one file that is open.
LEMMA FirstBufferApart ==
  ASSUME NEW d \in Disks, FewSegments, NEW n \in Names \ {"clusters"}
  PROVE  LET x == Sectors(4, d.sectorsPerCluster)
             y == Place(d, n)
         IN  x.first + x.size <= y.first \/ y.first + y.size <= x.first
<1> DEFINE c == d.sectorsPerCluster
           e == TableSectors(d)
<1>1. c \in 1..4 /\ e \in 0..9 - c
  BY Sizes
<1> HIDE DEF c, e
<1>2. /\ Place(d, "freeSector") = Sectors(0, 1)
      /\ Place(d, "table") = Sectors(1, 1)
      /\ Place(d, "open_files") = Sectors(2, 2)
      /\ Place(d, "freeCluster") = Sectors(4 + 16 * c, c)
      /\ Place(d, "path") = Sectors(4 + 17 * c, 1)
      /\ Place(d, "kernelMap") = Sectors(17 * c - 6, 1)
      /\ Place(d, "entries") = Sectors(17 * c - 5, e)
  BY DEF Place, c, e
<1>3. \/ Sectors(4, c).first + Sectors(4, c).size <= Place(d, n).first
      \/ Place(d, n).first + Place(d, n).size <= Sectors(4, c).first
  BY <1>1, <1>2 DEF Names, Sectors
<1> QED BY <1>3 DEF c

LEMMA PlacedApart == PlaceInv => BuffersApart
<1> SUFFICES ASSUME PlaceInv PROVE BuffersApart
  OBVIOUS
<1> DEFINE c == disk.sectorsPerCluster
           Apart(x, y) == x = y \/ x.first + x.size <= y.first \/ y.first + y.size <= x.first
<1>1. disk \in Disks /\ FewSegments /\ c \in 1..4 /\ openCount \in {0, 1}
  BY Sizes DEF PlaceInv
<1>2. \A n \in DOMAIN at : at[n] = Place(disk, n) /\ n \in Names \cup {"MBR"}
  BY DEF PlaceInv, Placed
<1>3. \A n \in DOMAIN at : at[n].first >= 0
  BY <1>1, <1>2, PlacesApart
<1>4. "freeCluster" \in DOMAIN at =>
          at["freeCluster"].first = at["clusters"].first + FreeHandle * c
  <2> SUFFICES ASSUME "freeCluster" \in DOMAIN at
               PROVE  at["freeCluster"].first = at["clusters"].first + FreeHandle * c
    OBVIOUS
  <2>1. at["freeCluster"] = Place(disk, "freeCluster") /\ at["clusters"] = Place(disk, "clusters")
    BY <1>2 DEF PlaceInv
  <2>2. Place(disk, "freeCluster").first = 4 + 16 * c /\ Place(disk, "clusters").first = 4
    BY DEF Place, Sectors
  <2> QED BY <1>1, <2>1, <2>2 DEF FreeHandle, FAT_MAX_OPEN_FILES
<1>5. \A x, y \in InUse : Apart(x, y)
  <2>1. ASSUME NEW x \in InUse
        PROVE  \/ \E n \in DOMAIN at \ {"clusters"} : x = Place(disk, n)
               \/ "clusters" \in DOMAIN at /\ x = Place(disk, "freeCluster")
               \/ "clusters" \in DOMAIN at /\ x = Sectors(4, c)
    <3>1. CASE x \in {at[n] : n \in DOMAIN at \ {"clusters"}}
      BY <1>2, <3>1
    <3>2. CASE "clusters" \in DOMAIN at /\
               x \in {[first |-> at["clusters"].first + h * c, size |-> c] :
                         h \in {FreeHandle} \cup 0..openCount - 1}
      <4>1. PICK h \in {FreeHandle} \cup 0..openCount - 1 :
                x = Sectors(at["clusters"].first + h * c, c)
        BY <3>2 DEF Sectors
      <4>2. at["clusters"].first = 4 /\ Place(disk, "freeCluster") = Sectors(4 + 16 * c, c)
        BY <1>2, <3>2 DEF Place, Sectors
      <4>3. h = 16 \/ h = 0
        BY <1>1 DEF FreeHandle, FAT_MAX_OPEN_FILES
      <4>4. CASE h = 16
        BY <3>2, <4>1, <4>2, <4>4
      <4>5. CASE h = 0
        <5>1. 4 + 0 * c = 4
          BY <1>1
        <5> QED BY <3>2, <4>1, <4>2, <4>5, <5>1
      <4> QED BY <4>3, <4>4, <4>5
    <3> QED BY <3>1, <3>2 DEF InUse
  <2> HIDE DEF c
  <2>2. CASE DOMAIN at = {"MBR"}
    BY <2>1, <2>2
  <2>3. CASE DOMAIN at \subseteq Names
    <3>1. ASSUME NEW x \in InUse
          PROVE  x = Sectors(4, c) \/ \E n \in Names \ {"clusters"} : x = Place(disk, n)
      BY <2>1, <2>3 DEF Names
    <3>2. \A m, n \in Names \ {"clusters"} : Apart(Place(disk, m), Place(disk, n))
      BY <1>1, PlacesApart
    <3>3. \A n \in Names \ {"clusters"} : Apart(Sectors(4, c), Place(disk, n))
      BY <1>1, FirstBufferApart DEF c
    <3>4. \A n \in Names \ {"clusters"} : Apart(Place(disk, n), Sectors(4, c))
      BY <3>3
    <3> QED BY <3>1, <3>2, <3>3, <3>4
  <2> QED BY <2>2, <2>3 DEF PlaceInv
<1> QED BY <1>3, <1>4, <1>5 DEF BuffersApart

LEMMA PlaceStep == PlaceInv /\ (Step \/ UNCHANGED vars) => PlaceInv'
<1> SUFFICES ASSUME PlaceInv, Step \/ UNCHANGED vars PROVE PlaceInv'
  OBVIOUS
<1>0. CASE UNCHANGED vars
  BY <1>0 DEF vars, fatVars, PlaceInv, Tops
<1>1. SUFFICES ASSUME disk' = disk, Step PROVE PlaceInv'
  <2>1. Step => disk' = disk
    BY DEF Step, ReadMBR, ReadPartition, FAT12_initialise, FAT32_initialise, ReadFirstFAT,
           OpenKernel, SearchDirectory, LoadFirstCluster, FAT32_read, ValidateHeader,
           SeekHop, SeekLand, Segment, EnterKernel, fatVars
  <2> QED BY <1>0, <2>1
<1> DEFINE c == disk.sectorsPerCluster
           e == TableSectors(disk)
           d == disk
<1>2. /\ c \in 1..4 /\ e \in 0..9 - c
      /\ bytesToSectors(FAT_MAX_OPEN_FILES * FILE_SIZE) = 2 /\ bytesToSectors(PathBytes) = 1
  BY Sizes DEF PlaceInv
<1>3. /\ Place(d, "MBR") = Sectors(0, 1)
      /\ Place(d, "freeSector") = Sectors(0, 1)
      /\ Place(d, "table") = Sectors(1, 1)
      /\ Place(d, "open_files") = Sectors(2, 2)
      /\ Place(d, "clusters") = Sectors(4, 16 * c)
      /\ Place(d, "freeCluster") = Sectors(4 + 16 * c, c)
      /\ Place(d, "path") = Sectors(4 + 17 * c, 1)
      /\ Place(d, "kernelMap") = Sectors(17 * c - 6, 1)
      /\ Place(d, "entries") = Sectors(17 * c - 5, e)
  BY DEF Place
<1>4. Placed(at, d)
  BY DEF PlaceInv
<1> HIDE DEF c, e
<1>5. CASE ReadMBR
  <2>1. allocated = 0 /\ DOMAIN at = {} /\ pc = "start"
    BY <1>5 DEF ReadMBR, PlaceInv, Tops
  <2>2. at' = With(at, "MBR", Place(d, "MBR"))
    BY <1>3, <1>5, <2>1, RegionFits DEF ReadMBR
  <2>3. DOMAIN at' = {"MBR"} /\ Placed(at', d)
    BY <1>4, <2>1, <2>2, WithPlaced
  <2>4. pc' \in {"partition", "halt"} /\ allocated' = 1 /\ UNCHANGED <<openCount, stage>>
    BY <1>5, <2>1 DEF ReadMBR, To, elfVars
  <2> QED BY <1>1, <2>1, <2>3, <2>4 DEF PlaceInv, Tops, Opening
<1>6. CASE ReadPartition
  <2>1. pc = "partition" /\ UNCHANGED <<openCount, stage>>
    BY <1>6 DEF ReadPartition, elfVars
  <2>2. \/ pc' \in {"FAT12", "bpb"} /\ allocated' = 0 /\ DOMAIN at' = {} /\ Placed(at', d)
        \/ pc' = "halt" /\ UNCHANGED at
    BY <1>6, <2>1 DEF ReadPartition, To, popAllocMem, Placed, PlaceInv, Tops
  <2> QED BY <1>1, <2>1, <2>2 DEF PlaceInv, Tops, Opening
<1>7. CASE FAT12_initialise
  BY <1>1, <1>7 DEF FAT12_initialise, fatVars, elfVars, PlaceInv, Tops, Opening
<1>8. CASE FAT32_initialise
  <2>1. allocated = 0 /\ DOMAIN at = {} /\ pc = "bpb"
    BY <1>8 DEF FAT32_initialise, PlaceInv, Tops
  <2>2. at' = With(at, "freeSector", Place(d, "freeSector"))
    BY <1>3, <1>8, <2>1, RegionFits DEF FAT32_initialise
  <2>3. DOMAIN at' = {"freeSector"} /\ Placed(at', d)
    BY <1>4, <2>1, <2>2, WithPlaced
  <2>4. pc' \in {"fat", "halt"} /\ allocated' = 1 /\ UNCHANGED <<openCount, stage>>
    BY <1>8, <2>1 DEF FAT32_initialise, To, elfVars
  <2> QED BY <1>1, <2>1, <2>3, <2>4 DEF PlaceInv, Tops, Opening, Names
<1>9. CASE ReadFirstFAT
  <2>1. allocated = 1 /\ DOMAIN at = {"freeSector"} /\ pc = "fat"
    BY <1>9 DEF ReadFirstFAT, PlaceInv, Tops
  <2>2. /\ Region(1, 1) = Place(d, "table")
        /\ Region(2, 2) = Place(d, "open_files")
        /\ Region(4, 16 * c) = Place(d, "clusters")
        /\ Region(4 + 16 * c, c) = Place(d, "freeCluster")
    BY <1>2, <1>3, RegionFits
  <2>3. /\ 1 + 1 = 2 /\ 1 + 1 + 2 = 4 /\ 1 + 1 + 2 + 16 * c = 4 + 16 * c
        /\ 1 + 1 + 2 + 16 * c + c = 17 * c + 4
    BY <1>2
  <2>4. \/ /\ at' = With(With(With(With(at, "table", Place(d, "table")),
                                   "open_files", Place(d, "open_files")),
                              "clusters", Place(d, "clusters")),
                         "freeCluster", Place(d, "freeCluster"))
           /\ allocated' = 17 * c + 4 /\ pc' = "open"
        \/ at' = With(at, "table", Place(d, "table")) /\ pc' = "halt"
    <3> DEFINE names == Region(allocated + 1, bytesToSectors(FAT_MAX_OPEN_FILES * FILE_SIZE))
               bufs == Region(allocated + 1 + names.size,
                              FAT_MAX_OPEN_FILES * disk.sectorsPerCluster)
               free == Region(allocated + 1 + names.size + bufs.size, disk.sectorsPerCluster)
    <3>1. Region(allocated, 1) = Place(d, "table")
      BY <2>1, <2>2
    <3>2. names = Place(d, "open_files") /\ names.size = 2
      BY <1>2, <1>3, <2>1, <2>2, <2>3 DEF Sectors
    <3>3. bufs = Place(d, "clusters") /\ bufs.size = 16 * c
      <4>1. allocated + 1 + names.size = 4 /\ FAT_MAX_OPEN_FILES * disk.sectorsPerCluster = 16 * c
        BY <2>1, <3>2 DEF FAT_MAX_OPEN_FILES, c
      <4> QED BY <1>3, <2>2, <4>1 DEF Sectors
    <3>4. free = Place(d, "freeCluster") /\ free.size = c
      <4>1. allocated + 1 + names.size + bufs.size = 4 + 16 * c
        BY <1>2, <2>1, <3>2, <3>3
      <4> QED BY <1>3, <2>2, <4>1 DEF Sectors, c
    <3>5. allocated + 1 + names.size + bufs.size + free.size = 17 * c + 4
      BY <1>2, <2>1, <3>2, <3>3, <3>4
    <3>6. \/ /\ at' = With(With(With(With(at, "table", Region(allocated, 1)),
                                     "open_files", names), "clusters", bufs),
                           "freeCluster", free)
             /\ allocated' = allocated + 1 + names.size + bufs.size + free.size
             /\ pc' = "open"
          \/ at' = With(at, "table", Region(allocated, 1)) /\ pc' = "halt"
      BY <1>9 DEF ReadFirstFAT, To
    <3> HIDE DEF names, bufs, free
    <3> QED BY <3>1, <3>2, <3>3, <3>4, <3>5, <3>6
  <2>5. UNCHANGED <<openCount, stage>>
    BY <1>9 DEF ReadFirstFAT, elfVars
  <2> DEFINE f1 == With(at, "table", Place(d, "table"))
             f2 == With(f1, "open_files", Place(d, "open_files"))
             f3 == With(f2, "clusters", Place(d, "clusters"))
             f4 == With(f3, "freeCluster", Place(d, "freeCluster"))
  <2>6. \/ at' = f4 /\ allocated' = 17 * c + 4 /\ pc' = "open"
        \/ at' = f1 /\ pc' = "halt"
    BY <2>4
  <2>7. DOMAIN f1 = {"freeSector", "table"} /\ Placed(f1, d)
    BY <1>4, <2>1, WithPlaced
  <2> HIDE DEF f1
  <2>8. DOMAIN f2 = {"freeSector", "table", "open_files"} /\ Placed(f2, d)
    BY <2>7, WithPlaced
  <2> HIDE DEF f2
  <2>9. DOMAIN f3 = {"freeSector", "table", "open_files", "clusters"} /\ Placed(f3, d)
    BY <2>8, WithPlaced
  <2> HIDE DEF f3
  <2>10. DOMAIN f4 = Mounted /\ Placed(f4, d)
    BY <2>9, WithPlaced DEF Mounted
  <2> HIDE DEF f4
  <2>11. CASE at' = f4 /\ allocated' = 17 * c + 4 /\ pc' = "open"
    BY <1>1, <2>1, <2>5, <2>10, <2>11 DEF PlaceInv, Tops, Opening, Names, Mounted, c
  <2>12. CASE at' = f1 /\ pc' = "halt"
    BY <1>1, <2>1, <2>5, <2>7, <2>12 DEF PlaceInv, Tops, Opening, Names
  <2> QED BY <2>6, <2>11, <2>12
<1>10. CASE OpenKernel
  <2>1. pc = "open" /\ allocated = 17 * c + 4 /\ DOMAIN at = Mounted
    BY <1>10 DEF OpenKernel, PlaceInv, Tops, c
  <2>2. Region(17 * c + 4, 1) = Place(d, "path")
    BY <1>2, <1>3, RegionFits
  <2>3. UNCHANGED <<openCount, stage>>
    BY <1>10 DEF OpenKernel, elfVars
  <2>4. CASE pc' = "halt" /\ UNCHANGED at
    BY <1>1, <2>1, <2>3, <2>4 DEF PlaceInv, Tops, Opening
  <2>5. CASE /\ at' = With(at, "path", Region(allocated, 1))
             /\ allocated' = allocated + 1 /\ pc' = "search"
    <3>1. at' = With(at, "path", Place(d, "path")) /\ allocated' = 17 * c + 5
      BY <1>2, <2>1, <2>2, <2>5
    <3>2. DOMAIN at' = Mounted \cup {"path"} /\ Placed(at', d)
      BY <1>4, <2>1, <3>1, WithPlaced
    <3> QED BY <1>1, <2>1, <2>3, <2>5, <3>1, <3>2
            DEF PlaceInv, Tops, Opening, Names, Mounted, c
  <2> QED BY <1>2, <1>10, <2>4, <2>5 DEF OpenKernel
<1>11. CASE SearchDirectory
  <2>1. /\ pc = "search" /\ allocated = 17 * c + 5 /\ DOMAIN at = Mounted \cup {"path"}
        /\ UNCHANGED <<openCount, stage>>
    BY <1>11 DEF SearchDirectory, PlaceInv, Tops, c, elfVars
  <2>2. \/ PathFreed /\ pc' \in {"halt", "load"}
        \/ UNCHANGED <<pc, at, allocated>>
    BY <1>11 DEF SearchDirectory, FileDirectory
  <2>3. CASE PathFreed /\ pc' \in {"halt", "load"}
    <3>1. allocated' = 17 * c - 6
      BY <1>2, <2>1, <2>3 DEF PathFreed, popAllocMem, PathBytes
    <3>2. DOMAIN at' = Mounted /\ Placed(at', d)
      BY <1>4, <2>1, <2>3 DEF PathFreed, Mounted, Placed
    <3> QED BY <1>1, <2>1, <2>3, <3>1, <3>2 DEF PlaceInv, Tops, Opening, Names, Mounted, c
  <2>4. CASE UNCHANGED <<pc, at, allocated>>
    BY <1>1, <2>1, <2>4 DEF PlaceInv, Tops
  <2> QED BY <2>2, <2>3, <2>4
<1>12. CASE LoadFirstCluster
  <2>1. /\ pc = "load" /\ UNCHANGED <<at, allocated, stage>> /\ pc' \in {"read", "halt"}
        /\ openCount' \in {openCount, openCount + 1}
    BY <1>12 DEF LoadFirstCluster, To
  <2> QED BY <1>1, <2>1 DEF PlaceInv, Tops, Opening
<1>13. CASE FAT32_read
  <2>1. pc = "read" /\ UNCHANGED <<at, allocated, openCount>>
    BY <1>13 DEF FAT32_read, fatVars
  <2>2. \/ UNCHANGED <<pc, stage>>
        \/ pc' = "halt" /\ UNCHANGED stage
        \/ stage = HEADER /\ pc' = "validate" /\ UNCHANGED stage
        \/ stage # HEADER /\ pc' = "segment" /\ stage' = stage + 1
    BY <1>13 DEF FAT32_read, ReadReturns
  <2> QED BY <1>1, <2>1, <2>2 DEF PlaceInv, Tops, Opening, HEADER
<1>14. CASE ValidateHeader
  <2>1. /\ pc = "validate" /\ stage = HEADER /\ allocated = 17 * c - 6 /\ DOMAIN at = Mounted
        /\ UNCHANGED openCount
    BY <1>14 DEF ValidateHeader, PlaceInv, Tops, c
  <2>2. /\ Region(17 * c - 6, 1) = Place(d, "kernelMap")
        /\ Region(17 * c - 5, e) = Place(d, "entries")
        /\ 17 * c - 6 + 1 = 17 * c - 5
    BY <1>2, <1>3, RegionFits
  <2>3. CASE pc' = "halt" /\ UNCHANGED <<at, allocated, stage>>
    BY <1>1, <2>1, <2>3 DEF PlaceInv, Tops, Opening
  <2>4. CASE /\ at' = With(With(at, "kernelMap", Region(allocated, 1)), "entries",
                           Region(allocated + 1, e))
             /\ stage' = TABLE /\ pc' \in {"halt", "seek"}
    <3> DEFINE first == With(at, "kernelMap", Place(d, "kernelMap"))
    <3>1. at' = With(first, "entries", Place(d, "entries"))
      BY <2>1, <2>2, <2>4
    <3>2. DOMAIN first = Mounted \cup {"kernelMap"} /\ Placed(first, d)
      BY <1>4, <2>1, WithPlaced
    <3> HIDE DEF first
    <3>3. /\ DOMAIN at' = Mounted \cup {"kernelMap", "entries"}
          /\ Placed(at', d)
      BY <3>1, <3>2, WithPlaced
    <3> QED BY <1>1, <2>1, <2>4, <3>3
            DEF PlaceInv, Tops, Opening, Names, Mounted, HEADER, TABLE
  <2> QED BY <1>14, <2>3, <2>4 DEF ValidateHeader, BeginSeek, TableSectors, e, elf
<1>15. CASE SeekHop
  BY <1>1, <1>15 DEF SeekHop, PlaceInv, Tops, Opening
<1>16. CASE SeekLand
  BY <1>1, <1>16 DEF SeekLand, PlaceInv, Tops, Opening
<1>17. CASE Segment
  <2>1. pc = "segment" /\ UNCHANGED <<at, allocated, openCount>>
    BY <1>17 DEF Segment
  <2>2. \/ pc' \in {"pages", "halt", "seek"} /\ UNCHANGED stage
        \/ pc' = pc /\ stage' = stage + 1
    BY <1>17 DEF Segment, PassOver, BeginSeek
  <2> QED BY <1>1, <2>1, <2>2 DEF PlaceInv, Tops, Opening, HEADER
<1>18. CASE EnterKernel
  BY <1>1, <1>18 DEF EnterKernel, fatVars, PlaceInv, Tops, Opening
<1> QED BY <1>1, <1>5, <1>6, <1>7, <1>8, <1>9, <1>10, <1>11, <1>12, <1>13, <1>14, <1>15,
           <1>16, <1>17, <1>18 DEF Step

\* The sectors that are in use at the same time are apart (Memory.c counts the
\* bytes of a path as sectors when it frees them, so the kernel map is allocated
\* among the buffers of files that are not open): for a kernel whose program
\* headers fit between there and the buffer of the search.
THEOREM BuffersStayApart == FewSegments /\ ChainSpec => []BuffersApart
<1>1. FewSegments /\ ChainInit => PlaceInv
  BY PlaceInit
<1>2. PlaceInv /\ [ChainNext]_chainVars => PlaceInv'
  BY PlaceStep, LoaderOrNothing
<1>3. PlaceInv => BuffersApart
  BY PlacedApart
<1> QED BY <1>1, <1>2, <1>3, PTL DEF ChainSpec

-----------------------------------------------------------------------------
(* The kernel's image.                                                     *)

\* What is fetched at stage j: where to, how much, from where in the file, and
\* the position the file has before.
Fetch(e, j) ==
  IF j = HEADER
  THEN [to |-> <<"header", 0>>, size |-> e.headerSize, offset |-> 0, base |-> 0]
  ELSE IF j = TABLE
  THEN [to |-> <<"table", 0>>, size |-> Len(e.segments), offset |-> e.tablePosition,
        base |-> e.headerSize]
  ELSE [to |-> <<"ram", e.segments[j].vaddr>>, size |-> e.segments[j].fileSize,
        offset |-> e.segments[j].offset, base |-> Reached(e)[j - 1]]

FileFields == {"sector_handle", "currentCluster", "clusterPosition", "position", "directory"}

\* f is the record of the kernel's file, at `position`, and the buffer holds the
\* cluster it is in.
FileAt(d, f, bufs, position) ==
  /\ DOMAIN f = FileFields /\ f.sector_handle = 0
  /\ f.currentCluster = bufs[0] /\ f.position = position
  /\ f.directory.firstCluster = d.kernel /\ f.directory.fileSize = d.fileSize

\* The next unit that f reads is unit k of the file: it lies in the buffer, or
\* comes first in the next cluster.
Before(d, f, bufs, k) ==
  /\ f.clusterPosition \in 0..BytesPerCluster
  /\ \E q \in 0..k : /\ bufs[0] = ClusterOf(d, q)
                     /\ BytesPerCluster * q + f.clusterPosition = k

\* What memory m has at address a.
Has(m, a, unit) == a \in DOMAIN m /\ m[a] = unit

TableHeld(d, m, n) ==
  \A k \in 0..n - 1 : Has(m, <<"table", k>>, UnitOf(d, d.elf.tablePosition + k))

\* The first n units of segment j are in its memory and zeroes after them, and it
\* has its entry in the kernel map.
SegmentHeld(d, m, map, j, n) ==
  LET s == d.elf.segments[j] IN
  s.type = "LOAD" =>
      /\ j \in DOMAIN map /\ map[j] = [begin |-> s.vaddr, size |-> s.memSize]
      /\ \A k \in 0..s.memSize - 1 :
             Has(m, <<"ram", s.vaddr + k>>, IF k < n THEN UnitOf(d, s.offset + k) ELSE ZERO)

\* The table and the segments before j.
Fetched(d, m, map, j) ==
  /\ TableHeld(d, m, Len(d.elf.segments))
  /\ \A i \in 1..j - 1 : SegmentHeld(d, m, map, i, d.elf.segments[i].fileSize)

\* While j is fetched: n units of it, and everything before it.
Held(d, m, map, j, n) ==
  /\ j = TABLE => TableHeld(d, m, n)
  /\ j > TABLE => /\ d.elf.segments[j].type = "LOAD"
                  /\ Fetched(d, m, map, j)
                  /\ SegmentHeld(d, m, map, j, n)

\* The fread under way has read n units.
Fetching(d, n) ==
  LET w == Fetch(d.elf, stage) IN
  /\ stage \in HEADER..Len(d.elf.segments)
  /\ DOMAIN want = {"to", "size", "i"} /\ want.to = w.to /\ want.size = w.size /\ want.i = n
  /\ Held(d, mem, kmap, stage, n)

Reading(d) ==
  LET w == Fetch(d.elf, stage)
      n == want.i
  IN  /\ Fetching(d, n)
      /\ n \in Nat /\ (n = 0 \/ n < w.size)
      /\ FileAt(d, files[0], clusters, w.base + w.offset + n)
      /\ Before(d, files[0], clusters, w.offset + n)

Seeking(d) ==
  LET w == Fetch(d.elf, stage)
      n == w.offset \div BytesPerCluster
  IN  /\ Fetching(d, 0)
      /\ stage # HEADER
      /\ FileAt(d, files[0], clusters, w.base)
      /\ w.offset < d.fileSize
      /\ DOMAIN seek = {"value", "hops", "cluster"}
      /\ seek.value = w.offset /\ seek.hops \in 0..n /\ seek.cluster = ClusterOf(d, n - seek.hops)

\* The pages of a kernel, and the tables that map them onto themselves.
PagesOf(e) == 1 + (CHOOSE m \in {s.vaddr + s.memSize : s \in {e.segments[i] : i \in DOMAIN e.segments}} :
                   \A i \in DOMAIN e.segments : e.segments[i].vaddr + e.segments[i].memSize <= m)
IdentityPages(d) == [t \in 0..PagesOf(d.elf) \div Tables |-> [p \in 0..Tables - 1 |-> t * Tables + p]]

\* What the driver holds while it looks for the kernel.
Searching(d) ==
  /\ pc \in Opening \cup {"validate"} => stage = HEADER
  /\ pc \in Opening => openCount = 0
  /\ pc \in Opening \ {"load"} => files[0] = NoFile
  /\ pc = "load" =>
         LET e == files[0].directory IN
         /\ DOMAIN files[0] = FileFields
         /\ e.firstCluster = d.kernel /\ e.fileSize = d.fileSize

\* What the loader has, as long as no read was lost.
LoadInv(d) ==
  LET n == Len(d.elf.segments) IN
  /\ Holding(fatCache)
  /\ DOMAIN files = 0..FAT_MAX_OPEN_FILES /\ DOMAIN clusters = 0..FAT_MAX_OPEN_FILES
  /\ Searching(d)
  /\ pc = "read" => Reading(d)
  /\ pc = "seek" => Seeking(d)
  /\ pc = "validate" => FileAt(d, files[0], clusters, d.elf.headerSize)
  /\ pc = "segment" => /\ stage \in 1..n + 1
                       /\ Fetched(d, mem, kmap, stage)
                       /\ FileAt(d, files[0], clusters, Reached(d.elf)[stage - 1])
  /\ pc \in {"pages", "kernel"} => Fetched(d, mem, kmap, n + 1)
  /\ pc = "kernel" => paging = IdentityPages(d)

Fits(d) == Reached(d.elf)[Len(d.elf.segments)] <= d.fileSize

ImageInv ==
  /\ FileIsWhole(disk)
  /\ lost = {} /\ Fits(disk) => LoadInv(disk)

\* No cluster of the file is taken for the end of its chain.
LEMMA SmallCluster ==
  ASSUME NEW c, c \in 0..UINT16_MAX
  PROVE  /\ c \in Nat /\ ~(c >= LastCluster)
         /\ c \notin {FAT32_CLUSTER_END, FAT32_CLUSTER_ERROR}
         /\ c % (UINT16_MAX + 1) = c
<1>1. /\ UINT16_MAX \in Nat /\ UINT16_MAX < LastCluster /\ LastCluster \in Nat
      /\ LastCluster < FAT32_CLUSTER_ERROR /\ FAT32_CLUSTER_ERROR < FAT32_CLUSTER_END
      /\ FAT32_CLUSTER_ERROR \in Nat /\ FAT32_CLUSTER_END \in Nat
  BY SMTT(30) DEF UINT16_MAX, LastCluster, FAT32_CLUSTER_END, FAT32_CLUSTER_ERROR
<1>2. c \in Nat /\ c <= UINT16_MAX
  BY <1>1, SMT
<1>3. ~(c >= LastCluster) /\ c # FAT32_CLUSTER_END /\ c # FAT32_CLUSTER_ERROR
  BY <1>1, <1>2, SMT
<1>4. c % (UINT16_MAX + 1) = c
  <2> DEFINE m == UINT16_MAX + 1
  <2>1. m \in Nat \ {0} /\ c \in 0 .. m - 1 /\ m * 0 + c = c
    BY <1>1, <1>2, SMT
  <2> HIDE DEF m
  <2>2. (m * 0 + c) % m = c
    BY <2>1, DivModIs
  <2> QED BY <2>1, <2>2 DEF m
<1> QED BY <1>2, <1>3, <1>4

\* The next cluster of the file, unless the sector of the FAT was not read.
LEMMA NextOfFile ==
  ASSUME NEW d, disk = d, FileIsWhole(d), Holding(fatCache),
         NEW q \in Nat, BytesPerCluster * (q + 1) < d.fileSize,
         NEW r \in Reads, ~FatReadFails(ClusterOf(d, q), r)
  PROVE  /\ getNextCluster(ClusterOf(d, q), r) = ClusterOf(d, q + 1)
         /\ ClusterOf(d, q + 1) \in 0..UINT16_MAX
         /\ Holding(CacheAfter(ClusterOf(d, q), r))
<1> DEFINE b == BytesPerCluster
           c == ClusterOf(d, q)
           f == CacheAfter(c, r)
           v == ClusterOf(d, q + 1)
<1>1. b \in Nat \ {0} /\ d.fileSize \in Nat /\ FatEntries \in Nat \ {0}
  BY BootFatAssumption DEF FileIsWhole
<1>2. b * q < d.fileSize
  <2>1. b * q + b <= b * (q + 1)
    BY <1>1, TimesGrows
  <2>2. b * q \in Nat /\ b * (q + 1) \in Nat
    BY <1>1
  <2> QED BY <1>1, <2>1, <2>2
<1>3. c \in DOMAIN d.fat /\ c \in Nat
  BY <1>2, ClusterInFile, SmallCluster
<1>4. v \in 0..UINT16_MAX /\ v = d.fat[c] /\ ~(v >= LastCluster)
  BY ClusterInFile, NextCluster, SmallCluster
<1>5. ~FatReadFails(c, r)
  OBVIOUS
<1> HIDE DEF c, v
<1>6. f.id = FatSector(c) /\ f.id = f.holds
  BY <1>5, ReadsReport DEF CacheAfter, FatReadFails, Holding
<1> HIDE DEF f
<1>7. c = FatEntries * FatSector(c) + (c % FatEntries) /\ FatSector(c) \in Int /\ c % FatEntries \in Int
  BY <1>1, <1>3, DivMod DEF FatSector
<1>8. f.holds * FatEntries + (c % FatEntries) = c
  <2>1. f.holds * FatEntries = FatEntries * FatSector(c)
    BY <1>1, <1>6, <1>7
  <2> QED BY <1>7, <2>1
<1>9. FatValue(f.holds * FatEntries + (c % FatEntries)) = v
  BY <1>3, <1>4, <1>8 DEF FatValue
<1>10. getNextCluster(c, r) = v
  BY <1>4, <1>5, <1>9 DEF getNextCluster, f
<1> QED BY <1>4, <1>6, <1>7, <1>10 DEF c, f, v, Holding

\* A record of the file that is at `position` and reads unit k next.
Stands(d, f, bufs, k, position) ==
  /\ DOMAIN f = FileFields /\ f.sector_handle = 0
  /\ f.currentCluster = bufs[0] /\ f.position = position
  /\ Before(d, f, bufs, k)

\* FAT32_getc returns the next unit of the file.
LEMMA GetcReads ==
  ASSUME NEW d, disk = d, FileIsWhole(d), Holding(fatCache),
         DOMAIN clusters = 0..FAT_MAX_OPEN_FILES,
         NEW k \in Nat, NEW position \in Nat, k <= position, position + 1 <= d.fileSize,
         NEW f, f.directory.fileSize = d.fileSize, Stands(d, f, clusters, k, position),
         NEW rFat \in Reads, NEW r \in Reads,
         FAT32_getc(f, rFat, r).lost = {}
  PROVE  LET got == FAT32_getc(f, rFat, r) IN
         /\ got.char = UnitOf(d, k)
         /\ Stands(d, got.file, got.clusters, k + 1, position + 1)
         /\ got.file.directory = f.directory
         /\ DOMAIN got.clusters = 0..FAT_MAX_OPEN_FILES
         /\ Holding(got.cache)
<1> DEFINE b == BytesPerCluster
           p == f.clusterPosition
           c == clusters[0]
           g == [f EXCEPT !.position = @ + 1, !.clusterPosition = @ + 1]
           next == loadNextCluster(0, c, rFat, r)
           moved == [g EXCEPT !.clusterPosition = 1,
                              !.currentCluster = next.value % (UINT16_MAX + 1)]
           got == FAT32_getc(f, rFat, r)
<1>1. PICK q \in 0..k : clusters[0] = ClusterOf(d, q) /\ b * q + p = k
  BY DEF Stands, Before
<1>2. b \in Nat \ {0} /\ d.fileSize \in Nat /\ b * q \in Nat /\ p \in 0..b
  BY BootFatAssumption DEF FileIsWhole, Stands, Before
<1>3. /\ DOMAIN g = FileFields /\ g.sector_handle = 0 /\ g.currentCluster = c
      /\ g.position = position + 1 /\ g.clusterPosition = p + 1 /\ g.directory = f.directory
  BY DEF Stands, FileFields
<1>4. /\ DOMAIN moved = FileFields /\ moved.sector_handle = 0
      /\ moved.currentCluster = next.value % (UINT16_MAX + 1)
      /\ moved.position = position + 1 /\ moved.clusterPosition = 1
      /\ moved.directory = f.directory
  BY <1>3 DEF FileFields
<1>5. ~isEOF(g)
  BY <1>2, <1>3 DEF isEOF
<1>6. f.sector_handle = 0 /\ f.currentCluster = c
  BY DEF Stands
<1>7. got = IF g.clusterPosition > b
            THEN [file |-> moved,
                  char |-> <<next.clusters[moved.sector_handle], moved.clusterPosition - 1>>,
                  clusters |-> next.clusters,
                  cache |-> CacheAfter(c, rFat), lost |-> lost \cup next.lost]
            ELSE [file |-> g, char |-> <<clusters[g.sector_handle], g.clusterPosition - 1>>,
                  clusters |-> clusters, cache |-> fatCache, lost |-> lost]
  BY <1>5, <1>6 DEF FAT32_getc
<1> HIDE DEF g, moved, got
<1>8. CASE ~(p + 1 > b)
  <2>1. p \in 0 .. b - 1 /\ (p + 1) - 1 = p
    BY <1>2, <1>8
  <2>2. UnitOf(d, k) = <<c, p>>
    BY <1>1, <2>1, UnitAt
  <2>3. got = [file |-> g, char |-> <<c, p>>, clusters |-> clusters, cache |-> fatCache, lost |-> lost]
    BY <1>3, <1>7, <1>8, <2>1
  <2>4. p + 1 \in 0..b /\ b * q + (p + 1) = k + 1 /\ q \in 0..k + 1
    BY <1>1, <1>2, <2>1, SMTT(30)
  <2>5. Before(d, g, clusters, k + 1)
    BY <1>1, <1>3, <2>4 DEF Before
  <2>6. Stands(d, g, clusters, k + 1, position + 1)
    BY <1>3, <2>5 DEF Stands
  <2> QED BY <1>3, <2>2, <2>3, <2>6 DEF got
<1>9. CASE p + 1 > b
  <2>1. p = b /\ b * (q + 1) = k /\ 1 - 1 = 0
    BY <1>1, <1>2, <1>9
  <2>2. got = [file |-> moved, char |-> <<next.clusters[0], 0>>, clusters |-> next.clusters,
               cache |-> CacheAfter(c, rFat), lost |-> lost \cup next.lost]
    BY <1>3, <1>4, <1>7, <1>9, <2>1
  <2>3. next.lost = {}
    BY <2>2 DEF got
  <2>4. ~FatReadFails(c, rFat)
    BY <2>3 DEF loadNextCluster
  <2>5. b * (q + 1) < d.fileSize
    BY <1>2, <2>1
  <2> DEFINE n == ClusterOf(d, q + 1)
  <2>6. getNextCluster(c, rFat) = n /\ n \in 0..UINT16_MAX /\ Holding(CacheAfter(c, rFat))
    BY <1>1, <2>4, <2>5, NextOfFile
  <2>7. n \notin {FAT32_CLUSTER_END, FAT32_CLUSTER_ERROR} /\ n % (UINT16_MAX + 1) = n
    BY <2>6, SmallCluster
  <2> HIDE DEF n
  <2>8. r.ok
    BY <2>3, <2>4, <2>6, <2>7 DEF loadNextCluster
  <2>9. next.value = n /\ next.clusters = [clusters EXCEPT ![0] = n]
    BY <2>6, <2>7, <2>8, ReadsReport DEF loadNextCluster, loadCluster
  <2> HIDE DEF next
  <2>10. next.clusters[0] = n /\ DOMAIN next.clusters = 0..FAT_MAX_OPEN_FILES
    BY <2>9 DEF FAT_MAX_OPEN_FILES
  <2>11. UnitOf(d, k) = <<n, 0>>
    <3>1. 0 \in 0 .. b - 1 /\ q + 1 \in Nat /\ b * (q + 1) + 0 = k
      BY <1>2, <2>1
    <3> QED BY <3>1, UnitAt DEF n
  <2>12. b * (q + 1) + 1 = k + 1 /\ q + 1 \in 0..k + 1 /\ 1 \in 0..b
    BY <1>2, <2>1
  <2>13. Before(d, moved, next.clusters, k + 1)
    BY <1>4, <2>10, <2>12 DEF Before, n
  <2>14. Stands(d, moved, next.clusters, k + 1, position + 1)
    BY <1>4, <2>7, <2>9, <2>10, <2>13 DEF Stands
  <2> QED BY <1>4, <2>2, <2>6, <2>10, <2>11, <2>14 DEF got
<1> QED BY <1>2, <1>8, <1>9

\* What is fetched at stage j stays within the file, and takes the file to the
\* position the next seek starts from.
LEMMA FetchFacts ==
  ASSUME NEW d, FileIsWhole(d), Fits(d), NEW j \in HEADER..Len(d.elf.segments),
         j > TABLE => d.elf.segments[j].type = "LOAD"
  PROVE  LET w == Fetch(d.elf, j)
             p == w.base + w.offset + w.size
         IN  /\ w.size \in Nat /\ w.offset \in Nat /\ w.base \in Nat
             /\ p <= d.fileSize
             /\ j = HEADER => p = d.elf.headerSize
             /\ j # HEADER => p = Reached(d.elf)[j]
             /\ w.to[2] \in Nat
<1> DEFINE e == d.elf
           n == Len(e.segments)
           f == Reached(e)
           w == Fetch(e, j)
<1>1. Loadable(e) /\ d.fileSize \in Nat
  BY DEF FileIsWhole
<1>2. /\ n \in Nat /\ e.headerSize \in Nat /\ e.tablePosition \in Nat
      /\ \A i \in 1..n : e.segments[i].offset \in Nat /\ e.segments[i].fileSize \in Nat
                         /\ e.segments[i].vaddr \in Nat /\ e.segments[i].memSize \in Nat
  BY <1>1, SegmentFacts
<1>3. f[0] = e.headerSize + e.tablePosition + n /\ \A i \in 1..n : f[i] = f[i - 1] + Gain(e, i)
  BY <1>1, ReachedIs
<1>4. \A i \in 0..n : f[i] \in Nat /\ f[i] <= d.fileSize
  <2>1. f[n] <= d.fileSize /\ n \in 0..n
    BY <1>2 DEF Fits
  <2>2. \A i \in 0..n : f[i] \in Nat /\ f[i] <= f[n]
    BY <1>1, ReachedGrows
  <2> HIDE DEF f, n
  <2> QED BY <1>1, <2>1, <2>2
<1> HIDE DEF f, n
<1>5. CASE j = HEADER
  <2>1. w = [to |-> <<"header", 0>>, size |-> e.headerSize, offset |-> 0, base |-> 0]
    BY <1>5 DEF Fetch
  <2>2. 0 \in 0..n
    BY <1>2
  <2>3. 0 + 0 + e.headerSize = e.headerSize /\ e.headerSize <= f[0]
    BY <1>2, <1>3
  <2>4. e.headerSize <= d.fileSize
    BY <1>1, <1>2, <1>4, <2>2, <2>3
  <2> HIDE DEF w
  <2> QED BY <1>2, <1>5, <2>1, <2>3, <2>4 DEF w
<1>6. CASE j = TABLE
  <2>1. w = [to |-> <<"table", 0>>, size |-> n, offset |-> e.tablePosition, base |-> e.headerSize]
    BY <1>6 DEF Fetch, HEADER, TABLE, n
  <2>2. 0 \in 0..n /\ j = 0 /\ j # HEADER
    BY <1>2, <1>6 DEF TABLE, HEADER
  <2>3. w.base + w.offset + w.size = f[0]
    BY <1>2, <1>3, <2>1
  <2> HIDE DEF w
  <2> QED BY <1>2, <1>4, <2>1, <2>2, <2>3 DEF w, f
<1>7. CASE j # HEADER /\ j # TABLE
  <2>1. j \in 1..n /\ j - 1 \in 0..n /\ j \in 0..n
    BY <1>2, <1>7 DEF HEADER, TABLE, n
  <2>2. w = [to |-> <<"ram", e.segments[j].vaddr>>, size |-> e.segments[j].fileSize,
             offset |-> e.segments[j].offset, base |-> f[j - 1]]
    BY <1>7 DEF Fetch, f
  <2>3. Gain(e, j) = e.segments[j].offset + e.segments[j].fileSize
    BY <2>1 DEF Gain, TABLE
  <2>4. w.base + w.offset + w.size = f[j]
    <3>1. w.base = f[j - 1] /\ w.offset = e.segments[j].offset /\ w.size = e.segments[j].fileSize
      BY <2>2
    <3>2. f[j - 1] \in Nat /\ f[j] = f[j - 1] + (e.segments[j].offset + e.segments[j].fileSize)
      BY <1>3, <1>4, <2>1, <2>3
    <3>3. w.offset \in Nat /\ w.size \in Nat
      BY <1>2, <2>1, <3>1
    <3> HIDE DEF w
    <3> QED BY <3>1, <3>2, <3>3, SMTT(30)
  <2> HIDE DEF w
  <2> QED BY <1>2, <1>4, <1>7, <2>1, <2>2, <2>4 DEF w, f
<1> QED BY <1>5, <1>6, <1>7

LEMMA ImageInit == FileIsWhole(disk) /\ ChainInit => ImageInv
<1> SUFFICES ASSUME FileIsWhole(disk), ChainInit PROVE LoadInv(disk)
  BY DEF ImageInv
<1>1. /\ fatCache = [id |-> 0, holds |-> 0] /\ openCount = 0 /\ stage = HEADER /\ pc = "start"
      /\ DOMAIN files = 0..FAT_MAX_OPEN_FILES /\ DOMAIN clusters = 0..FAT_MAX_OPEN_FILES
      /\ files[0] = NoFile
  BY DEF ChainInit, Init, FatInit, FAT_MAX_OPEN_FILES
<1> QED BY <1>1 DEF LoadInv, Holding, Searching, Opening

\* The rest of the loader's state does not change as the driver is set up.
LEMMA OpeningStep ==
  ASSUME NEW d, LoadInv(d), pc \in Opening \ {"load"},
         UNCHANGED <<files, clusters, openCount, stage>>,
         Holding(fatCache'), pc' \in (Opening \ {"load"}) \cup {"halt"}
  PROVE  LoadInv(d)'
BY DEF LoadInv, Searching, Opening

LEMMA NoReadLost ==
  ASSUME NEW who, NEW r, Lost(who, r) = {}
  PROVE  r.ok
BY DEF Lost

LEMMA ImageOpening ==
  ASSUME NEW d, LoadInv(d), lost' = {},
         ReadMBR \/ ReadPartition \/ FAT12_initialise \/ FAT32_initialise \/ ReadFirstFAT \/ OpenKernel
  PROVE  LoadInv(d)'
<1>1. Holding(fatCache)
  BY DEF LoadInv
<1>2. CASE ReadMBR
  BY <1>1, <1>2, OpeningStep DEF ReadMBR, To, elfVars, Opening
<1>3. CASE ReadPartition
  BY <1>1, <1>3, OpeningStep DEF ReadPartition, To, elfVars, Opening
<1>4. CASE FAT12_initialise
  BY <1>1, <1>4, OpeningStep DEF FAT12_initialise, fatVars, elfVars, Opening
<1>5. CASE FAT32_initialise
  BY <1>1, <1>5, OpeningStep DEF FAT32_initialise, To, elfVars, Opening
<1>6. CASE ReadFirstFAT
  <2>1. PICK r \in Reads : ReadFirstFAT!(r)
    BY <1>6 DEF ReadFirstFAT
  <2>2. fatCache' = [id |-> 0, holds |-> IF r.got THEN 0 ELSE -1] /\ lost' = Lost("fat", r)
    BY <2>1
  <2>3. r.got
    BY <2>2, NoReadLost, ReadsReport
  <2>4. Holding(fatCache')
    BY <2>2, <2>3 DEF Holding
  <2>5. pc = "fat" /\ pc' \in {"open", "halt"} /\ UNCHANGED <<files, clusters, openCount, stage>>
    BY <2>1 DEF To, elfVars
  <2> QED BY <2>4, <2>5, OpeningStep DEF Opening
<1>7. CASE OpenKernel
  BY <1>1, <1>7, OpeningStep DEF OpenKernel, elfVars, Opening
<1> QED BY <1>2, <1>3, <1>4, <1>5, <1>6, <1>7

LEMMA FreeSlotIsFirst == openCount = 0 => FreeSlot = 0
BY DEF FreeSlot, FAT_MAX_OPEN_FILES

\* The entry that is found is the kernel's.
LEMMA FoundIsKernel ==
  ASSUME NEW d, disk = d, FileIsWhole(d), Matches(search, Name) # {}
  PROVE  LET found == Matches(search, Name)
             entry == Entries(search)[CHOOSE i \in found : \A j \in found : i <= j]
         IN  entry.firstCluster = d.kernel /\ entry.fileSize = d.fileSize
<1> DEFINE found == Matches(search, Name)
           dir == d.dirs[search]
<1>1. search \in DOMAIN d.dirs /\ Entries(search) = dir
  BY DEF Matches, Entries
<1>2. /\ dir \in Seq([name : STRING, attributes : STRING, firstCluster : Nat, fileSize : Nat])
      /\ \A i \in DOMAIN dir : dir[i].name = Name =>
             dir[i].firstCluster = d.kernel /\ dir[i].fileSize = d.fileSize
  BY <1>1 DEF FileIsWhole
<1>3. DOMAIN dir \subseteq Nat
  <2> DEFINE S == [name : STRING, attributes : STRING, firstCluster : Nat, fileSize : Nat]
  <2> HIDE DEF S, dir
  <2>1. dir \in Seq(S)
    BY <1>2 DEF S
  <2> QED BY <2>1
<1>4. \A i \in found : i \in DOMAIN dir /\ dir[i].name = Name
  BY <1>1 DEF Matches
<1>5. \E i \in found : \A j \in found : i <= j
  <2>1. found \subseteq Nat
    BY <1>3, <1>4
  <2> HIDE DEF found
  <2> QED BY <2>1, LeastMember DEF found
<1>6. (CHOOSE i \in found : \A j \in found : i <= j) \in found
  BY <1>5
<1> HIDE DEF found
<1> QED BY <1>1, <1>2, <1>4, <1>6 DEF found

LEMMA ImageSearch ==
  ASSUME NEW d, disk = d, FileIsWhole(d), LoadInv(d), lost' = {}, SearchDirectory
  PROVE  LoadInv(d)'
<1>1. PICK r \in Reads, rFat \in Reads : SearchDirectory!(r, rFat)
  BY DEF SearchDirectory
<1> DEFINE found == Matches(search, Name)
           entry == Entries(search)[CHOOSE i \in found : \A j \in found : i <= j]
<1>2. /\ pc = "search" /\ openCount = 0 /\ stage = HEADER /\ files[0] = NoFile
      /\ DOMAIN files = 0..FAT_MAX_OPEN_FILES /\ DOMAIN clusters = 0..FAT_MAX_OPEN_FILES
      /\ Holding(fatCache) /\ FreeSlot = 0
  BY <1>1, FreeSlotIsFirst DEF LoadInv, Searching, Opening
<1>3. UNCHANGED <<openCount, stage>> /\ DOMAIN clusters' = 0..FAT_MAX_OPEN_FILES
  BY <1>1, <1>2 DEF elfVars, loadCluster
<1>4. CASE FileDirectory(InvalidEntry) /\ UNCHANGED fatCache
  <2>1. pc' = "halt" /\ DOMAIN files' = 0..FAT_MAX_OPEN_FILES
    BY <1>2, <1>4 DEF FileDirectory
  <2> QED BY <1>2, <1>3, <1>4, <2>1 DEF LoadInv, Searching, Opening
<1>5. CASE found # {} /\ FileDirectory(entry) /\ UNCHANGED fatCache
  <2>1. entry.firstCluster = d.kernel /\ entry.fileSize = d.fileSize
    BY <1>5, FoundIsKernel
  <2> HIDE DEF entry
  <2>2. files' = [files EXCEPT ![0].directory = entry] /\ pc' \in {"halt", "load"}
    BY <1>2, <1>5 DEF FileDirectory
  <2>3. DOMAIN files'[0] = FileFields /\ files'[0].directory = entry
    <3>1. files'[0] = [files[0] EXCEPT !.directory = entry]
      BY <1>2, <2>2 DEF FAT_MAX_OPEN_FILES
    <3>2. DOMAIN NoFile = FileFields
      BY DEF NoFile, FileFields
    <3> QED BY <1>2, <3>1, <3>2 DEF FileFields
  <2>4. DOMAIN files' = 0..FAT_MAX_OPEN_FILES
    BY <1>2, <2>2
  <2> QED BY <1>2, <1>3, <1>5, <2>1, <2>2, <2>3, <2>4 DEF LoadInv, Searching, Opening
<1>6. CASE /\ fatCache' = CacheAfter(search, rFat)
           /\ lost' = IF FatReadFails(search, rFat) THEN lost \cup {"search"} ELSE lost
           /\ UNCHANGED <<pc, files>>
  <2>1. ~FatReadFails(search, rFat)
    BY <1>6
  <2>2. Holding(fatCache')
    BY <1>2, <1>6, <2>1, ReadsReport DEF CacheAfter, FatReadFails, Holding
  <2> QED BY <1>2, <1>3, <1>6, <2>2 DEF LoadInv, Searching, Opening
<1>7. lost # {} => FALSE
  <2>1. lost' = Lost("search", r) \/ lost' = lost \/ lost' = lost \cup {"search"}
    BY <1>1
  <2> QED BY <2>1 DEF Lost
<1> QED BY <1>1, <1>4, <1>5, <1>6

\* The file is opened at its beginning, and its header is read next.
LEMMA ImageOpen ==
  ASSUME NEW d, disk = d, FileIsWhole(d), LoadInv(d), lost' = {}, LoadFirstCluster
  PROVE  LoadInv(d)'
<1>1. PICK r \in Reads : LoadFirstCluster!(r)
  BY DEF LoadFirstCluster
<1> DEFINE e == files[0].directory
           c == e.firstCluster
<1>2. /\ pc = "load" /\ openCount = 0 /\ stage = HEADER
      /\ DOMAIN files = 0..FAT_MAX_OPEN_FILES /\ DOMAIN clusters = 0..FAT_MAX_OPEN_FILES
      /\ DOMAIN files[0] = FileFields /\ c = d.kernel /\ e.fileSize = d.fileSize
      /\ Holding(fatCache) /\ FreeSlot = 0
  BY <1>1, FreeSlotIsFirst DEF LoadInv, Searching, Opening
<1>3. r.ok /\ r.got
  BY <1>1, NoReadLost, ReadsReport
<1>4. pc' = "read" /\ UNCHANGED <<fatCache, stage, mem, kmap>>
  BY <1>1, <1>3 DEF To
<1>5. clusters' = [clusters EXCEPT ![0] = c]
  BY <1>1, <1>2, <1>3 DEF loadCluster
<1>6. DOMAIN clusters' = 0..FAT_MAX_OPEN_FILES /\ clusters'[0] = d.kernel
  BY <1>2, <1>5 DEF FAT_MAX_OPEN_FILES
<1>7. files' = [files EXCEPT ![0] = [@ EXCEPT !.sector_handle = 0, !.position = 0,
                                              !.currentCluster = c, !.clusterPosition = 0]]
  BY <1>1, <1>2
<1> DEFINE f == files'[0]
<1>8. /\ DOMAIN files' = 0..FAT_MAX_OPEN_FILES
      /\ f = [files[0] EXCEPT !.sector_handle = 0, !.position = 0,
                              !.currentCluster = c, !.clusterPosition = 0]
  BY <1>2, <1>7 DEF FAT_MAX_OPEN_FILES
<1>9. /\ DOMAIN f = FileFields /\ f.sector_handle = 0 /\ f.position = 0 /\ f.directory = e
      /\ f.currentCluster = d.kernel /\ f.clusterPosition = 0
  BY <1>2, <1>8 DEF FileFields
<1> DEFINE w == Fetch(d.elf, HEADER)
<1>10. w.to = <<"header", 0>> /\ w.size = d.elf.headerSize /\ w.offset = 0 /\ w.base = 0
  BY DEF Fetch
<1>11. /\ DOMAIN want' = {"to", "size", "i"} /\ want'.to = w.to /\ want'.size = w.size
       /\ want'.i = 0
  BY <1>1, <1>10 DEF elf
<1>12. FileAt(d, f, clusters', 0)
  BY <1>2, <1>6, <1>9 DEF FileAt
<1>13. Before(d, f, clusters', 0)
  <2>1. BytesPerCluster * 0 + 0 = 0 /\ 0 \in 0..BytesPerCluster /\ 0 \in 0..0
    BY BootFatAssumption
  <2> QED BY <1>6, <1>9, <2>1, NextCluster DEF Before
<1> HIDE DEF w, f
<1>14. Fetching(d, 0)'
  <2>1. Held(d, mem, kmap, HEADER, 0)
    BY DEF Held, HEADER, TABLE
  <2>2. HEADER \in HEADER..Len(d.elf.segments)
    <3>1. Len(d.elf.segments) \in Nat
      BY SegmentFacts DEF FileIsWhole
    <3> QED BY <3>1 DEF HEADER
  <2> QED BY <1>2, <1>4, <1>11, <2>1, <2>2 DEF Fetching, w
<1>15. Reading(d)'
  <2>1. 0 + 0 + 0 = 0 /\ 0 + 0 = 0 /\ 0 \in Nat
    OBVIOUS
  <2> QED BY <1>2, <1>4, <1>10, <1>11, <1>12, <1>13, <1>14, <2>1 DEF Reading, w, f
<1> QED BY <1>2, <1>4, <1>6, <1>8, <1>15 DEF LoadInv, Searching, Opening

\* What a unit that is written does to memory.
LEMMA WithHas ==
  ASSUME NEW m, NEW a, NEW u
  PROVE  /\ Has(With(m, a, u), a, u)
         /\ \A b, v : b # a /\ Has(m, b, v) => Has(With(m, a, u), b, v)
BY DEF With, Has

\* What lies in a range, counted from its beginning.
LEMMA InRange ==
  ASSUME NEW a \in Nat, NEW n \in Nat, NEW v \in Nat, a <= v, v <= a + n - 1
  PROVE  v - a \in 0..n - 1 /\ a + (v - a) = v
OBVIOUS

\* The memory of two segments is apart.
LEMMA SegmentsApart ==
  ASSUME NEW e, Loadable(e), NEW i \in 1..Len(e.segments), NEW j \in 1..Len(e.segments), i # j,
         e.segments[i].type = "LOAD", e.segments[j].type = "LOAD",
         NEW k \in 0..e.segments[i].memSize - 1, NEW n \in 0..e.segments[j].memSize - 1
  PROVE  e.segments[i].vaddr + k # e.segments[j].vaddr + n
<1> DEFINE s == e.segments[i]
           t == e.segments[j]
<1>1. s.vaddr + s.memSize <= t.vaddr \/ t.vaddr + t.memSize <= s.vaddr
  BY SegmentFacts DEF Loadable
<1>2. s.vaddr \in Nat /\ s.memSize \in Nat /\ t.vaddr \in Nat /\ t.memSize \in Nat
  BY SegmentFacts
<1> HIDE DEF s, t
<1>3. k \in 0 .. s.memSize - 1 /\ n \in 0 .. t.memSize - 1
  BY DEF s, t
<1>4. s.vaddr + k # t.vaddr + n
  BY <1>1, <1>2, <1>3, SMTT(30)
<1> QED BY <1>4 DEF s, t

\* One more unit of what is fetched.
LEMMA HeldOn ==
  ASSUME NEW d, FileIsWhole(d), Fits(d), NEW j \in HEADER..Len(d.elf.segments),
         NEW m, NEW map, NEW n \in Nat, Held(d, m, map, j, n), n < Fetch(d.elf, j).size
  PROVE  LET w == Fetch(d.elf, j)
             new == With(m, <<w.to[1], w.to[2] + n>>, UnitOf(d, w.offset + n))
         IN  Held(d, new, map, j, n + 1)
<1> DEFINE e == d.elf
           w == Fetch(e, j)
           a == <<w.to[1], w.to[2] + n>>
           u == UnitOf(d, w.offset + n)
           new == With(m, a, u)
<1>0. Loadable(e)
  BY DEF FileIsWhole
<1>1. Has(new, a, u) /\ \A b, v : b # a /\ Has(m, b, v) => Has(new, b, v)
  BY WithHas
<1> HIDE DEF new
<1>2. CASE j = TABLE
  <2>1. w.to = <<"table", 0>> /\ w.offset = e.tablePosition
    BY <1>2 DEF Fetch, TABLE, HEADER
  <2> HIDE DEF w
  <2>2. a = <<"table", n>> /\ u = UnitOf(d, e.tablePosition + n)
    BY <2>1
  <2> HIDE DEF a, u
  <2>3. ASSUME NEW k \in 0..(n + 1) - 1
        PROVE  Has(new, <<"table", k>>, UnitOf(d, e.tablePosition + k))
    <3>1. CASE k = n
      BY <1>1, <2>2, <3>1
    <3>2. CASE k # n
      <4>1. k \in 0..n - 1 /\ <<"table", k>> # a
        BY <2>2, <3>2
      <4>2. Has(m, <<"table", k>>, UnitOf(d, e.tablePosition + k))
        BY <1>2, <4>1 DEF Held, TableHeld
      <4> QED BY <1>1, <4>1, <4>2
    <3> QED BY <3>1, <3>2
  <2>4. TableHeld(d, new, n + 1)
    BY <2>3 DEF TableHeld
  <2> QED BY <1>2, <2>4 DEF Held, TABLE, new, a, u, w
<1>3. CASE j > TABLE
  <2> DEFINE s == e.segments[j]
             l == Len(e.segments)
  <2>1. j \in 1..l /\ j # HEADER /\ j # TABLE
    BY <1>3 DEF TABLE, HEADER
  <2>2. w.to = <<"ram", s.vaddr>> /\ w.offset = s.offset /\ w.size = s.fileSize
    BY <2>1 DEF Fetch
  <2>3. s.vaddr \in Nat /\ s.memSize \in Nat /\ s.fileSize \in Nat
    BY <1>0, <2>1, SegmentFacts
  <2>4. s.type = "LOAD" /\ s.fileSize <= s.memSize
    BY <1>0, <1>3, <2>1, SegmentFacts DEF Held, Loadable
  <2>5. n \in 0..s.memSize - 1
    <3>1. n < s.fileSize
      BY <2>2
    <3> HIDE DEF s
    <3> QED BY <2>3, <2>4, <3>1
  <2> HIDE DEF w
  <2>6. a = <<"ram", s.vaddr + n>> /\ u = UnitOf(d, s.offset + n)
    BY <2>2
  <2> HIDE DEF a, u
  <2>7. TableHeld(d, m, l) /\ \A i \in 1..j - 1 : SegmentHeld(d, m, map, i, e.segments[i].fileSize)
    BY <1>3 DEF Held, Fetched
  <2>8. TableHeld(d, new, l)
    BY <1>1, <2>6, <2>7 DEF TableHeld
  <2>9. ASSUME NEW i \in 1..j - 1 PROVE SegmentHeld(d, new, map, i, e.segments[i].fileSize)
    <3> DEFINE t == e.segments[i]
    <3>1. i \in 1..l /\ i # j
      BY <2>1
    <3>2. SUFFICES ASSUME t.type = "LOAD"
                   PROVE  /\ i \in DOMAIN map /\ map[i] = [begin |-> t.vaddr, size |-> t.memSize]
                          /\ \A k \in 0..t.memSize - 1 :
                                Has(new, <<"ram", t.vaddr + k>>,
                                    IF k < t.fileSize THEN UnitOf(d, t.offset + k) ELSE ZERO)
      BY DEF SegmentHeld
    <3>3. /\ i \in DOMAIN map /\ map[i] = [begin |-> t.vaddr, size |-> t.memSize]
          /\ \A k \in 0..t.memSize - 1 :
                Has(m, <<"ram", t.vaddr + k>>,
                    IF k < t.fileSize THEN UnitOf(d, t.offset + k) ELSE ZERO)
      BY <2>7, <3>2 DEF SegmentHeld
    <3>4. \A k \in 0..t.memSize - 1 : <<"ram", t.vaddr + k>> # a
      <4> SUFFICES ASSUME NEW k \in 0..t.memSize - 1 PROVE t.vaddr + k # s.vaddr + n
        BY <2>6
      <4> QED BY <1>0, <2>1, <2>4, <2>5, <3>1, <3>2, SegmentsApart
    <3> QED BY <1>1, <3>3, <3>4
  <2>10. SegmentHeld(d, new, map, j, n + 1)
    <3>1. SegmentHeld(d, m, map, j, n)
      BY <1>3 DEF Held
    <3>2. ASSUME NEW k \in 0..s.memSize - 1
          PROVE  Has(new, <<"ram", s.vaddr + k>>,
                     IF k < n + 1 THEN UnitOf(d, s.offset + k) ELSE ZERO)
      <4>1. CASE k = n
        <5>1. k < n + 1
          BY <4>1
        <5> QED BY <1>1, <2>6, <4>1, <5>1
      <4>2. CASE k # n
        <5>1. (k < n <=> k < n + 1) /\ s.vaddr + k # s.vaddr + n
          BY <2>3, <4>2, SMTT(30)
        <5>2. <<"ram", s.vaddr + k>> # a
          BY <2>6, <5>1
        <5>3. Has(m, <<"ram", s.vaddr + k>>,
                  IF k < n THEN UnitOf(d, s.offset + k) ELSE ZERO)
          BY <2>4, <3>1 DEF SegmentHeld
        <5> QED BY <1>1, <5>1, <5>2, <5>3
      <4> QED BY <4>1, <4>2
    <3> QED BY <2>4, <3>1, <3>2 DEF SegmentHeld
  <2>11. Fetched(d, new, map, j)
    BY <2>8, <2>9 DEF Fetched
  <2> QED BY <2>1, <2>4, <2>10, <2>11 DEF Held, new, a, u, w
<1>4. CASE j # TABLE /\ ~(j > TABLE)
  BY <1>4 DEF Held
<1> QED BY <1>2, <1>3, <1>4

\* All of what is fetched.
LEMMA HeldAll ==
  ASSUME NEW d, FileIsWhole(d), NEW j \in TABLE..Len(d.elf.segments), NEW m, NEW map,
         Held(d, m, map, j, Fetch(d.elf, j).size)
  PROVE  Fetched(d, m, map, j + 1)
<1> DEFINE e == d.elf
           l == Len(e.segments)
<1>1. l \in Nat
  BY SegmentFacts DEF FileIsWhole
<1>2. CASE j = TABLE
  <2>1. Fetch(e, j).size = l
    BY <1>2 DEF Fetch, TABLE, HEADER
  <2>2. (1..(j + 1) - 1) = {}
    BY <1>2 DEF TABLE
  <2> QED BY <1>2, <2>1, <2>2 DEF Held, Fetched
<1>3. CASE j # TABLE
  <2>1. j \in 1..l /\ j > TABLE /\ j # HEADER
    BY <1>1, <1>3 DEF TABLE, HEADER
  <2>2. Fetch(e, j).size = e.segments[j].fileSize
    BY <1>3, <2>1 DEF Fetch
  <2>3. \A i \in 1..(j + 1) - 1 : i = j \/ i \in 1..j - 1
    BY <2>1
  <2> QED BY <2>1, <2>2, <2>3 DEF Held, Fetched
<1> QED BY <1>2, <1>3

\* The end of a fread.
LEMMA ReadEnds ==
  ASSUME NEW d, FileIsWhole(d), Fits(d), Fetching(d, want.i),
         Held(d, mem', kmap', stage, want.size),
         FileAt(d, files'[0], clusters', Fetch(d.elf, stage).base + Fetch(d.elf, stage).offset + want.size),
         Holding(fatCache'), DOMAIN files' = 0..FAT_MAX_OPEN_FILES,
         DOMAIN clusters' = 0..FAT_MAX_OPEN_FILES, ReadReturns
  PROVE  LoadInv(d)'
<1> DEFINE w == Fetch(d.elf, stage)
           l == Len(d.elf.segments)
<1>1. stage \in HEADER..l /\ want.size = w.size /\ l \in Nat
  BY SegmentFacts DEF Fetching, FileIsWhole
<1>2. stage > TABLE => d.elf.segments[stage].type = "LOAD"
  BY DEF Held
<1>3. /\ stage = HEADER => w.base + w.offset + w.size = d.elf.headerSize
      /\ stage # HEADER => w.base + w.offset + w.size = Reached(d.elf)[stage]
  BY <1>1, <1>2, FetchFacts
<1>4. CASE stage = HEADER
  <2>1. pc' = "validate" /\ stage' = HEADER
    BY <1>4 DEF ReadReturns
  <2>2. FileAt(d, files'[0], clusters', d.elf.headerSize)
    BY <1>1, <1>3, <1>4
  <2> QED BY <2>1, <2>2 DEF LoadInv, Searching, Opening
<1>5. CASE stage # HEADER
  <2>1. pc' = "segment" /\ stage' = stage + 1
    BY <1>5 DEF ReadReturns
  <2>2. stage \in TABLE..l /\ stage + 1 \in 1..l + 1 /\ (stage + 1) - 1 = stage
    BY <1>1, <1>5 DEF HEADER, TABLE
  <2>3. Fetched(d, mem', kmap', stage + 1)
    BY <1>1, <2>2, HeldAll
  <2>4. FileAt(d, files'[0], clusters', Reached(d.elf)[stage])
    BY <1>1, <1>3, <1>5
  <2> QED BY <2>1, <2>2, <2>3, <2>4 DEF LoadInv, Searching, Opening
<1> QED BY <1>4, <1>5

LEMMA OpenIsNotClosed ==
  ASSUME NEW f, f.sector_handle = 0
  PROVE  ~isFileClosed(f)
<1>1. UINT16_MAX # 0
  BY SMT DEF UINT16_MAX
<1> QED BY <1>1 DEF isFileClosed

LEMMA ImageRead ==
  ASSUME NEW d, disk = d, FileIsWhole(d), Fits(d), LoadInv(d), lost = {}, lost' = {}, FAT32_read
  PROVE  LoadInv(d)'
<1>1. PICK rFat \in Reads, r \in Reads : FAT32_read!(rFat, r)
  BY DEF FAT32_read
<1> DEFINE f == files[0]
           got == FAT32_getc(f, rFat, r)
           w == Fetch(d.elf, stage)
           cell == <<want.to[1], want.to[2] + want.i>>
<1>0. PICK n : n = want.i
  OBVIOUS
<1>2. pc = "read" /\ Reading(d)
  BY <1>1 DEF LoadInv
<1>3. /\ Fetching(d, n) /\ n \in Nat /\ (n = 0 \/ n < w.size)
      /\ FileAt(d, f, clusters, w.base + w.offset + n)
      /\ Before(d, f, clusters, w.offset + n)
  BY <1>0, <1>2 DEF Reading
<1>4. /\ stage \in HEADER..Len(d.elf.segments) /\ Held(d, mem, kmap, stage, n)
      /\ DOMAIN want = {"to", "size", "i"} /\ want.to = w.to /\ want.size = w.size
  BY <1>0, <1>3 DEF Fetching
<1>5. /\ Holding(fatCache) /\ DOMAIN files = 0..FAT_MAX_OPEN_FILES
      /\ DOMAIN clusters = 0..FAT_MAX_OPEN_FILES
  BY DEF LoadInv
<1>6. w.size \in Nat /\ w.offset \in Nat /\ w.base \in Nat /\ w.base + w.offset + w.size <= d.fileSize
  <2>1. stage > TABLE => d.elf.segments[stage].type = "LOAD"
    BY <1>4 DEF Held
  <2> QED BY <1>4, <2>1, FetchFacts
<1> HIDE DEF w
<1>7. ~isFileClosed(f) /\ f.sector_handle = 0
  BY <1>3, OpenIsNotClosed DEF FileAt
<1>8. kernelFile = f /\ handle = 0
  BY DEF kernelFile, handle
<1>9. kmap' = kmap
  BY <1>1
<1>10. CASE want.size = 0
  <2>1. ReadReturns /\ UNCHANGED <<fatVars, mem, want>>
    BY <1>1, <1>7, <1>8, <1>10
  <2>2. n = 0 /\ w.size = 0 /\ n = want.size
    BY <1>3, <1>4, <1>6, <1>10
  <2>3. w.base + w.offset + n = w.base + w.offset + want.size
    BY <2>2
  <2>4. FileAt(d, files'[0], clusters', w.base + w.offset + want.size)
    BY <1>3, <2>1, <2>3 DEF fatVars
  <2> QED BY <1>0, <1>3, <1>4, <1>5, <1>9, <2>1, <2>2, <2>4, ReadEnds DEF fatVars, w
<1>11. CASE want.size # 0
  <2>1. /\ mem' = With(mem, cell, got.char)
        /\ files' = [files EXCEPT ![0] = got.file]
        /\ clusters' = got.clusters
        /\ fatCache' = got.cache
        /\ lost' = got.lost
        /\ want' = [want EXCEPT !.i = @ + 1]
        /\ IF isEOF(got.file) \/ n + 1 = want.size THEN ReadReturns ELSE UNCHANGED <<pc, stage>>
        /\ UNCHANGED openCount
    BY <1>0, <1>1, <1>7, <1>8, <1>11
  <2>2. n < w.size /\ n + 1 <= w.size
    BY <1>3, <1>4, <1>6, <1>11
  <2> DEFINE k == w.offset + n
             pos == w.base + w.offset + n
  <2>3. k \in Nat /\ pos \in Nat /\ k <= pos /\ pos + 1 <= d.fileSize
    <3>1. d.fileSize \in Nat
      BY DEF FileIsWhole
    <3> QED BY <1>3, <1>6, <2>2, <3>1
  <2>4. /\ k + 1 = w.offset + (n + 1) /\ pos + 1 = w.base + w.offset + (n + 1)
        /\ n + 1 \in Nat
    BY <1>3, <1>6
  <2>5. Stands(d, f, clusters, k, pos) /\ f.directory.fileSize = d.fileSize
        /\ f.directory.firstCluster = d.kernel
    BY <1>3 DEF FileAt, Stands
  <2> HIDE DEF k, pos
  <2>6. /\ got.char = UnitOf(d, k)
        /\ Stands(d, got.file, got.clusters, k + 1, pos + 1)
        /\ got.file.directory = f.directory
        /\ DOMAIN got.clusters = 0..FAT_MAX_OPEN_FILES
        /\ Holding(got.cache)
    <3>1. got.lost = {}
      BY <2>1
    <3> HIDE DEF f
    <3> QED BY <1>5, <2>3, <2>5, <3>1, GetcReads
  <2> HIDE DEF got
  <2>7. /\ files'[0] = got.file /\ DOMAIN files' = 0..FAT_MAX_OPEN_FILES
        /\ DOMAIN clusters' = 0..FAT_MAX_OPEN_FILES /\ Holding(fatCache')
    BY <1>5, <2>1, <2>6 DEF FAT_MAX_OPEN_FILES
  <2>8. FileAt(d, files'[0], clusters', pos + 1) /\ Before(d, files'[0], clusters', k + 1)
    BY <2>1, <2>5, <2>6, <2>7 DEF Stands, FileAt
  <2>9. Held(d, mem', kmap', stage, n + 1)
    <3>1. mem' = With(mem, <<w.to[1], w.to[2] + n>>, UnitOf(d, w.offset + n))
      BY <1>0, <1>4, <2>1, <2>6 DEF k
    <3> QED BY <1>3, <1>4, <1>9, <2>2, <3>1, HeldOn DEF w
  <2>10. DOMAIN want' = {"to", "size", "i"} /\ want'.to = w.to /\ want'.size = w.size /\ want'.i = n + 1
    BY <1>0, <1>4, <2>1
  <2>11. ~isEOF(got.file)
    <3>1. got.file.position = pos + 1 /\ got.file.directory.fileSize = d.fileSize
      BY <2>5, <2>6 DEF Stands
    <3>2. d.fileSize \in Nat
      BY DEF FileIsWhole
    <3> QED BY <2>3, <3>1, <3>2 DEF isEOF
  <2>12. CASE n + 1 = want.size
    <3>1. ReadReturns
      BY <2>1, <2>12
    <3>2. FileAt(d, files'[0], clusters', w.base + w.offset + want.size)
      BY <2>4, <2>8, <2>12
    <3>3. Held(d, mem', kmap', stage, want.size)
      BY <2>9, <2>12
    <3> QED BY <1>0, <1>3, <2>7, <3>1, <3>2, <3>3, ReadEnds DEF w
  <2>13. CASE n + 1 # want.size
    <3>1. UNCHANGED <<pc, stage>>
      BY <2>1, <2>11, <2>13
    <3>2. n + 1 < w.size
      BY <1>3, <1>4, <1>6, <2>2, <2>13
    <3>3. Fetching(d, n + 1)'
      BY <1>4, <1>9, <2>9, <2>10, <3>1 DEF Fetching, w
    <3>4. Reading(d)'
      BY <2>4, <2>8, <2>10, <3>1, <3>2, <3>3 DEF Reading, w, k, pos
    <3> QED BY <1>2, <2>7, <3>1, <3>4 DEF LoadInv, Searching, Opening
  <2> QED BY <2>12, <2>13
<1> QED BY <1>10, <1>11

\* A seek that is not refused.
LEMMA SeekBegins ==
  ASSUME NEW d, FileIsWhole(d), Fits(d), LoadInv(d),
         NEW j \in TABLE..Len(d.elf.segments), stage' = j,
         DOMAIN want' = {"to", "size", "i"}, want'.to = Fetch(d.elf, j).to,
         want'.size = Fetch(d.elf, j).size, want'.i = 0,
         FileAt(d, files[0], clusters, Fetch(d.elf, j).base),
         Held(d, mem', kmap', j, 0),
         UNCHANGED <<fatCache, clusters, openCount>>,
         BeginSeek(Fetch(d.elf, j).offset, "read")
  PROVE  LoadInv(d)'
<1> DEFINE w == Fetch(d.elf, j)
           f == files[0]
<1>1. /\ Holding(fatCache') /\ DOMAIN files = 0..FAT_MAX_OPEN_FILES
      /\ DOMAIN clusters' = 0..FAT_MAX_OPEN_FILES
  BY DEF LoadInv
<1>2. w.offset \in Nat
  <2>1. j \in HEADER..Len(d.elf.segments)
    BY DEF TABLE, HEADER
  <2>2. j > TABLE => d.elf.segments[j].type = "LOAD"
    BY DEF Held
  <2> QED BY <2>1, <2>2, FetchFacts
<1>3. f.directory.fileSize = d.fileSize /\ f.directory.firstCluster = d.kernel /\ kernelFile = f
  BY DEF FileAt, kernelFile, handle
<1>4. CASE SeekRefused(kernelFile, w.offset)
  <2>1. pc' = "halt" /\ DOMAIN files' = 0..FAT_MAX_OPEN_FILES
    BY <1>1, <1>4 DEF BeginSeek
  <2> QED BY <1>1, <2>1 DEF LoadInv, Searching, Opening
<1>5. CASE ~SeekRefused(kernelFile, w.offset)
  <2>1. pc' = "seek" /\ UNCHANGED files /\ seek' = SeekStart(kernelFile, w.offset)
    BY <1>5 DEF BeginSeek
  <2> DEFINE b == w.offset \div BytesPerCluster
  <2>2. w.offset < d.fileSize
    BY <1>2, <1>3, <1>5 DEF SeekRefused, FileIsWhole
  <2>3. b \in Nat /\ b \in 0..b /\ b - b = 0
    <3>1. b \in Nat
      BY <1>2, BootFatAssumption, DivMod
    <3> HIDE DEF b
    <3> QED BY <3>1
  <2>4. /\ DOMAIN seek' = {"value", "hops", "cluster"} /\ seek'.value = w.offset
        /\ seek'.hops = b /\ seek'.cluster = ClusterOf(d, 0)
    BY <1>3, <2>1, NextCluster DEF SeekStart
  <2>5. Fetching(d, 0)'
    <3>1. j \in HEADER..Len(d.elf.segments)
      BY DEF TABLE, HEADER
    <3> QED BY <3>1 DEF Fetching
  <2>6. j # HEADER
    BY DEF TABLE, HEADER
  <2>7. Seeking(d)'
    BY <2>1, <2>2, <2>3, <2>4, <2>5, <2>6 DEF Seeking
  <2> QED BY <1>1, <2>1, <2>7 DEF LoadInv, Searching, Opening
<1> QED BY <1>4, <1>5

LEMMA ImageValidate ==
  ASSUME NEW d, disk = d, FileIsWhole(d), Fits(d), LoadInv(d), ValidateHeader
  PROVE  LoadInv(d)'
<1> DEFINE w == Fetch(d.elf, TABLE)
           l == Len(d.elf.segments)
<1>1. /\ pc = "validate" /\ UNCHANGED <<fatCache, clusters, openCount, mem, kmap>>
      /\ FileAt(d, files[0], clusters, d.elf.headerSize)
      /\ Holding(fatCache) /\ DOMAIN files = 0..FAT_MAX_OPEN_FILES
      /\ DOMAIN clusters = 0..FAT_MAX_OPEN_FILES
  BY DEF ValidateHeader, LoadInv
<1>2. /\ w.to = <<"table", 0>> /\ w.size = l /\ w.offset = d.elf.tablePosition
      /\ w.base = d.elf.headerSize
  BY DEF Fetch, TABLE, HEADER
<1>3. CASE pc' = "halt" /\ UNCHANGED <<files, stage>>
  BY <1>1, <1>3 DEF LoadInv, Searching, Opening
<1>4. CASE /\ stage' = TABLE
           /\ want' = [to |-> <<"table", 0>>, size |-> l, i |-> 0]
           /\ BeginSeek(d.elf.tablePosition, "read")
  <2>1. TABLE \in TABLE..l
    <3>1. l \in Nat
      BY SegmentFacts DEF FileIsWhole
    <3> QED BY <3>1 DEF TABLE
  <2>2. Held(d, mem', kmap', TABLE, 0)
    BY DEF Held, TableHeld, TABLE
  <2>3. /\ DOMAIN want' = {"to", "size", "i"} /\ want'.to = w.to /\ want'.size = w.size
        /\ want'.i = 0
    BY <1>2, <1>4
  <2> HIDE DEF w
  <2> QED BY <1>1, <1>2, <1>4, <2>1, <2>2, <2>3, SeekBegins DEF w
<1> QED BY <1>3, <1>4 DEF ValidateHeader, elf

LEMMA ImageSeekHop ==
  ASSUME NEW d, disk = d, FileIsWhole(d), Fits(d), LoadInv(d), lost' = {}, SeekHop
  PROVE  LoadInv(d)'
<1> DEFINE w == Fetch(d.elf, stage)
           b == w.offset \div BytesPerCluster
           c == seek.cluster
<1>1. PICK rFat \in Reads : SeekHop!(rFat)
  BY DEF SeekHop
<1>2. pc = "seek" /\ Seeking(d) /\ seek.hops > 0
  BY <1>1 DEF LoadInv
<1>3. PICK h : h = seek.hops
  OBVIOUS
<1>4. /\ Fetching(d, 0) /\ stage # HEADER /\ FileAt(d, files[0], clusters, w.base)
      /\ w.offset < d.fileSize /\ DOMAIN seek = {"value", "hops", "cluster"}
      /\ seek.value = w.offset /\ h \in 0..b /\ c = ClusterOf(d, b - h)
  BY <1>2, <1>3 DEF Seeking
<1>5. w.offset \in Nat
  <2>1. stage \in HEADER..Len(d.elf.segments) /\ (stage > TABLE => d.elf.segments[stage].type = "LOAD")
    BY <1>4 DEF Fetching, Held
  <2> QED BY <2>1, FetchFacts
<1>6. /\ Holding(fatCache) /\ DOMAIN files = 0..FAT_MAX_OPEN_FILES
      /\ DOMAIN clusters = 0..FAT_MAX_OPEN_FILES
  BY DEF LoadInv
<1>7. UNCHANGED <<clusters, openCount, want, stage, mem, kmap>>
  BY <1>1
<1>8. ~FatReadFails(c, rFat)
  BY <1>1
<1> HIDE DEF w
<1>9. b \in Nat /\ w.offset % BytesPerCluster \in Nat /\ w.offset = BytesPerCluster * b + (w.offset % BytesPerCluster)
      /\ BytesPerCluster \in Nat
  <2>1. BytesPerCluster \in Nat \ {0}
    BY BootFatAssumption
  <2>2. /\ b \in Nat /\ w.offset % BytesPerCluster \in 0 .. BytesPerCluster - 1
        /\ w.offset = BytesPerCluster * b + (w.offset % BytesPerCluster)
    BY <1>5, <2>1, DivMod
  <2> HIDE DEF b
  <2> QED BY <2>1, <2>2
<1> HIDE DEF b
<1> DEFINE q == b - h
<1>10. q \in Nat /\ q + 1 \in Nat /\ q + 1 <= b /\ q + 1 = b - (h - 1) /\ h - 1 \in 0..b
  BY <1>2, <1>3, <1>4, <1>9
<1>11. BytesPerCluster * (q + 1) < d.fileSize
  <2>1. BytesPerCluster * (q + 1) <= BytesPerCluster * b
    <3>1. CASE q + 1 = b
      BY <1>9, <1>10, <3>1
    <3>2. CASE q + 1 < b
      <4>1. BytesPerCluster * (q + 1) + BytesPerCluster <= BytesPerCluster * b
        BY <1>9, <1>10, <3>2, TimesGrows
      <4>2. BytesPerCluster * (q + 1) \in Nat /\ BytesPerCluster * b \in Nat
        BY <1>9, <1>10
      <4> QED BY <1>9, <4>1, <4>2
    <3> QED BY <1>9, <1>10, <3>1, <3>2
  <2>2. BytesPerCluster * (q + 1) \in Nat /\ BytesPerCluster * b \in Nat /\ d.fileSize \in Nat
    BY <1>9, <1>10 DEF FileIsWhole
  <2> QED BY <1>4, <1>5, <1>9, <2>1, <2>2
<1> DEFINE n == ClusterOf(d, q + 1)
<1>12. getNextCluster(c, rFat) = n /\ n \in 0..UINT16_MAX /\ Holding(CacheAfter(c, rFat))
  BY <1>4, <1>6, <1>8, <1>10, <1>11, NextOfFile
<1>13. n \notin {FAT32_CLUSTER_END, FAT32_CLUSTER_ERROR}
  BY <1>12, SmallCluster
<1>14. /\ seek' = [seek EXCEPT !.hops = @ - 1, !.cluster = n] /\ UNCHANGED <<pc, files>>
       /\ fatCache' = CacheAfter(c, rFat)
  BY <1>1, <1>12, <1>13
<1>15. /\ DOMAIN seek' = {"value", "hops", "cluster"} /\ seek'.value = w.offset
       /\ seek'.hops = h - 1 /\ seek'.cluster = ClusterOf(d, b - (h - 1))
  BY <1>3, <1>4, <1>10, <1>14
<1>16. Fetching(d, 0)'
  BY <1>4, <1>7 DEF Fetching
<1>17. Seeking(d)'
  BY <1>4, <1>7, <1>10, <1>14, <1>15, <1>16 DEF Seeking, w, b
<1> QED BY <1>2, <1>6, <1>7, <1>12, <1>14, <1>17 DEF LoadInv, Searching, Opening

LEMMA ImageSeekLand ==
  ASSUME NEW d, disk = d, FileIsWhole(d), Fits(d), LoadInv(d), lost' = {}, SeekLand
  PROVE  LoadInv(d)'
<1> DEFINE w == Fetch(d.elf, stage)
           b == w.offset \div BytesPerCluster
           p == w.offset % BytesPerCluster
           c == seek.cluster
           f == files[0]
<1>1. PICK r \in Reads : SeekLand!(r)
  BY DEF SeekLand
<1>2. pc = "seek" /\ Seeking(d) /\ seek.hops = 0
  BY <1>1 DEF LoadInv
<1>3. /\ Fetching(d, 0) /\ FileAt(d, f, clusters, w.base)
      /\ seek.value = w.offset /\ 0 \in 0..b /\ c = ClusterOf(d, b - 0)
  BY <1>2 DEF Seeking
<1>4. w.offset \in Nat /\ w.base \in Nat /\ w.size \in Nat
  <2>1. stage \in HEADER..Len(d.elf.segments) /\ (stage > TABLE => d.elf.segments[stage].type = "LOAD")
    BY <1>3 DEF Fetching, Held
  <2> QED BY <2>1, FetchFacts
<1>5. /\ Holding(fatCache) /\ DOMAIN files = 0..FAT_MAX_OPEN_FILES
      /\ DOMAIN clusters = 0..FAT_MAX_OPEN_FILES
  BY DEF LoadInv
<1>6. UNCHANGED <<fatCache, openCount, want, stage, mem, kmap>> /\ pc' = "read"
  BY <1>1
<1>7. f.sector_handle = 0 /\ f.currentCluster = clusters[0] /\ DOMAIN f = FileFields
      /\ f.position = w.base
  BY <1>3 DEF FileAt
<1>8. clusters'[0] = c /\ DOMAIN clusters' = 0..FAT_MAX_OPEN_FILES
  <2>1. clusters' = SeekClusters(f, seek, r)
    BY <1>1 DEF kernelFile, handle
  <2>2. CASE f.currentCluster = c
    BY <1>5, <1>7, <2>1, <2>2 DEF SeekClusters
  <2>3. CASE f.currentCluster # c
    <3>1. lost' = Lost("land", r)
      BY <1>1, <2>3 DEF kernelFile, handle
    <3>2. r.got
      BY <3>1, NoReadLost, ReadsReport
    <3>3. clusters' = [clusters EXCEPT ![0] = c]
      BY <1>7, <2>1, <2>3, <3>2 DEF SeekClusters, loadCluster
    <3> QED BY <1>5, <3>3 DEF FAT_MAX_OPEN_FILES
  <2> QED BY <2>2, <2>3
<1>9. files'[0] = SeekFile(f, seek) /\ DOMAIN files' = 0..FAT_MAX_OPEN_FILES
  BY <1>1, <1>5 DEF handle, FAT_MAX_OPEN_FILES
<1> DEFINE g == files'[0]
<1>10. /\ DOMAIN g = FileFields /\ g.sector_handle = 0 /\ g.currentCluster = c
       /\ g.clusterPosition = p /\ g.position = w.base + w.offset /\ g.directory = f.directory
  BY <1>3, <1>7, <1>9 DEF SeekFile, FileFields
<1> HIDE DEF w, g
<1>11. /\ b \in Nat /\ p \in 0 .. BytesPerCluster - 1 /\ w.offset = BytesPerCluster * b + p
       /\ BytesPerCluster \in Nat \ {0}
  BY <1>4, BootFatAssumption, DivMod
<1>12. b \in 0..w.offset /\ p \in 0..BytesPerCluster
  <2> HIDE DEF b, p
  <2>1. BytesPerCluster = 1 + (BytesPerCluster - 1) /\ BytesPerCluster - 1 \in Nat
    BY <1>11
  <2>2. BytesPerCluster * b = b + (BytesPerCluster - 1) * b /\ (BytesPerCluster - 1) * b \in Nat
    BY <1>11, <2>1
  <2> QED BY <1>4, <1>11, <2>2
<1>13. w.offset + 0 = w.offset /\ w.base + w.offset + 0 = w.base + w.offset /\ b - 0 = b
  BY <1>4, <1>11
<1>14. FileAt(d, g, clusters', w.base + w.offset + 0)
  BY <1>3, <1>8, <1>10, <1>13 DEF FileAt
<1>15. Before(d, g, clusters', w.offset + 0)
  BY <1>3, <1>8, <1>10, <1>11, <1>12, <1>13 DEF Before
<1>16. Fetching(d, 0)'
  BY <1>3, <1>6 DEF Fetching
<1>17. want'.i = 0
  BY <1>3, <1>6 DEF Fetching
<1>18. Reading(d)'
  BY <1>6, <1>14, <1>15, <1>16, <1>17 DEF Reading, w, g
<1> QED BY <1>5, <1>6, <1>8, <1>9, <1>18 DEF LoadInv, Searching, Opening

\* A segment's memory is cleared, and the segment entered in the kernel map.
LEMMA SegmentCleared ==
  ASSUME NEW d, FileIsWhole(d), NEW j \in 1..Len(d.elf.segments),
         d.elf.segments[j].type = "LOAD",
         NEW m, NEW map, Fetched(d, m, map, j)
  PROVE  LET s == d.elf.segments[j]
             ram == s.vaddr..s.vaddr + s.memSize - 1
             new == [a \in DOMAIN m \cup {<<"ram", v>> : v \in ram} |->
                         IF a[1] = "ram" /\ a[2] \in ram THEN ZERO ELSE m[a]]
         IN  Held(d, new, With(map, j, [begin |-> s.vaddr, size |-> s.memSize]), j, 0)
<1> DEFINE e == d.elf
           l == Len(e.segments)
           s == e.segments[j]
           ram == s.vaddr..s.vaddr + s.memSize - 1
           new == [a \in DOMAIN m \cup {<<"ram", v>> : v \in ram} |->
                         IF a[1] = "ram" /\ a[2] \in ram THEN ZERO ELSE m[a]]
           entry == [begin |-> s.vaddr, size |-> s.memSize]
           after == With(map, j, entry)
<1>1. Loadable(e) /\ l \in Nat /\ s.vaddr \in Nat /\ s.memSize \in Nat
  BY SegmentFacts DEF FileIsWhole
<1>2. \A k, u : Has(m, <<"table", k>>, u) => Has(new, <<"table", k>>, u)
  BY DEF Has
<1>3. \A v, u : Has(m, <<"ram", v>>, u) /\ v \notin ram => Has(new, <<"ram", v>>, u)
  BY DEF Has
<1>4. \A v \in ram : Has(new, <<"ram", v>>, ZERO)
  BY DEF Has
<1>5. /\ j \in DOMAIN after /\ after[j] = entry
      /\ \A i \in DOMAIN map : i # j => i \in DOMAIN after /\ after[i] = map[i]
  BY DEF With
<1> HIDE DEF new, after
<1>6. TableHeld(d, new, l)
  BY <1>2 DEF Fetched, TableHeld
<1>7. ASSUME NEW i \in 1..j - 1 PROVE SegmentHeld(d, new, after, i, e.segments[i].fileSize)
  <2> DEFINE t == e.segments[i]
  <2>1. i \in 1..l /\ i # j
    BY <1>1
  <2>2. SUFFICES ASSUME t.type = "LOAD"
                 PROVE  /\ i \in DOMAIN after /\ after[i] = [begin |-> t.vaddr, size |-> t.memSize]
                        /\ \A k \in 0..t.memSize - 1 :
                              Has(new, <<"ram", t.vaddr + k>>,
                                  IF k < t.fileSize THEN UnitOf(d, t.offset + k) ELSE ZERO)
    BY DEF SegmentHeld
  <2>3. /\ i \in DOMAIN map /\ map[i] = [begin |-> t.vaddr, size |-> t.memSize]
        /\ \A k \in 0..t.memSize - 1 :
              Has(m, <<"ram", t.vaddr + k>>,
                  IF k < t.fileSize THEN UnitOf(d, t.offset + k) ELSE ZERO)
    BY <2>2 DEF Fetched, SegmentHeld
  <2>4. ASSUME NEW k \in 0..t.memSize - 1 PROVE t.vaddr + k \notin ram
    <3> SUFFICES ASSUME t.vaddr + k \in ram PROVE FALSE
      OBVIOUS
    <3>1. PICK x : x = (t.vaddr + k) - s.vaddr
      OBVIOUS
    <3>2. t.vaddr \in Nat /\ t.memSize \in Nat
      BY <1>1, <2>1, SegmentFacts
    <3>3. x \in 0..s.memSize - 1 /\ s.vaddr + x = t.vaddr + k
      <4> DEFINE v == t.vaddr + k
      <4>1. v \in Nat
        BY <3>2, SMTT(30)
      <4>2. s.vaddr <= v /\ v <= s.vaddr + s.memSize - 1
        BY <1>1, <4>1
      <4> HIDE DEF v
      <4>3. v - s.vaddr \in 0..s.memSize - 1 /\ s.vaddr + (v - s.vaddr) = v
        BY <1>1, <4>1, <4>2, InRange
      <4> QED BY <3>1, <4>3 DEF v
    <3> QED BY <1>1, <2>1, <2>2, <3>3, SegmentsApart
  <2> QED BY <1>3, <1>5, <2>1, <2>3, <2>4
<1>8. SegmentHeld(d, new, after, j, 0)
  <2>1. ASSUME NEW k \in 0..s.memSize - 1
        PROVE  Has(new, <<"ram", s.vaddr + k>>, IF k < 0 THEN UnitOf(d, s.offset + k) ELSE ZERO)
    <3>1. s.vaddr + k \in ram /\ ~(k < 0)
      BY <1>1, SMTT(30)
    <3> QED BY <1>4, <3>1
  <2> QED BY <1>5, <2>1 DEF SegmentHeld
<1>9. Fetched(d, new, after, j)
  BY <1>6, <1>7 DEF Fetched
<1>10. j # TABLE
  BY DEF TABLE
<1> QED BY <1>8, <1>9, <1>10 DEF Held, new, after

LEMMA ImageSegment ==
  ASSUME NEW d, disk = d, FileIsWhole(d), Fits(d), LoadInv(d), Segment
  PROVE  LoadInv(d)'
<1> DEFINE e == d.elf
           l == Len(e.segments)
           s == e.segments[stage]
<1>1. /\ pc = "segment" /\ UNCHANGED <<fatCache, clusters, openCount>> /\ elf = e
  BY DEF Segment, elf
<1>2. /\ stage \in 1..l + 1 /\ Fetched(d, mem, kmap, stage)
      /\ FileAt(d, files[0], clusters, Reached(e)[stage - 1])
      /\ Holding(fatCache) /\ DOMAIN files = 0..FAT_MAX_OPEN_FILES
      /\ DOMAIN clusters = 0..FAT_MAX_OPEN_FILES
  BY <1>1 DEF LoadInv
<1>3. l \in Nat /\ Loadable(e)
  BY SegmentFacts DEF FileIsWhole
<1> DEFINE loaded == /\ s.type = "LOAD"
                     /\ <<"table", stage - 1>> \in DOMAIN mem
                     /\ mem[<<"table", stage - 1>>] = FileUnit(e.tablePosition + stage - 1)
<1>4. CASE /\ stage > l /\ pc' = "pages"
           /\ files' = [files EXCEPT ![handle] = FAT32_close(@)]
           /\ UNCHANGED <<stage, mem, kmap>>
  <2>1. stage = l + 1 /\ DOMAIN files' = 0..FAT_MAX_OPEN_FILES
    BY <1>2, <1>3, <1>4
  <2> QED BY <1>1, <1>2, <1>4, <2>1 DEF LoadInv, Searching, Opening
<1>5. ASSUME stage <= l PROVE loaded <=> s.type = "LOAD"
  <2>1. stage - 1 \in 0..l - 1
    BY <1>2, <1>3, <1>5
  <2>2. Has(mem, <<"table", stage - 1>>, UnitOf(d, e.tablePosition + (stage - 1)))
    BY <1>2, <2>1 DEF Fetched, TableHeld
  <2>3. e.tablePosition + (stage - 1) = e.tablePosition + stage - 1
    <3>1. e.tablePosition \in Nat
      BY <1>3, SegmentFacts
    <3> QED BY <1>2, <3>1
  <2> QED BY <2>2, <2>3 DEF Has, FileUnit
<1>6. CASE /\ stage <= l /\ ~loaded /\ PassOver
           /\ UNCHANGED <<pc, files, mem, kmap>>
  <2>1. s.type # "LOAD" /\ stage' = stage + 1
    BY <1>5, <1>6 DEF PassOver
  <2>2. stage \in 1..l /\ stage + 1 \in 1..l + 1 /\ (stage + 1) - 1 = stage
    BY <1>2, <1>3, <1>6
  <2>3. Reached(e)[stage] = Reached(e)[stage - 1]
    <3>1. Gain(e, stage) = 0
      BY <2>1 DEF Gain
    <3>2. Reached(e)[stage] = Reached(e)[stage - 1] + Gain(e, stage)
      BY <1>3, <2>2, ReachedIs
    <3>3. stage - 1 \in 0..l
      BY <1>3, <2>2
    <3>4. Reached(e)[stage - 1] \in Nat
      BY <1>3, <3>3, ReachedGrows
    <3> QED BY <3>1, <3>2, <3>4
  <2>4. Fetched(d, mem, kmap, stage + 1)
    <3>1. SegmentHeld(d, mem, kmap, stage, s.fileSize)
      BY <2>1 DEF SegmentHeld
    <3>2. \A i \in 1..(stage + 1) - 1 : i = stage \/ i \in 1..stage - 1
      BY <2>2
    <3> QED BY <1>2, <3>1, <3>2 DEF Fetched
  <2> QED BY <1>1, <1>2, <1>6, <2>1, <2>2, <2>3, <2>4 DEF LoadInv, Searching, Opening
<1>7. CASE /\ stage <= l /\ loaded
           /\ kmap' = With(kmap, stage, [begin |-> s.vaddr, size |-> s.memSize])
           /\ mem' = [a \in DOMAIN mem \cup {<<"ram", v>> : v \in s.vaddr..s.vaddr + s.memSize - 1} |->
                              IF a[1] = "ram" /\ a[2] \in s.vaddr..s.vaddr + s.memSize - 1
                              THEN ZERO ELSE mem[a]]
           /\ want' = [to |-> <<"ram", s.vaddr>>, size |-> s.fileSize, i |-> 0]
           /\ BeginSeek(s.offset, "read")
           /\ UNCHANGED stage
  <2>1. stage \in 1..l /\ stage \in TABLE..l /\ stage # HEADER /\ stage # TABLE
    BY <1>2, <1>3, <1>7 DEF TABLE, HEADER
  <2>2. s.type = "LOAD"
    BY <1>7
  <2>3. Held(d, mem', kmap', stage, 0)
    BY <1>2, <1>7, <2>1, <2>2, SegmentCleared
  <2> DEFINE w == Fetch(e, stage)
  <2>4. /\ w.to = <<"ram", s.vaddr>> /\ w.size = s.fileSize /\ w.offset = s.offset
        /\ w.base = Reached(e)[stage - 1]
    BY <2>1 DEF Fetch
  <2> HIDE DEF w
  <2>5. DOMAIN want' = {"to", "size", "i"} /\ want'.to = w.to /\ want'.size = w.size /\ want'.i = 0
    BY <1>7, <2>4
  <2>6. BeginSeek(w.offset, "read") /\ FileAt(d, files[0], clusters, w.base) /\ stage' = stage
    BY <1>2, <1>7, <2>4
  <2> QED BY <1>1, <2>1, <2>3, <2>5, <2>6, SeekBegins DEF w
<1> QED BY <1>1, <1>4, <1>6, <1>7 DEF Segment

\* A bounded set of numbers that are given one by one has a greatest.
LEMMA GreatestEnd ==
  ASSUME NEW e, Loadable(e), e.segments # <<>>
  PROVE  \E m \in {s.vaddr + s.memSize : s \in {e.segments[i] : i \in DOMAIN e.segments}} :
             \A i \in DOMAIN e.segments : e.segments[i].vaddr + e.segments[i].memSize <= m
<1> DEFINE l == Len(e.segments)
           End(i) == e.segments[i].vaddr + e.segments[i].memSize
           T == {n \in Nat : n \in 1..l => \E j \in 1..n : \A i \in 1..n : End(i) <= End(j)}
<1>1. l \in Nat \ {0} /\ DOMAIN e.segments = 1..l /\ \A i \in 1..l : End(i) \in Nat
  <2>1. l \in Nat /\ DOMAIN e.segments = 1..l
    BY SegmentFacts
  <2>2. \A i \in 1..l : e.segments[i].vaddr \in Nat /\ e.segments[i].memSize \in Nat
    BY SegmentFacts
  <2>3. l # 0
    <3> DEFINE S == [type : STRING, offset : Nat, fileSize : Nat, vaddr : Nat, memSize : Nat]
    <3>1. e.segments \in Seq(S)
      BY DEF Loadable
    <3> HIDE DEF S
    <3> QED BY <3>1
  <2> HIDE DEF l
  <2> QED BY <2>1, <2>2, <2>3
<1> HIDE DEF End, l
<1>2. 0 \in T
  OBVIOUS
<1>3. ASSUME NEW n \in Nat, n \in T PROVE n + 1 \in T
  <2> SUFFICES ASSUME n + 1 \in 1..l
               PROVE  \E j \in 1..n + 1 : \A i \in 1..n + 1 : End(i) <= End(j)
    OBVIOUS
  <2>1. n + 1 \in 1..n + 1 /\ \A i \in 1..n + 1 : i = n + 1 \/ i \in 1..n
    OBVIOUS
  <2>2. \A i \in 1..n + 1 : End(i) \in Nat
    BY <1>1
  <2>3. CASE n = 0
    <3>1. \A i \in 1..n + 1 : End(i) <= End(n + 1)
      BY <2>1, <2>2, <2>3
    <3> QED BY <2>1, <3>1
  <2>4. CASE n # 0
    <3>1. PICK j \in 1..n : \A i \in 1..n : End(i) <= End(j)
      BY <1>1, <1>3, <2>4
    <3>2. CASE End(n + 1) <= End(j)
      <4>1. \A i \in 1..n + 1 : End(i) <= End(j)
        BY <2>1, <3>1, <3>2
      <4> QED BY <4>1
    <3>3. CASE ~(End(n + 1) <= End(j))
      <4>1. \A i \in 1..n + 1 : End(i) <= End(n + 1)
        BY <2>1, <2>2, <3>1, <3>3
      <4> QED BY <2>1, <4>1
    <3> QED BY <3>2, <3>3
  <2> QED BY <2>3, <2>4
<1>4. Nat \subseteq T
  <2> HIDE DEF T
  <2> QED BY <1>2, <1>3, Induct
<1>5. PICK j \in 1..l : \A i \in 1..l : End(i) <= End(j)
  <2>1. l \in T
    <3> HIDE DEF T
    <3> QED BY <1>1, <1>4
  <2>2. l \in 1..l
    BY <1>1
  <2> QED BY <2>1, <2>2
<1> QED BY <1>1, <1>5 DEF End

\* The page tables map the kernel's memory onto itself.
LEMMA MappedOntoItself ==
  ASSUME NEW d, Loadable(d.elf), NEW i \in 1..Len(d.elf.segments),
         NEW k \in 0..d.elf.segments[i].memSize - 1
  PROVE  LET v == d.elf.segments[i].vaddr + k
         IN  IdentityPages(d)[v \div Tables][v % Tables] = v
<1> DEFINE e == d.elf
           s == e.segments[i]
           v == s.vaddr + k
           ends == {t.vaddr + t.memSize : t \in {e.segments[j] : j \in DOMAIN e.segments}}
           m == CHOOSE x \in ends : \A j \in DOMAIN e.segments :
                                        e.segments[j].vaddr + e.segments[j].memSize <= x
           n == PagesOf(e)
<1>1. /\ DOMAIN e.segments = 1..Len(e.segments) /\ s.vaddr \in Nat /\ s.memSize \in Nat
      /\ \A j \in 1..Len(e.segments) : e.segments[j].vaddr \in Nat /\ e.segments[j].memSize \in Nat
  BY SegmentFacts
<1>2. m \in ends /\ s.vaddr + s.memSize <= m
  <2>1. e.segments # <<>>
    BY <1>1
  <2> QED BY <1>1, <2>1, GreatestEnd
<1>3. m \in Nat
  <2> HIDE DEF m
  <2>1. PICK j \in 1..Len(e.segments) : m = e.segments[j].vaddr + e.segments[j].memSize
    BY <1>1, <1>2
  <2>2. e.segments[j].vaddr \in Nat /\ e.segments[j].memSize \in Nat
    BY <1>1
  <2> QED BY <2>1, <2>2
<1>4. n = 1 + m
  BY DEF PagesOf
<1> HIDE DEF m, n
<1>5. v \in Nat /\ n \in Nat /\ v <= n
  <2> DEFINE a == s.vaddr
             z == s.memSize
  <2>1. a \in Nat /\ z \in Nat /\ k \in 0..z - 1 /\ a + z <= m /\ m \in Nat /\ n = 1 + m /\ v = a + k
    BY <1>1, <1>2, <1>3, <1>4
  <2> HIDE DEF a, z, v
  <2> QED BY <2>1
<1> HIDE DEF v
<1> DEFINE t == v \div Tables
           p == v % Tables
<1>6. /\ t \in Nat /\ p \in 0 .. Tables - 1 /\ v = Tables * t + p /\ Tables \in Nat \ {0}
  BY <1>5, BootAssumption, DivMod
<1>7. t <= n \div Tables /\ n \div Tables \in Nat
  BY <1>5, BootAssumption, DivGrows, DivMod
<1> HIDE DEF t, p
<1>8. t \in 0..n \div Tables
  BY <1>6, <1>7
<1>9. IdentityPages(d)[t][p] = t * Tables + p
  BY <1>6, <1>8 DEF IdentityPages, n
<1>10. t * Tables + p = v
  <2>1. t * Tables = Tables * t
    BY <1>6
  <2> QED BY <1>6, <2>1
<1> QED BY <1>9, <1>10 DEF t, p, v

LEMMA ImageStep == ImageInv /\ (Step \/ UNCHANGED vars) => ImageInv'
<1> SUFFICES ASSUME ImageInv, Step \/ UNCHANGED vars PROVE ImageInv'
  OBVIOUS
<1>0. CASE UNCHANGED vars
  BY <1>0 DEF vars, fatVars, ImageInv, LoadInv, Searching, Reading, Seeking, Fetching
<1>1. SUFFICES ASSUME disk' = disk, Step PROVE ImageInv'
  <2>1. Step => disk' = disk
    BY DEF Step, ReadMBR, ReadPartition, FAT12_initialise, FAT32_initialise, ReadFirstFAT,
           OpenKernel, SearchDirectory, LoadFirstCluster, FAT32_read, ValidateHeader,
           SeekHop, SeekLand, Segment, EnterKernel, fatVars
  <2> QED BY <1>0, <2>1
<1>2. PICK d : d = disk
  OBVIOUS
<1>3. FileIsWhole(d) /\ disk' = d
  BY <1>1, <1>2 DEF ImageInv
<1>4. SUFFICES ASSUME lost' = {}, Fits(d) PROVE LoadInv(d)'
  BY <1>3 DEF ImageInv
<1>5. lost = {}
  <2>1. \A who, r : lost \subseteq Lost(who, r)
    BY DEF Lost
  <2>2. CASE FAT32_read
    <3>1. PICK rFat \in Reads, r \in Reads : FAT32_read!(rFat, r)
      BY <2>2 DEF FAT32_read
    <3>2. lost' = lost \/ lost' = FAT32_getc(kernelFile, rFat, r).lost
      BY <3>1 DEF fatVars
    <3>3. lost \subseteq FAT32_getc(kernelFile, rFat, r).lost
      BY DEF FAT32_getc
    <3> QED BY <1>4, <3>2, <3>3
  <2>3. CASE ~FAT32_read
    BY <1>1, <1>4, <2>1, <2>3
       DEF Step, ReadMBR, ReadPartition, FAT12_initialise, FAT32_initialise, ReadFirstFAT,
           OpenKernel, SearchDirectory, LoadFirstCluster, ValidateHeader,
           SeekHop, SeekLand, Segment, EnterKernel, fatVars
  <2> QED BY <2>2, <2>3
<1>6. LoadInv(d)
  BY <1>2, <1>4, <1>5 DEF ImageInv
<1>7. CASE ReadMBR \/ ReadPartition \/ FAT12_initialise \/ FAT32_initialise \/ ReadFirstFAT \/ OpenKernel
  BY <1>4, <1>6, <1>7, ImageOpening
<1>8. CASE SearchDirectory
  BY <1>2, <1>3, <1>4, <1>6, <1>8, ImageSearch
<1>9. CASE LoadFirstCluster
  BY <1>2, <1>3, <1>4, <1>6, <1>9, ImageOpen
<1>10. CASE FAT32_read
  BY <1>2, <1>3, <1>4, <1>5, <1>6, <1>10, ImageRead
<1>11. CASE ValidateHeader
  BY <1>2, <1>3, <1>4, <1>6, <1>11, ImageValidate
<1>12. CASE SeekHop
  BY <1>2, <1>3, <1>4, <1>6, <1>12, ImageSeekHop
<1>13. CASE SeekLand
  BY <1>2, <1>3, <1>4, <1>6, <1>13, ImageSeekLand
<1>14. CASE Segment
  BY <1>2, <1>3, <1>4, <1>6, <1>14, ImageSegment
<1>15. CASE EnterKernel
  <2>1. initialisePages = IdentityPages(d)
    BY <1>2 DEF initialisePages, IdentityPages, Pages, PagesOf, elf
  <2>2. /\ pc = "pages" /\ pc' = "kernel" /\ paging' = IdentityPages(d)
        /\ UNCHANGED <<fatCache, files, clusters, openCount, stage, mem, kmap>>
    BY <1>15, <2>1 DEF EnterKernel, fatVars
  <2> QED BY <1>6, <2>2 DEF LoadInv, Searching, Opening
<1> QED BY <1>1, <1>7, <1>8, <1>9, <1>10, <1>11, <1>12, <1>13, <1>14, <1>15 DEF Step

LEMMA ImageInMemory == ImageInv => KernelImageIsLoaded
<1> SUFFICES ASSUME ImageInv, pc = "kernel", lost = {}, KernelIsLong,
                    NEW i \in DOMAIN elf.segments, elf.segments[i].type = "LOAD"
             PROVE  LET s == elf.segments[i] IN
                    /\ i \in DOMAIN kmap /\ kmap[i] = [begin |-> s.vaddr, size |-> s.memSize]
                    /\ \A k \in 0..s.memSize - 1 :
                           LET v     == s.vaddr + k
                               frame == paging[v \div Tables][v % Tables]
                           IN  mem[<<"ram", frame>>] =
                                   IF k < s.fileSize THEN FileUnit(s.offset + k) ELSE ZERO
  BY DEF KernelImageIsLoaded
<1> DEFINE d == disk
           e == d.elf
           s == e.segments[i]
<1>1. FileIsWhole(d) /\ Loadable(e) /\ elf = e
  BY DEF ImageInv, FileIsWhole, elf
<1>2. LoadInv(d)
  BY DEF ImageInv, KernelIsLong, Fits, elf
<1>3. Fetched(d, mem, kmap, Len(e.segments) + 1) /\ paging = IdentityPages(d)
  BY <1>2 DEF LoadInv
<1>4. i \in 1..Len(e.segments) /\ (Len(e.segments) + 1) - 1 = Len(e.segments)
  BY <1>1, SegmentFacts
<1>5. SegmentHeld(d, mem, kmap, i, s.fileSize)
  BY <1>3, <1>4 DEF Fetched
<1>6. /\ i \in DOMAIN kmap /\ kmap[i] = [begin |-> s.vaddr, size |-> s.memSize]
      /\ \A k \in 0..s.memSize - 1 :
             Has(mem, <<"ram", s.vaddr + k>>, IF k < s.fileSize THEN UnitOf(d, s.offset + k) ELSE ZERO)
  BY <1>1, <1>5 DEF SegmentHeld
<1>7. \A k \in 0..s.memSize - 1 :
          IdentityPages(d)[(s.vaddr + k) \div Tables][(s.vaddr + k) % Tables] = s.vaddr + k
  BY <1>1, <1>4, MappedOntoItself
<1> QED BY <1>1, <1>3, <1>6, <1>7 DEF Has, FileUnit

\* A kernel whose file is whole is entered with its image in memory, unless a
\* read was lost on the way or the file is shorter than the sum of all seeks:
\* for every volume, cluster size, FAT and kernel (FAT32.c, elf.c, Paging.c).
THEOREM ImageIsLoaded == FileIsWhole(disk) /\ ChainSpec => []KernelImageIsLoaded
<1>1. FileIsWhole(disk) /\ ChainInit => ImageInv
  BY ImageInit
<1>2. ImageInv /\ [ChainNext]_chainVars => ImageInv'
  BY ImageStep, LoaderOrNothing
<1>3. ImageInv => KernelImageIsLoaded
  BY ImageInMemory
<1> QED BY <1>1, <1>2, <1>3, PTL DEF ChainSpec

-----------------------------------------------------------------------------
(* The two interrupt controllers while start programs them (Pic, PIC.c).   *)

Registers == {"init", "base", "imr", "irr", "isr", "mode86"}
PicParts == {"master", "slave", "kind"}

IsPic(chips) ==
  /\ DOMAIN chips = PicParts
  /\ DOMAIN chips["master"] = Registers /\ DOMAIN chips["slave"] = Registers

LEMMA SetBits ==
  /\ 4 \in Bits(ICW1)
  /\ 4 \notin Bits(EndOfInterrupt)
  /\ 0 \in Bits(ICW4_8086)
  /\ Bits(255) = 0..7
<1>1. 4 \in Bits(ICW1) /\ 4 \notin Bits(EndOfInterrupt) /\ 0 \in Bits(ICW4_8086)
  BY DEF Bits, ICW1, EndOfInterrupt, ICW4_8086
<1>2. /\ (255 \div 2^0) % 2 = 1 /\ (255 \div 2^1) % 2 = 1 /\ (255 \div 2^2) % 2 = 1
      /\ (255 \div 2^3) % 2 = 1 /\ (255 \div 2^4) % 2 = 1 /\ (255 \div 2^5) % 2 = 1
      /\ (255 \div 2^6) % 2 = 1 /\ (255 \div 2^7) % 2 = 1
  OBVIOUS
<1>3. \A i \in 0..7 : i \in {0, 1, 2, 3, 4, 5, 6, 7}
  OBVIOUS
<1>4. \A i \in 0..7 : (255 \div 2^i) % 2 = 1
  BY ZenonT(40), <1>2, <1>3
<1> QED BY ZenonT(40), <1>1, <1>4 DEF Bits

\* A pair of bytes reaches both controllers.
LEMMA BothCommands ==
  ASSUME NEW chips, IsPic(chips), NEW v, NEW w
  PROVE  LET c == OutbBoth(chips, <<MASTER_PIC_COMMAND, v>>, <<SLAVE_PIC_COMMAND, w>>) IN
         /\ DOMAIN c = PicParts
         /\ c["master"] = Command(chips["master"], v) /\ c["slave"] = Command(chips["slave"], w)
<1> DEFINE o == Outb(chips, <<32, v>>)
<1>1. o = [chips EXCEPT !["master"] = Command(@, v)]
  BY DEF Outb, Chip
<1>2. /\ DOMAIN o = PicParts
      /\ o["master"] = Command(chips["master"], v) /\ o["slave"] = chips["slave"]
  BY <1>1 DEF IsPic, PicParts
<1> HIDE DEF o
<1>3. Outb(o, <<160, w>>) = [o EXCEPT !["slave"] = Command(@, w)]
  BY DEF Outb, Chip
<1>4. OutbBoth(chips, <<MASTER_PIC_COMMAND, v>>, <<SLAVE_PIC_COMMAND, w>>) = Outb(o, <<160, w>>)
  BY DEF OutbBoth, MASTER_PIC_COMMAND, SLAVE_PIC_COMMAND, o
<1> QED BY ZenonT(40), <1>2, <1>3, <1>4 DEF PicParts

LEMMA BothData ==
  ASSUME NEW chips, IsPic(chips), NEW v, NEW w
  PROVE  LET c == OutbBoth(chips, <<MASTER_PIC_DATA, v>>, <<SLAVE_PIC_DATA, w>>) IN
         /\ DOMAIN c = PicParts
         /\ c["master"] = Data(chips["master"], v) /\ c["slave"] = Data(chips["slave"], w)
<1> DEFINE o == Outb(chips, <<33, v>>)
<1>1. o = [chips EXCEPT !["master"] = Data(@, v)]
  BY DEF Outb, Chip
<1>2. /\ DOMAIN o = PicParts
      /\ o["master"] = Data(chips["master"], v) /\ o["slave"] = chips["slave"]
  BY <1>1 DEF IsPic, PicParts
<1> HIDE DEF o
<1>3. Outb(o, <<161, w>>) = [o EXCEPT !["slave"] = Data(@, w)]
  BY DEF Outb, Chip
<1>4. OutbBoth(chips, <<MASTER_PIC_DATA, v>>, <<SLAVE_PIC_DATA, w>>) = Outb(o, <<161, w>>)
  BY DEF OutbBoth, MASTER_PIC_DATA, SLAVE_PIC_DATA, o
<1> QED BY ZenonT(40), <1>2, <1>3, <1>4 DEF PicParts

\* A controller that waits for word `init` of its programming, with nothing
\* requested and nothing in service.
Waits(c, init, base) ==
  /\ DOMAIN c = Registers
  /\ c.init = init /\ c.base = base /\ c.irr = {} /\ c.isr = {}

LEMMA FirstWord ==
  ASSUME NEW c, DOMAIN c = Registers
  PROVE  \E base : Waits(Command(c, ICW1), 2, base)
<1> DEFINE n == [c EXCEPT !.init = 2, !.imr = {}, !.irr = {}, !.isr = {}, !.mode86 = FALSE]
<1>1. Command(c, ICW1) = n
  BY SetBits DEF Command
<1>2. Waits(n, 2, n.base)
  BY DEF Waits, Registers
<1> QED BY <1>1, <1>2

LEMMA NextWord ==
  ASSUME NEW c, NEW init \in {0, 2, 3, 4}, NEW base, Waits(c, init, base), NEW value
  PROVE  LET n == Data(c, value) IN
         /\ init = 2 => Waits(n, 3, value)
         /\ init = 3 => Waits(n, 4, base)
         /\ init = 4 => Waits(n, 0, base) /\ (n.mode86 <=> 0 \in Bits(value))
         /\ init = 0 => Waits(n, 0, base) /\ n.imr = Bits(value) /\ n.mode86 = c.mode86
<1>1. CASE init = 2
  <2>1. Data(c, value) = [c EXCEPT !.init = 3, !.base = value]
    BY <1>1 DEF Waits, Data
  <2> QED BY <1>1, <2>1 DEF Waits, Registers
<1>2. CASE init = 3
  BY <1>2 DEF Waits, Data, Registers
<1>3. CASE init = 4
  <2>1. Data(c, value) = [c EXCEPT !.init = 0, !.mode86 = 0 \in Bits(value)]
    BY <1>3 DEF Waits, Data
  <2>2. Waits(Data(c, value), 0, base)
    BY <1>3, <2>1 DEF Waits, Registers
  <2>3. Data(c, value).mode86 <=> 0 \in Bits(value)
    <3> PICK x : x = (0 \in Bits(value))
      OBVIOUS
    <3>1. Data(c, value) = [c EXCEPT !.init = 0, !.mode86 = x]
      BY <2>1
    <3>2. Data(c, value).mode86 = x
      BY <3>1 DEF Waits, Registers
    <3>3. CASE 0 \in Bits(value)
      BY <3>2, <3>3
    <3>4. CASE 0 \notin Bits(value)
      BY <3>2, <3>4
    <3> QED BY <3>3, <3>4
  <2> QED BY <1>3, <2>2, <2>3
<1>4. CASE init = 0
  BY <1>4 DEF Waits, Data, Registers
<1> QED BY <1>1, <1>2, <1>3, <1>4

\* What init_pic leaves: the lines remapped, all masked, nothing requested.
LEMMA Programmed ==
  ASSUME NEW chips, IsPic(chips)
  PROVE  LET c == init_pic(chips) IN
         /\ DOMAIN c = PicParts
         /\ Waits(c["master"], 0, REMAP_PIC_OFFSET) /\ c["master"].imr = 0..7
         /\ Waits(c["slave"], 0, REMAP_PIC_OFFSET + 8) /\ c["slave"].imr = 0..7
         /\ c["master"].mode86 /\ c["slave"].mode86
<1> DEFINE c1 == OutbBoth(chips, <<MASTER_PIC_COMMAND, ICW1>>, <<SLAVE_PIC_COMMAND, ICW1>>)
           c2 == OutbBoth(c1, <<MASTER_PIC_DATA, 32>>, <<SLAVE_PIC_DATA, 40>>)
           c3 == OutbBoth(c2, <<MASTER_PIC_DATA, 4>>, <<SLAVE_PIC_DATA, 2>>)
           c4 == OutbBoth(c3, <<MASTER_PIC_DATA, ICW4_8086>>, <<SLAVE_PIC_DATA, ICW4_8086>>)
           c5 == OutbBoth(c4, <<MASTER_PIC_DATA, 255>>, <<SLAVE_PIC_DATA, 255>>)
<1>0. init_pic(chips) = c5
  BY DEF init_pic, PIC_remap, REMAP_PIC_OFFSET
<1>1. PICK b1, b2 : /\ DOMAIN c1 = PicParts
                    /\ Waits(c1["master"], 2, b1) /\ Waits(c1["slave"], 2, b2)
  <2>1. /\ DOMAIN c1 = PicParts
        /\ c1["master"] = Command(chips["master"], ICW1) /\ c1["slave"] = Command(chips["slave"], ICW1)
    BY BothCommands
  <2>2. \E b : Waits(Command(chips["master"], ICW1), 2, b)
    BY FirstWord DEF IsPic, PicParts
  <2>3. \E b : Waits(Command(chips["slave"], ICW1), 2, b)
    BY FirstWord DEF IsPic, PicParts
  <2> QED BY <2>1, <2>2, <2>3
<1> HIDE DEF c1
<1>2. /\ DOMAIN c2 = PicParts
      /\ Waits(c2["master"], 3, 32) /\ Waits(c2["slave"], 3, 40)
  <2>1. IsPic(c1)
    BY <1>1 DEF IsPic, PicParts, Waits
  <2>2. /\ DOMAIN c2 = PicParts
        /\ c2["master"] = Data(c1["master"], 32) /\ c2["slave"] = Data(c1["slave"], 40)
    BY <2>1, BothData
  <2>3. Waits(Data(c1["master"], 32), 3, 32) /\ Waits(Data(c1["slave"], 40), 3, 40)
    BY <1>1, NextWord
  <2> QED BY <2>2, <2>3
<1> HIDE DEF c2
<1>3. /\ DOMAIN c3 = PicParts
      /\ Waits(c3["master"], 4, 32) /\ Waits(c3["slave"], 4, 40)
  <2>1. IsPic(c2)
    BY <1>2 DEF IsPic, PicParts, Waits
  <2>2. /\ DOMAIN c3 = PicParts
        /\ c3["master"] = Data(c2["master"], 4) /\ c3["slave"] = Data(c2["slave"], 2)
    BY <2>1, BothData
  <2>3. Waits(Data(c2["master"], 4), 4, 32) /\ Waits(Data(c2["slave"], 2), 4, 40)
    BY <1>2, NextWord
  <2> QED BY <2>2, <2>3
<1> HIDE DEF c3
<1>4. /\ DOMAIN c4 = PicParts
      /\ Waits(c4["master"], 0, 32) /\ Waits(c4["slave"], 0, 40)
      /\ c4["master"].mode86 /\ c4["slave"].mode86
  <2>1. IsPic(c3)
    BY <1>3 DEF IsPic, PicParts, Waits
  <2>2. /\ DOMAIN c4 = PicParts
        /\ c4["master"] = Data(c3["master"], ICW4_8086) /\ c4["slave"] = Data(c3["slave"], ICW4_8086)
    BY <2>1, BothData
  <2>3. /\ Waits(Data(c3["master"], ICW4_8086), 0, 32) /\ Waits(Data(c3["slave"], ICW4_8086), 0, 40)
        /\ Data(c3["master"], ICW4_8086).mode86 /\ Data(c3["slave"], ICW4_8086).mode86
    BY <1>3, NextWord, SetBits
  <2> QED BY <2>2, <2>3
<1> HIDE DEF c4
<1>5. /\ DOMAIN c5 = PicParts
      /\ Waits(c5["master"], 0, 32) /\ c5["master"].imr = 0..7
      /\ Waits(c5["slave"], 0, 40) /\ c5["slave"].imr = 0..7
      /\ c5["master"].mode86 /\ c5["slave"].mode86
  <2>1. IsPic(c4)
    BY <1>4 DEF IsPic, PicParts, Waits
  <2>2. /\ DOMAIN c5 = PicParts
        /\ c5["master"] = Data(c4["master"], 255) /\ c5["slave"] = Data(c4["slave"], 255)
    BY <2>1, BothData
  <2>3. /\ Waits(Data(c4["master"], 255), 0, 32) /\ Data(c4["master"], 255).imr = 0..7
        /\ Waits(Data(c4["slave"], 255), 0, 40) /\ Data(c4["slave"], 255).imr = 0..7
        /\ Data(c4["master"], 255).mode86 /\ Data(c4["slave"], 255).mode86
    <3>1. /\ Waits(Data(c4["master"], 255), 0, 32) /\ Data(c4["master"], 255).imr = Bits(255)
          /\ Waits(Data(c4["slave"], 255), 0, 40) /\ Data(c4["slave"], 255).imr = Bits(255)
          /\ Data(c4["master"], 255).mode86 /\ Data(c4["slave"], 255).mode86
      BY <1>4, NextWord
    <3> QED BY <3>1, SetBits
  <2> QED BY <2>2, <2>3
<1> QED BY <1>0, <1>5 DEF REMAP_PIC_OFFSET

\* The timer's line is taken, acknowledged and ended.
LEMMA TakenAndEnded ==
  ASSUME NEW chips, IsPic(chips), chips["master"].isr = {}
  PROVE  LET c == PIC_EOI(Acknowledged(chips, 0), 0) IN
         /\ IsPic(c)
         /\ c["master"] = [chips["master"] EXCEPT !.irr = @ \ {0}, !.isr = {}]
         /\ c["slave"] = chips["slave"]
<1> DEFINE a == Acknowledged(chips, 0)
           m == chips["master"]
<1>1. /\ IsPic(a) /\ a["master"] = [m EXCEPT !.irr = @ \ {0}, !.isr = {0}]
      /\ a["slave"] = chips["slave"]
  BY DEF Acknowledged, IsPic, PicParts, Registers
<1> HIDE DEF a
<1>2. PIC_EOI(a, 0) = Outb(a, <<32, EndOfInterrupt>>)
  BY DEF PIC_EOI, MASTER_PIC_COMMAND, PIC_EOI_VAL
<1>3. PIC_EOI(a, 0) = [a EXCEPT !["master"] = Command(@, EndOfInterrupt)]
  BY <1>2 DEF Outb, Chip
<1>4. Min({0}) = 0
  BY DEF Min
<1>5. Command(a["master"], EndOfInterrupt) = [a["master"] EXCEPT !.isr = {}]
  <2>1. a["master"].isr = {0}
    BY <1>1 DEF IsPic, PicParts, Registers
  <2>2. Command(a["master"], EndOfInterrupt) = [a["master"] EXCEPT !.isr = @ \ {Min(@)}]
    BY <2>1, SetBits DEF Command
  <2> QED BY <1>4, <2>1, <2>2
<1>6. /\ PIC_EOI(a, 0)["master"] = [a["master"] EXCEPT !.isr = {}]
      /\ PIC_EOI(a, 0)["slave"] = a["slave"]
      /\ DOMAIN PIC_EOI(a, 0) = PicParts
  BY <1>1, <1>3, <1>5 DEF IsPic, PicParts
<1>7. [a["master"] EXCEPT !.isr = {}] = [m EXCEPT !.irr = @ \ {0}, !.isr = {}]
  BY <1>1 DEF IsPic, PicParts, Registers
<1> QED BY <1>1, <1>6, <1>7 DEF IsPic, PicParts, Registers, a

LEMMA Raised ==
  ASSUME NEW chips, IsPic(chips)
  PROVE  /\ IsPic(Raise(chips, 0))
         /\ Raise(chips, 0)["master"] = [chips["master"] EXCEPT !.irr = @ \cup {0}]
         /\ Raise(chips, 0)["slave"] = chips["slave"]
<1> DEFINE m == [chips["master"] EXCEPT !.irr = @ \cup {0}]
<1>1. Raise(chips, 0) = [chips EXCEPT !["master"] = m]
  BY DEF Raise
<1>2. DOMAIN m = Registers
  BY DEF IsPic, PicParts
<1> HIDE DEF m
<1>3. /\ IsPic(Raise(chips, 0)) /\ Raise(chips, 0)["master"] = m
      /\ Raise(chips, 0)["slave"] = chips["slave"]
  BY <1>1, <1>2 DEF IsPic, PicParts
<1> QED BY <1>3 DEF m

LEMMA UnmaskedLine ==
  ASSUME NEW chips, IsPic(chips)
  PROVE  /\ IsPic(PIC_irq_unmask(chips, 0))
         /\ PIC_irq_unmask(chips, 0)["master"] = [chips["master"] EXCEPT !.imr = @ \ {0}]
         /\ PIC_irq_unmask(chips, 0)["slave"] = chips["slave"]
<1> DEFINE m == [chips["master"] EXCEPT !.imr = @ \ {0}]
<1>0. 0 < 8 /\ 0 % 8 = 0 /\ Chip(MASTER_PIC_DATA) = "master"
  BY DEF Chip, MASTER_PIC_DATA
<1>1. PIC_irq_unmask(chips, 0) = [chips EXCEPT !["master"] = m]
  BY <1>0 DEF PIC_irq_unmask
<1>2. DOMAIN m = Registers
  BY DEF IsPic, PicParts
<1> HIDE DEF m
<1>3. /\ IsPic(PIC_irq_unmask(chips, 0)) /\ PIC_irq_unmask(chips, 0)["master"] = m
      /\ PIC_irq_unmask(chips, 0)["slave"] = chips["slave"]
  BY <1>1, <1>2 DEF IsPic, PicParts
<1> QED BY <1>3 DEF m

-----------------------------------------------------------------------------
(* The descriptors (GDT.c).                                                *)

\* The pieces of a base of 32 bits put it together again.
LEMMA BaseInPieces ==
  ASSUME NEW base \in Nat, base \div 2^24 < 256, NEW limit, NEW access, NEW flags
  PROVE  BaseOf(GDT_ENTRY(base, limit, access, flags)) = base
<1> DEFINE lo == base % 65536
           mid == (base \div 65536) % 256
           hi == (base \div 16777216) % 256
<1>1. BaseOf(GDT_ENTRY(base, limit, access, flags)) = lo + mid * 65536 + hi * 16777216
  BY DEF BaseOf, GDT_ENTRY
<1>2. base \div 16777216 < 256
  OBVIOUS
<1>3. lo + mid * 65536 + hi * 16777216 = base
  BY <1>2
<1> QED BY <1>1, <1>3

LEMMA KernelSegments ==
  /\ BaseOf(gdt_entries[2]) = 0
  /\ TypeOf(gdt_entries[2]) \div 8 = 3 /\ TypeOf(gdt_entries[3]) \div 8 = 2
<1>1. BaseOf(gdt_entries[2]) = 0
  BY BaseInPieces DEF gdt_entries
<1>2. gdt_entries[2].access_byte = 154 /\ gdt_entries[3].access_byte = 146
  BY DEF gdt_entries, GDT_ENTRY, GDT_PRESENT_ENTRY, GDT_CODE_SEGMENT, GDT_DATA_SEGMENT, GDT_ALLOW
<1> QED BY <1>1, <1>2 DEF TypeOf

TssEntry == GDT_ENTRY(TssAddress, TSS_SIZE - 1, GDT_PRESENT_ENTRY + GDT_32BIT_TSS, 0)

LEMMA TaskSegment ==
  /\ BaseOf(TssEntry) = TssAddress /\ LimitOf(TssEntry) >= TSS_SIZE - 1
  /\ Present(TssEntry) /\ TypeOf(TssEntry) = GDT_32BIT_TSS
<1>1. BaseOf(TssEntry) = TssAddress
  BY BaseInPieces, TssAssumption DEF TssEntry
<1>2. TssEntry.access_byte = 137 /\ TssEntry.limit_low = 103 /\ TssEntry.flags_limit_high = 0
  BY DEF TssEntry, GDT_ENTRY, GDT_PRESENT_ENTRY, GDT_32BIT_TSS, TSS_SIZE
<1> QED BY <1>1, <1>2 DEF LimitOf, Present, TypeOf, TSS_SIZE, GDT_32BIT_TSS

-----------------------------------------------------------------------------
(* The timer's line.                                                       *)

Early == {"cpu", "tss", "console", "memory", "timer", "unmask", "register"}
Late == {"multitasking", "tty1", "handoff", "threads"}

Gates == {REMAP_PIC_OFFSET + l : l \in IrqLines}

\* The lines the master masks, at each place of start.
Masked(place) == IF place \in {"tss", "console", "memory", "timer", "unmask"} THEN 0..7 ELSE 1..7

\* The processor tables and the controllers from initialize_i686 on.
TablesInv(place) ==
  /\ closed = {128} /\ DOMAIN isrHandlers = Gates
  /\ pic["master"].init = 0 /\ pic["master"].imr = Masked(place)
  /\ pic["master"].base = REMAP_PIC_OFFSET /\ pic["slave"].base = REMAP_PIC_OFFSET + 8
  /\ pic["master"].mode86 /\ pic["slave"].mode86
  /\ segments.cs = 8 /\ segments.ds = 16
  /\ gdt[2] = gdt_entries[2] /\ gdt[3] = gdt_entries[3]
  /\ place # "tss" => segments.tr = TSS_SELECTOR /\ gdt[4] = TssEntry

\* Only the timer's line is ever requested of the master; while it is unmasked
\* and has no handler interrupts are off.
StartInv ==
  /\ k_at \in Early \cup Late
  /\ timer.unhandled = FALSE /\ DOMAIN timer = {"callback", "served", "unhandled"}
  /\ IsPic(pic) /\ pic["master"].irr \subseteq {0}
  /\ pic["master"].isr = {} /\ pic["slave"].isr = {}
  /\ DOMAIN gdt = 1..7 /\ DOMAIN segments = {"cs", "ds", "tr"}
  /\ DOMAIN irq_handlers = IF k_at \in Early THEN {} ELSE {0}
  /\ k_at \in Late => irq_handlers[0] = "_timer_interrupt"
  /\ k_at \in {"cpu", "unmask", "register"} => interrupts = FALSE
  /\ k_at = "cpu" => DOMAIN isrHandlers = {} /\ gdt = gdt_entries
  /\ k_at # "cpu" => TablesInv(k_at)

LEMMA StartInitially == StartInit => StartInv
<1> SUFFICES ASSUME StartInit PROVE StartInv
  OBVIOUS
<1>1. k_at = "cpu" /\ IrqInit({0})
  BY DEF StartInit
<1>2. DOMAIN gdt_entries = 1..7
  BY DEF gdt_entries
<1>3. /\ IsPic(pic) /\ pic["master"].irr = {} /\ pic["master"].isr = {} /\ pic["slave"].isr = {}
  BY <1>1 DEF IrqInit, BiosPic, IsPic, PicParts, Registers
<1>4. DOMAIN timer = {"callback", "served", "unhandled"} /\ timer.unhandled = FALSE
  BY <1>1 DEF IrqInit, g_timer_ctx
<1> QED BY <1>1, <1>2, <1>3, <1>4 DEF StartInv, IrqInit, Early, Late

LEMMA StartHandled == StartInv => StartInterruptsHandled
<1> SUFFICES ASSUME StartInv PROVE StartInterruptsHandled
  OBVIOUS
<1>1. ~timer.unhandled /\ pic["master"].isr = {} /\ pic["slave"].isr = {}
  BY DEF StartInv
<1>2. ASSUME interrupts, NEW l \in 0..7 \ pic["master"].imr
      PROVE  l \in DOMAIN irq_handlers /\ REMAP_PIC_OFFSET + l \in DOMAIN isrHandlers \ closed
  <2>1. k_at \notin {"cpu", "unmask", "register"} /\ TablesInv(k_at)
    BY <1>2 DEF StartInv
  <2>2. l = 0 /\ k_at \notin {"tss", "console", "memory", "timer"}
    BY <2>1 DEF TablesInv, Masked
  <2>3. k_at \notin Early
    BY <2>1, <2>2 DEF Early
  <2>4. 0 \in DOMAIN irq_handlers
    BY <2>3 DEF StartInv
  <2>5. 32 \in Gates
    BY DEF Gates, IrqLines, REMAP_PIC_OFFSET
  <2> QED BY <2>1, <2>2, <2>4, <2>5 DEF TablesInv, REMAP_PIC_OFFSET
<1>3. ASSUME k_at # "cpu"
      PROVE  /\ pic["master"].base = REMAP_PIC_OFFSET /\ pic["slave"].base = REMAP_PIC_OFFSET + 8
             /\ pic["master"].mode86 /\ pic["slave"].mode86
             /\ TypeOf(EntryAt(segments.cs)) \div 8 = 3 /\ TypeOf(EntryAt(segments.ds)) \div 8 = 2
             /\ BaseOf(EntryAt(segments.cs)) = 0
  <2>1. TablesInv(k_at)
    BY <1>3 DEF StartInv
  <2>2. EntryAt(segments.cs) = gdt_entries[2] /\ EntryAt(segments.ds) = gdt_entries[3]
    BY <2>1 DEF TablesInv, EntryAt
  <2> QED BY <2>1, <2>2, KernelSegments DEF TablesInv
<1>4. ASSUME k_at \notin {"cpu", "tss"}
      PROVE  LET e == EntryAt(TSS_SELECTOR) IN
             /\ segments.tr = TSS_SELECTOR
             /\ Present(e) /\ TypeOf(e) = GDT_32BIT_TSS
             /\ BaseOf(e) = TssAddress /\ LimitOf(e) >= TSS_SIZE - 1
  <2>1. segments.tr = TSS_SELECTOR /\ gdt[4] = TssEntry
    BY <1>4 DEF StartInv, TablesInv
  <2>2. EntryAt(TSS_SELECTOR) = TssEntry
    BY <2>1 DEF EntryAt, TSS_SELECTOR
  <2> QED BY <2>1, <2>2, TaskSegment
<1> QED BY <1>1, <1>2, <1>3, <1>4 DEF StartInterruptsHandled

\* A step that moves start on and leaves the tables, the controllers, the timer
\* and the interrupts alone.
LEMMA StartGoesOn ==
  ASSUME StartInv, UNCHANGED irqVars, k_at # "cpu",
         k_at' \in (Early \cup Late) \ {"cpu", "tss", "unmask", "register"},
         k_at \in Early <=> k_at' \in Early, k_at # "tss", Masked(k_at') = Masked(k_at)
  PROVE  StartInv'
<1>1. TablesInv(k_at)
  BY DEF StartInv
<1>2. TablesInv(k_at)'
  BY <1>1 DEF TablesInv, irqVars
<1>3. k_at \in Late <=> k_at' \in Late
  BY DEF StartInv, Early, Late
<1> QED BY <1>2, <1>3 DEF StartInv, irqVars

LEMMA StartStays == StartInv /\ UNCHANGED <<irqVars, k_at>> => StartInv'
BY DEF StartInv, TablesInv, irqVars

LEMMA PanicsStay ==
  ASSUME StartInv, KernelPanic, k_at' = k_at
  PROVE  StartInv'
BY DEF StartInv, TablesInv, KernelPanic

LEMMA CpuReady ==
  ASSUME StartInv, BootCpu
  PROVE  StartInv'
<1>1. /\ k_at = "cpu" /\ k_at' = "tss" /\ pic' = init_pic(pic) /\ closed' = {128}
      /\ segments' = i686_init_gdt /\ UNCHANGED <<gdt, irq_handlers, timer>>
      /\ isrHandlers' = i686_set_isr(isrHandlers, Gates, "_default_irq_handler")
  BY DEF BootCpu, BootRuns, BootGoes, InitializeCpu, i686_init_isr, Gates
<1>2. /\ DOMAIN pic' = PicParts
      /\ Waits(pic'["master"], 0, REMAP_PIC_OFFSET) /\ pic'["master"].imr = 0..7
      /\ Waits(pic'["slave"], 0, REMAP_PIC_OFFSET + 8)
      /\ pic'["master"].mode86 /\ pic'["slave"].mode86
  BY <1>1, Programmed DEF StartInv
<1>3. IsPic(pic)' /\ pic'["master"].irr = {} /\ pic'["master"].isr = {} /\ pic'["slave"].isr = {}
  BY <1>2 DEF Waits, IsPic, PicParts
<1>4. DOMAIN isrHandlers' = Gates
  BY <1>1 DEF i686_set_isr, StartInv
<1>5. /\ segments'.cs = 8 /\ segments'.ds = 16 /\ DOMAIN segments' = {"cs", "ds", "tr"}
  BY <1>1 DEF i686_init_gdt, i686_GDT_CODE_SEGMENT, i686_GDT_DATA_SEGMENT
<1>6. TablesInv(k_at)'
  BY <1>1, <1>2, <1>4, <1>5 DEF TablesInv, Waits, Masked, StartInv
<1> QED BY <1>1, <1>3, <1>5, <1>6 DEF StartInv, Early, Late

LEMMA TssAdded ==
  ASSUME StartInv, BootTss
  PROVE  StartInv'
<1>1. /\ k_at = "tss" /\ k_at' = "console" /\ AddTss(3)
      /\ UNCHANGED <<closed, isrHandlers, irq_handlers, pic, interrupts, timer>>
  BY DEF BootTss, BootRuns, BootGoes
<1>2. /\ gdt' = [gdt EXCEPT ![4] = TssEntry]
      /\ segments' = [segments EXCEPT !.tr = 24]
  BY <1>1 DEF AddTss, TssEntry
<1>3. /\ DOMAIN gdt' = 1..7 /\ gdt'[2] = gdt[2] /\ gdt'[3] = gdt[3] /\ gdt'[4] = TssEntry
      /\ DOMAIN segments' = {"cs", "ds", "tr"} /\ segments'.tr = 24
      /\ segments'.cs = segments.cs /\ segments'.ds = segments.ds
  BY <1>2 DEF StartInv
<1>4. TablesInv(k_at)
  BY <1>1 DEF StartInv
<1>5. TablesInv(k_at)'
  BY <1>1, <1>3, <1>4 DEF TablesInv, Masked, TSS_SELECTOR
<1> QED BY <1>1, <1>3, <1>5 DEF StartInv, Early, Late

LEMMA TimerSetUp ==
  ASSUME StartInv, BootTimer
  PROVE  StartInv'
<1>1. CASE BootRuns("timer") /\ TimerOff /\ BootGoes("unmask")
  <2>1. /\ k_at = "timer" /\ k_at' = "unmask" /\ interrupts' = FALSE
        /\ timer' = [timer EXCEPT !.callback = "null"]
        /\ UNCHANGED <<gdt, segments, closed, isrHandlers, irq_handlers, pic>>
    BY <1>1 DEF BootRuns, BootGoes, TimerOff
  <2>2. timer'.unhandled = FALSE /\ DOMAIN timer' = {"callback", "served", "unhandled"}
    BY <2>1 DEF StartInv
  <2>3. TablesInv(k_at)'
    BY <2>1 DEF StartInv, TablesInv, Masked
  <2> QED BY <2>1, <2>2, <2>3 DEF StartInv, Early, Late
<1>2. CASE BootRuns("unmask") /\ TimerUnmask /\ BootGoes("register")
  <2>1. /\ k_at = "unmask" /\ k_at' = "register" /\ pic' = PIC_irq_unmask(pic, 0)
        /\ UNCHANGED <<gdt, segments, closed, isrHandlers, irq_handlers, interrupts, timer>>
    BY <1>2 DEF BootRuns, BootGoes, TimerUnmask
  <2>2. /\ IsPic(pic)' /\ pic'["master"] = [pic["master"] EXCEPT !.imr = @ \ {0}]
        /\ pic'["slave"] = pic["slave"]
    BY <2>1, UnmaskedLine DEF StartInv
  <2>3. /\ pic'["master"].imr = 0..7 \ {0} /\ pic'["master"].init = 0
        /\ pic'["master"].base = REMAP_PIC_OFFSET /\ pic'["master"].mode86
        /\ pic'["master"].irr = pic["master"].irr /\ pic'["master"].isr = {}
    BY <2>1, <2>2 DEF StartInv, TablesInv, Masked, IsPic, PicParts, Registers
  <2>4. 0..7 \ {0} = 1..7
    OBVIOUS
  <2>5. TablesInv(k_at)'
    BY <2>1, <2>2, <2>3, <2>4 DEF StartInv, TablesInv, Masked
  <2> QED BY <2>1, <2>2, <2>3, <2>5 DEF StartInv, Early, Late
<1>3. CASE BootRuns("register") /\ TimerOn /\ BootGoes("multitasking")
  <2>1. /\ k_at = "register" /\ k_at' = "multitasking"
        /\ irq_handlers' = IRQ_registerHandler(irq_handlers, 0, "_timer_interrupt")
        /\ UNCHANGED <<gdt, segments, closed, isrHandlers, pic, timer>>
    BY <1>3 DEF BootRuns, BootGoes, TimerOn
  <2>2. DOMAIN irq_handlers' = {0} /\ irq_handlers'[0] = "_timer_interrupt"
    BY <2>1 DEF IRQ_registerHandler, IrqLines, StartInv, Early
  <2>3. TablesInv(k_at)'
    BY <2>1 DEF StartInv, TablesInv, Masked
  <2> QED BY <2>1, <2>2, <2>3 DEF StartInv, Early, Late
<1> QED BY <1>1, <1>2, <1>3 DEF BootTimer

LEMMA BootThreadStarts ==
  ASSUME StartInv, BootThread
  PROVE  StartInv'
<1>1. CASE BootConsole
  <2>1. k_at = "console" /\ k_at' = "memory" /\ UNCHANGED irqVars
    BY <1>1 DEF BootConsole, BootRuns, BootGoes
  <2> QED BY <2>1, StartGoesOn DEF Early, Late, Masked
<1>2. CASE BootMemory
  <2>1. k_at = "memory"
    BY <1>2 DEF BootMemory, BootRuns
  <2>2. CASE k_at' = "timer" /\ UNCHANGED irqVars
    BY <2>1, <2>2, StartGoesOn DEF Early, Late, Masked
  <2>3. CASE KernelPanic /\ k_at' = k_at
    BY <2>3, PanicsStay
  <2> QED BY <1>2, <2>2, <2>3 DEF BootMemory, BootGoes
<1>3. CASE BootMultitasking
  <2>1. /\ k_at = "multitasking" /\ k_at' = "tty1"
        /\ timer' = [timer EXCEPT !.callback = "kmt_preemptive_intr_handler"]
        /\ UNCHANGED <<gdt, segments, closed, isrHandlers, irq_handlers, pic, interrupts>>
    BY <1>3 DEF BootMultitasking, BootRuns, BootGoes, timer_setup_callback
  <2>2. timer'.unhandled = FALSE /\ DOMAIN timer' = {"callback", "served", "unhandled"}
    BY <2>1 DEF StartInv
  <2>3. TablesInv(k_at)'
    BY <2>1 DEF StartInv, TablesInv, Masked
  <2> QED BY <2>1, <2>2, <2>3 DEF StartInv, Early, Late
<1>4. CASE BootTty1
  <2>1. k_at = "tty1" /\ k_at' = "handoff" /\ UNCHANGED irqVars
    BY <1>4 DEF BootTty1, BootRuns, BootGoes
  <2> QED BY <2>1, StartGoesOn DEF Early, Late, Masked
<1>5. CASE BootHandoff
  <2>1. k_at = "handoff" /\ k_at' = "threads" /\ UNCHANGED irqVars
    BY <1>5 DEF BootHandoff, BootRuns
  <2> QED BY <2>1, StartGoesOn DEF Early, Late, Masked
<1> QED BY <1>1, <1>2, <1>3, <1>4, <1>5, CpuReady, TssAdded, TimerSetUp DEF BootThread

\* The only interrupt is the timer's, and it finds its handler.
LEMMA TimerTaken ==
  ASSUME StartInv, TakeInterrupt
  PROVE  StartInv'
<1>0. /\ k_at' = k_at /\ interrupts /\ k_at # "cpu" /\ TablesInv(k_at)
  BY DEF TakeInterrupt, StartInv
<1>1. PICK l \in Requests(pic) :
        /\ Pending(pic, l)
        /\ IF Handled(l) THEN Serve(l) /\ UNCHANGED kpanic ELSE KernelPanic
  BY DEF TakeInterrupt
<1>2. CASE KernelPanic
  BY <1>0, <1>2, PanicsStay
<1>3. CASE Serve(l)
  <2>1. l \notin pic["master"].imr /\ l \in {0, 2}
    BY DEF Requests, StartInv
  <2>2. l = 0 /\ k_at \notin {"tss", "console", "memory", "timer", "unmask"}
    BY <1>0, <2>1 DEF TablesInv, Masked
  <2>3. k_at \in Late
    BY <1>0, <2>2 DEF StartInv, Early
  <2>4. VectorOf(pic, l) - REMAP_PIC_OFFSET = 0
    BY <1>0, <2>2 DEF VectorOf, TablesInv, REMAP_PIC_OFFSET
  <2>5. 0 \in DOMAIN irq_handlers /\ irq_handlers[0] = "_timer_interrupt"
    BY <2>3 DEF StartInv, Early, Late
  <2>6. /\ pic' = PIC_EOI(Acknowledged(pic, 0), 0) /\ timer' = [timer EXCEPT !.served = TRUE]
        /\ UNCHANGED <<gdt, segments, closed, isrHandlers, irq_handlers, interrupts>>
    BY <1>3, <2>2, <2>4, <2>5 DEF Serve, _timer_interrupt
  <2>7. /\ IsPic(pic)' /\ pic'["master"] = [pic["master"] EXCEPT !.irr = @ \ {0}, !.isr = {}]
        /\ pic'["slave"] = pic["slave"]
    BY <2>6, TakenAndEnded DEF StartInv
  <2>8. /\ pic'["master"].irr = pic["master"].irr \ {0} /\ pic'["master"].isr = {}
        /\ pic'["master"].imr = pic["master"].imr /\ pic'["master"].init = pic["master"].init
        /\ pic'["master"].base = pic["master"].base /\ pic'["master"].mode86 = pic["master"].mode86
    BY <2>7 DEF StartInv, IsPic, PicParts, Registers
  <2>9. timer'.unhandled = FALSE /\ DOMAIN timer' = {"callback", "served", "unhandled"}
    BY <2>6 DEF StartInv
  <2>10. TablesInv(k_at)'
    BY <1>0, <2>6, <2>7, <2>8 DEF TablesInv
  <2> QED BY <1>0, <2>6, <2>7, <2>8, <2>9, <2>10 DEF StartInv
<1> QED BY <1>1, <1>2, <1>3

LEMMA TimerAsks ==
  ASSUME StartInv, TimerRequest
  PROVE  StartInv'
<1>1. /\ pic' = Raise(pic, 0) /\ k_at' = k_at
      /\ UNCHANGED <<gdt, segments, closed, isrHandlers, irq_handlers, interrupts, timer>>
  BY DEF TimerRequest, Request
<1>2. /\ IsPic(pic)' /\ pic'["master"] = [pic["master"] EXCEPT !.irr = @ \cup {0}]
      /\ pic'["slave"] = pic["slave"]
  BY <1>1, Raised DEF StartInv
<1>3. /\ pic'["master"].irr = pic["master"].irr \cup {0} /\ pic'["master"].isr = pic["master"].isr
      /\ pic'["master"].imr = pic["master"].imr /\ pic'["master"].init = pic["master"].init
      /\ pic'["master"].base = pic["master"].base /\ pic'["master"].mode86 = pic["master"].mode86
  BY <1>2 DEF StartInv, IsPic, PicParts, Registers
<1>4. TablesInv(k_at) => TablesInv(k_at)'
  BY <1>1, <1>2, <1>3 DEF TablesInv
<1> QED BY <1>1, <1>2, <1>3, <1>4 DEF StartInv

LEMMA StartStep == StartInv /\ (StartNext \/ UNCHANGED startVars) => StartInv'
<1> SUFFICES ASSUME StartInv, StartNext \/ UNCHANGED startVars PROVE StartInv'
  OBVIOUS
<1>1. CASE UNCHANGED startVars
  BY <1>1, StartStays DEF startVars
<1>2. CASE ThreadPrints
  BY <1>2, StartStays DEF ThreadPrints
<1>3. CASE ThreadUnlockPanics
  BY <1>3, PanicsStay DEF ThreadUnlockPanics
<1>4. CASE Exception
  BY <1>4, PanicsStay DEF Exception
<1>5. CASE PanicStep
  BY <1>5, StartStays DEF PanicStep
<1> QED BY <1>1, <1>2, <1>3, <1>4, <1>5, BootThreadStarts, TimerTaken, TimerAsks DEF StartNext

\* Every interrupt that comes while start runs is the timer's, finds its gate and
\* its handler and is over when the handler is; and the descriptors the segment
\* and task registers select are the kernel's, wherever g_tss lies.
THEOREM StartIsInterruptible == ChainSpec => []StartInterruptsHandled
<1>1. ChainInit => StartInv
  BY StartInitially DEF ChainInit
<1>2. ChainNext \/ UNCHANGED chainVars => StartNext \/ UNCHANGED startVars
  BY DEF ChainNext, LoaderStep, KernelStep, Over, chainVars
<1>3. StartInv /\ [ChainNext]_chainVars => StartInv'
  BY <1>2, StartStep
<1> QED BY <1>1, <1>3, StartHandled, PTL DEF ChainSpec

-----------------------------------------------------------------------------
(* What the kernel prints.                                                *)

-----------------------------------------------------------------------------
(* Printing.  What the code does for each character of a text is a function *)
(* of the characters before it.                                             *)

\* f is the result after each element of s, beginning with e.
RunOf(f, s, e, step) ==
  f[0] = e /\ \A i \in 1 .. Len(s) : f[i] = step[<<s[i], f[i - 1]>>]

\* A fold over a sequence, step by step from e, has a value at every position.
LEMMA RunExists ==
  ASSUME NEW X, NEW S, NEW e \in S, NEW step \in [X \X S -> S], NEW s \in Seq(X)
  PROVE  \E f \in [0 .. Len(s) -> S] : RunOf(f, s, e, step)
<1> DEFINE P(f, n) == f[0] = e /\ \A i \in 1 .. n : f[i] = step[<<s[i], f[i - 1]>>]
           T == {n \in Nat : n <= Len(s) => \E f \in [0 .. n -> S] : P(f, n)}
<1>0. Len(s) \in Nat
  OBVIOUS
<1>1. 0 \in T
  <2> DEFINE f == [i \in 0 .. 0 |-> e]
  <2>1. f \in [0 .. 0 -> S] /\ P(f, 0)
    OBVIOUS
  <2> QED BY <2>1
<1>2. ASSUME NEW n \in Nat, n \in T PROVE n + 1 \in T
  <2> SUFFICES ASSUME n + 1 <= Len(s) PROVE \E f \in [0 .. n + 1 -> S] : P(f, n + 1)
    OBVIOUS
  <2>1. PICK f \in [0 .. n -> S] : P(f, n)
    BY <1>0, <1>2
  <2> DEFINE g == [i \in 0 .. n + 1 |-> IF i <= n THEN f[i] ELSE step[<<s[n + 1], f[n]>>]]
  <2>2. s[n + 1] \in X /\ f[n] \in S
    BY <1>0
  <2>3. step[<<s[n + 1], f[n]>>] \in S
    BY <2>2
  <2>4. g \in [0 .. n + 1 -> S]
    BY <2>3
  <2>5. \A i \in 0 .. n : g[i] = f[i]
    OBVIOUS
  <2>6. g[n + 1] = step[<<s[n + 1], f[n]>>]
    <3>1. ~(n + 1 <= n) /\ n + 1 \in 0 .. n + 1
      OBVIOUS
    <3> QED BY <3>1
  <2> HIDE DEF g
  <2>7. g[0] = e
    BY <2>1, <2>5
  <2>8. ASSUME NEW i \in 1 .. n + 1 PROVE g[i] = step[<<s[i], g[i - 1]>>]
    <3>1. CASE i = n + 1
      BY <2>5, <2>6, <3>1
    <3>2. CASE i # n + 1
      <4>1. i \in 1 .. n /\ i \in 0 .. n /\ i - 1 \in 0 .. n
        BY <3>2
      <4> QED BY <2>1, <2>5, <4>1
    <3> QED BY <3>1, <3>2
  <2> QED BY <2>4, <2>7, <2>8
<1>3. Nat \subseteq T
  <2> HIDE DEF T
  <2> QED BY <1>1, <1>2, Induct
<1>4. \E f \in [0 .. Len(s) -> S] : P(f, Len(s))
  BY <1>0, <1>3
<1> QED BY <1>4 DEF RunOf

-----------------------------------------------------------------------------
(* The screen.                                                             *)

Colours == 0 .. 15

\* A character of a text; none moves back.  Who writes it.
Chars == {"B", "s", "m", "K", "M", "I", "i", "S", "a", "b", "c", "P", "p", "d", "e", "k", "!", "?",
          "newline", "tab"}
Writers == {"kidle", "syscore", "pcihub", "boot", "panic", "junk"}
Glyph == [ch : Chars, want : Colours, rec : Writers \X Nat]
Shown == Glyph \cup {Space}
ScreenCell == [glyph : Shown \cup {None}, color : Nat]
Vga == [screen : [Rows -> [Columns -> ScreenCell]], screenX : Columns, screenY : Rows,
        currentColor : Nat, shown : Seq(Shown)]

\* Lines of text, the last one being written.
SomeLines == {lines \in Seq(Seq(Shown)) : lines # << >>}

\* The glyph of a line, the lines that have left the screen, the cells that show
\* what follows them.
GlyphAt(lines, i, j) == IF i \in DOMAIN lines /\ j \in DOMAIN lines[i] THEN lines[i][j] ELSE None
Above(lines) == IF Len(lines) > SCREEN_HEIGHT THEN Len(lines) - SCREEN_HEIGHT ELSE 0
CellsShow(cells, lines) ==
  \A y \in Rows, x \in Columns : cells[y][x].glyph = GlyphAt(lines, Above(lines) + y + 1, x + 1)

ShowsLines(v, lines) ==
  /\ v.screenY = Len(lines) - Above(lines) - 1
  /\ v.screenX = Len(Last(lines))
  /\ CellsShow(v.screen, lines)

\* The screen after a character in row v.screenY, column v.screenX.
Scrolled(v, cells) ==
  [y \in Rows |-> IF y < SCREEN_HEIGHT - 1 THEN cells[y + 1] ELSE [x \in Columns |-> Blank(v)]]

\* The three ways a line can go on.
Advances(v, u, cells, x) ==
  \/ /\ x < SCREEN_WIDTH
     /\ u.screenX = x /\ u.screenY = v.screenY /\ u.screen = cells
  \/ /\ x = SCREEN_WIDTH /\ v.screenY + 1 < SCREEN_HEIGHT
     /\ u.screenX = 0 /\ u.screenY = v.screenY + 1 /\ u.screen = cells
  \/ /\ x = SCREEN_WIDTH /\ v.screenY + 1 = SCREEN_HEIGHT
     /\ u.screenX = 0 /\ u.screenY = v.screenY /\ u.screen = Scrolled(v, cells)

\* A blank cell is a cell, and shows nothing.
LEMMA BlankCell == ASSUME NEW v \in Vga PROVE Blank(v) \in ScreenCell /\ Blank(v).glyph = None
BY DEF Blank, ScreenCell, Vga

\* Writing a character changes the cell under the cursor and no other.
LEMMA CellsAfter ==
  ASSUME NEW v \in Vga, NEW g \in Shown
  PROVE  LET c == Cell(v, g) IN
         /\ c \in [Rows -> [Columns -> ScreenCell]]
         /\ c[v.screenY][v.screenX] = [glyph |-> g, color |-> v.currentColor]
         /\ \A y \in Rows, x \in Columns :
              (y # v.screenY \/ x # v.screenX) => c[y][x] = v.screen[y][x]
<1>1. v.screenY \in Rows /\ v.screenX \in Columns /\ v.currentColor \in Nat
      /\ v.screen \in [Rows -> [Columns -> ScreenCell]]
  BY DEF Vga
<1>2. [glyph |-> g, color |-> v.currentColor] \in ScreenCell
  BY <1>1 DEF ScreenCell
<1>3. Cell(v, g) = [v.screen EXCEPT ![v.screenY] =
                      [v.screen[v.screenY] EXCEPT ![v.screenX] =
                         [glyph |-> g, color |-> v.currentColor]]]
  BY <1>1 DEF Cell
<1> DEFINE cell == [glyph |-> g, color |-> v.currentColor]
           row == [v.screen[v.screenY] EXCEPT ![v.screenX] = cell]
<1> HIDE DEF cell
<1>4. cell \in ScreenCell
  BY <1>2 DEF cell
<1>5. row \in [Columns -> ScreenCell] /\ row[v.screenX] = cell
      /\ \A x \in Columns : x # v.screenX => row[x] = v.screen[v.screenY][x]
  BY <1>1, <1>4
<1>6. Cell(v, g) = [v.screen EXCEPT ![v.screenY] = row]
  BY <1>3 DEF cell
<1> HIDE DEF row
<1>7. Cell(v, g) \in [Rows -> [Columns -> ScreenCell]]
  BY <1>1, <1>5, <1>6
<1>8. Cell(v, g)[v.screenY] = row /\ \A y \in Rows : y # v.screenY => Cell(v, g)[y] = v.screen[y]
  BY <1>1, <1>5, <1>6
<1> QED BY <1>5, <1>7, <1>8 DEF cell

\* Scrolling moves every line up by one.
LEMMA ScrolledCells ==
  ASSUME NEW v \in Vga, NEW c \in [Rows -> [Columns -> ScreenCell]]
  PROVE  LET s == Scrolled(v, c) IN
         /\ s \in [Rows -> [Columns -> ScreenCell]]
         /\ \A y \in Rows : y < SCREEN_HEIGHT - 1 => y + 1 \in Rows /\ s[y] = c[y + 1]
         /\ \A x \in Columns : s[SCREEN_HEIGHT - 1][x] = Blank(v)
<1>1. \A y \in Rows : y < SCREEN_HEIGHT - 1 => y + 1 \in Rows
  BY ScreenAssumption DEF Rows
<1>2. SCREEN_HEIGHT - 1 \in Rows /\ ~(SCREEN_HEIGHT - 1 < SCREEN_HEIGHT - 1)
  BY ScreenAssumption DEF Rows
<1>3. [x \in Columns |-> Blank(v)] \in [Columns -> ScreenCell]
  BY BlankCell
<1>4. Scrolled(v, c) \in [Rows -> [Columns -> ScreenCell]]
  BY <1>1, <1>3 DEF Scrolled
<1> QED BY <1>1, <1>2, <1>4 DEF Scrolled

\* The end of vgatxt_putc, for a screen whose column has gone on to x.
LEMMA LimitsIs ==
  ASSUME NEW v \in Vga, NEW c \in [Rows -> [Columns -> ScreenCell]], NEW h \in Seq(Shown),
         NEW x \in 1 .. SCREEN_WIDTH
  PROVE  LET u == Limits([v EXCEPT !.screen = c, !.screenX = x, !.shown = h]) IN
         /\ u \in Vga /\ u.shown = h /\ u.currentColor = v.currentColor
         /\ Advances(v, u, c, x)
<1> DEFINE m == [v EXCEPT !.screen = c, !.screenX = x, !.shown = h]
           n == NextLine(m)
           u == Limits(m)
<1> SUFFICES /\ u \in Vga /\ u.shown = h /\ u.currentColor = v.currentColor
             /\ Advances(v, u, c, x)
  OBVIOUS
<1>0. /\ SCREEN_WIDTH \in Nat \ {0} /\ SCREEN_HEIGHT \in Nat \ {0}
      /\ v.screenY \in Nat /\ v.screenY < SCREEN_HEIGHT /\ v.currentColor \in Nat
  BY ScreenAssumption DEF Vga, Rows
<1>1. /\ DOMAIN m = {"screen", "screenX", "screenY", "currentColor", "shown"}
      /\ m.screen = c /\ m.screenX = x /\ m.screenY = v.screenY
      /\ m.currentColor = v.currentColor /\ m.shown = h
  BY DEF Vga
<1> HIDE DEF m
<1>2. CASE x < SCREEN_WIDTH
  <2>1. n = m
    BY <1>0, <1>1, <1>2 DEF NextLine
  <2>2. u = m
    BY <1>0, <1>1, <2>1 DEF Limits
  <2>3. m \in Vga
    <3>1. m = [v EXCEPT !.screen = c, !.screenX = x, !.shown = h] /\ x \in Columns
      BY <1>0, <1>2 DEF m, Columns
    <3> QED BY <3>1 DEF Vga
  <2> QED BY <1>1, <1>2, <2>2, <2>3 DEF Advances
<1>3. CASE x = SCREEN_WIDTH
  <2>1. n = [m EXCEPT !.screenX = 0, !.screenY = @ + 1]
    BY <1>0, <1>1, <1>3 DEF NextLine
  <2> HIDE DEF n
  <2>2. /\ DOMAIN n = {"screen", "screenX", "screenY", "currentColor", "shown"}
        /\ n.screen = c /\ n.screenX = 0 /\ n.screenY = v.screenY + 1
        /\ n.currentColor = v.currentColor /\ n.shown = h
    BY <1>1, <2>1
  <2>3. 0 \in Columns
    BY <1>0 DEF Columns
  <2>4. CASE v.screenY + 1 < SCREEN_HEIGHT
    <3>1. u = n
      BY <1>0, <2>2, <2>4 DEF Limits, n
    <3>2. n = [v EXCEPT !.screen = c, !.screenX = 0, !.screenY = v.screenY + 1, !.shown = h]
      BY <2>1 DEF m, Vga
    <3>3. v.screenY + 1 \in Rows
      BY <1>0, <2>4 DEF Rows
    <3>4. n \in Vga
      BY <2>3, <3>2, <3>3 DEF Vga
    <3> QED BY <1>3, <2>2, <2>4, <3>1, <3>4 DEF Advances
  <2>5. CASE v.screenY + 1 = SCREEN_HEIGHT
    <3> DEFINE k == [n EXCEPT !.screenY = SCREEN_HEIGHT - 1]
    <3>1. u = vgatxt_scroll_up(k, 1)
      BY <1>0, <2>2, <2>5 DEF Limits, n
    <3>2. /\ DOMAIN k = {"screen", "screenX", "screenY", "currentColor", "shown"}
          /\ k.screen = c /\ k.screenX = 0 /\ k.screenY = v.screenY
          /\ k.currentColor = v.currentColor /\ k.shown = h
      BY <1>0, <2>2, <2>5
    <3> HIDE DEF k
    <3>3. Blank(k) = Blank(v)
      BY <3>2 DEF Blank
    <3>4. u = [k EXCEPT !.screen = Scrolled(v, c)]
      BY <3>1, <3>2, <3>3 DEF vgatxt_scroll_up, Scrolled
    <3> HIDE DEF u
    <3>5. /\ DOMAIN u = {"screen", "screenX", "screenY", "currentColor", "shown"}
          /\ u.screen = Scrolled(v, c) /\ u.screenX = 0 /\ u.screenY = v.screenY
          /\ u.currentColor = v.currentColor /\ u.shown = h
      BY <3>2, <3>4
    <3>6. u = [v EXCEPT !.screen = Scrolled(v, c), !.screenX = 0,
                        !.screenY = SCREEN_HEIGHT - 1, !.shown = h]
      BY <2>1, <3>4 DEF m, k, Vga
    <3>8. SCREEN_HEIGHT - 1 \in Rows
      BY <1>0 DEF Rows
    <3>7. u \in Vga
      BY <2>3, <3>6, <3>8, ScrolledCells DEF Vga
    <3> QED BY <1>3, <2>5, <3>5, <3>7 DEF Advances
  <2> QED BY <1>0, <2>4, <2>5
<1> QED BY <1>0, <1>2, <1>3

\* A newline goes to the next line like a character in the last column.
LEMMA NewLineIs ==
  ASSUME NEW v \in Vga, NEW h \in Seq(Shown)
  PROVE  LET u == Limits([v EXCEPT !.screenX = 0, !.screenY = @ + 1, !.shown = h]) IN
         /\ u \in Vga /\ u.shown = h /\ u.currentColor = v.currentColor
         /\ Advances(v, u, v.screen, SCREEN_WIDTH)
<1> DEFINE l == [v EXCEPT !.screenX = 0, !.screenY = @ + 1, !.shown = h]
           m == [v EXCEPT !.screen = v.screen, !.screenX = SCREEN_WIDTH, !.shown = h]
<1>1. SCREEN_WIDTH \in Nat \ {0} /\ SCREEN_WIDTH \in 1 .. SCREEN_WIDTH
  BY ScreenAssumption
<1>2. l.screenX = 0 /\ m.screenX = SCREEN_WIDTH /\ m.screenY = v.screenY
  BY DEF Vga
<1>3. NextLine(l) = l
  <2> HIDE DEF l
  <2> QED BY <1>1, <1>2 DEF NextLine
<1>4. [m EXCEPT !.screenX = 0, !.screenY = @ + 1] = l
  BY DEF Vga
<1>5. NextLine(m) = l
  <2> HIDE DEF m
  <2> QED BY <1>1, <1>2, <1>4 DEF NextLine
<1>6. Limits(l) = Limits(m)
  <2> HIDE DEF l, m
  <2> QED BY <1>3, <1>5 DEF Limits
<1>7. v.screen \in [Rows -> [Columns -> ScreenCell]]
  BY DEF Vga
<1>8. LET u == Limits(m) IN
      /\ u \in Vga /\ u.shown = h /\ u.currentColor = v.currentColor
      /\ Advances(v, u, v.screen, SCREEN_WIDTH)
  BY <1>1, <1>7, LimitsIs
<1> QED BY <1>6, <1>8

\* A character ends up in its cell.
LEMMA CellShows ==
  ASSUME NEW v \in Vga, NEW g \in Shown, NEW lines \in SomeLines, ShowsLines(v, lines)
  PROVE  LET full == [lines EXCEPT ![Len(lines)] = Append(Last(lines), g)] IN
         /\ full \in SomeLines /\ Len(full) = Len(lines)
         /\ Len(Last(full)) = v.screenX + 1
         /\ CellsShow(Cell(v, g), full)
<1> DEFINE n == Len(lines)
           last == Last(lines)
           longer == Append(last, g)
           full == [lines EXCEPT ![n] = longer]
           c == Cell(v, g)
<1>1. /\ lines \in Seq(Seq(Shown)) /\ n \in Nat /\ n >= 1 /\ DOMAIN lines = 1 .. n
      /\ last = lines[n] /\ last \in Seq(Shown)
  BY DEF SomeLines, Last
<1> HIDE DEF n
<1>2. /\ full \in Seq(Seq(Shown)) /\ Len(full) = n /\ DOMAIN full = 1 .. n /\ full[n] = longer
      /\ \A i \in 1 .. n : i # n => full[i] = lines[i]
  <2>1. longer \in Seq(Shown)
    BY <1>1
  <2> QED BY <1>1, <2>1
<1> HIDE DEF last
<1>3. /\ Len(last) \in Nat /\ Len(longer) = Len(last) + 1 /\ DOMAIN last = 1 .. Len(last)
      /\ DOMAIN longer = 1 .. Len(last) + 1 /\ longer[Len(last) + 1] = g
      /\ \A j \in 1 .. Len(last) : longer[j] = last[j]
  BY <1>1
<1> HIDE DEF longer, full
<1>4. Last(full) = longer /\ full \in SomeLines /\ Above(full) = Above(lines) /\ Above(lines) \in Nat
  <2>1. Len(lines) = n
    BY DEF n
  <2>2. Last(full) = longer
    BY <1>2 DEF Last
  <2>3. full # << >>
    BY <1>1, <1>2
  <2>4. Above(full) = Above(lines) /\ Above(lines) \in Nat
    BY <1>1, <1>2, <2>1, ScreenAssumption DEF Above
  <2> QED BY <1>2, <2>2, <2>3, <2>4 DEF SomeLines
<1>5. v.screenY = n - Above(lines) - 1 /\ v.screenX = Len(last) /\ CellsShow(v.screen, lines)
  BY DEF ShowsLines, n, last
<1>6. /\ c[v.screenY][v.screenX] = [glyph |-> g, color |-> v.currentColor]
      /\ \A y \in Rows, x \in Columns :
           (y # v.screenY \/ x # v.screenX) => c[y][x] = v.screen[y][x]
  BY CellsAfter
<1> HIDE DEF c
<1>7. ASSUME NEW y \in Rows, NEW x \in Columns
      PROVE  c[y][x].glyph = GlyphAt(full, Above(full) + y + 1, x + 1)
  <2>0. y \in Int /\ x \in Nat
    BY ScreenAssumption DEF Rows, Columns
  <2> DEFINE i == Above(lines) + y + 1
  <2>1. CASE y = v.screenY /\ x = v.screenX
    <3>1. i = n /\ x + 1 = Len(last) + 1
      BY <1>1, <1>4, <1>5, <2>0, <2>1
    <3>2. c[y][x].glyph = g
      BY <1>6, <2>1
    <3>3. n \in DOMAIN full /\ x + 1 \in DOMAIN full[n] /\ full[n][x + 1] = g
      BY <1>1, <1>2, <1>3, <3>1
    <3> QED BY <1>4, <3>1, <3>2, <3>3 DEF GlyphAt
  <2>2. CASE y # v.screenY \/ x # v.screenX
    <3>1. c[y][x].glyph = GlyphAt(lines, i, x + 1)
      BY <1>5, <1>6, <2>2 DEF CellsShow
    <3>2. CASE i = n
      <4>1. x # Len(last)
        BY <1>1, <1>4, <1>5, <2>0, <2>2, <3>2
      <4>2. x + 1 \in 1 .. Len(last) <=> x + 1 \in 1 .. Len(last) + 1
        BY <1>3, <2>0, <4>1
      <4>3. GlyphAt(lines, n, x + 1) = GlyphAt(full, n, x + 1)
        BY <1>1, <1>2, <1>3, <4>2 DEF GlyphAt
      <4> QED BY <1>4, <3>1, <3>2, <4>3
    <3>3. CASE i # n
      <4>1. GlyphAt(lines, i, x + 1) = GlyphAt(full, i, x + 1)
        BY <1>1, <1>2, <3>3 DEF GlyphAt
      <4> QED BY <1>4, <3>1, <4>1
    <3> QED BY <3>2, <3>3
  <2> QED BY <2>1, <2>2
<1>8. CellsShow(c, full)
  BY <1>7 DEF CellsShow
<1>9. Len(Last(full)) = v.screenX + 1
  BY <1>3, <1>4, <1>5
<1> QED BY <1>2, <1>4, <1>8, <1>9 DEF full, longer, last, n, c

\* The screen goes to a new longer when a longer ends.
LEMMA LineEnds ==
  ASSUME NEW v \in Vga, NEW u \in Vga, NEW c \in [Rows -> [Columns -> ScreenCell]],
         NEW full \in SomeLines, CellsShow(c, full),
         v.screenY = Len(full) - Above(full) - 1,
         Advances(v, u, c, SCREEN_WIDTH)
  PROVE  ShowsLines(u, Append(full, << >>))
<1> DEFINE n == Len(full)
           next == Append(full, << >>)
           H == SCREEN_HEIGHT
<1>1. /\ full \in Seq(Seq(Shown)) /\ n \in Nat /\ n >= 1 /\ DOMAIN full = 1 .. n
      /\ H \in Nat /\ H >= 1 /\ SCREEN_WIDTH \in Nat
  BY ScreenAssumption DEF SomeLines
<1>2. /\ Len(next) = n + 1 /\ DOMAIN next = 1 .. n + 1 /\ next[n + 1] = << >>
      /\ \A i \in 1 .. n : next[i] = full[i]
  BY <1>1
<1>3. Last(next) = << >> /\ Len(Last(next)) = 0
  BY <1>2 DEF Last
<1>13. v.screenY = n - Above(full) - 1
  OBVIOUS
<1> HIDE DEF next
<1>4. Above(full) = IF n > H THEN n - H ELSE 0
  BY DEF Above
<1>5. Above(next) = IF n + 1 > H THEN n + 1 - H ELSE 0
  BY <1>1, <1>2 DEF Above
<1>6. DOMAIN << >> = {}
  OBVIOUS
<1> HIDE DEF n
<1>7. \A i \in Int, j \in Int : GlyphAt(next, i, j) = GlyphAt(full, i, j)
  <2> SUFFICES ASSUME NEW i \in Int, NEW j \in Int
               PROVE  GlyphAt(next, i, j) = GlyphAt(full, i, j)
    OBVIOUS
  <2>1. CASE i \in 1 .. n
    BY <1>1, <1>2, <2>1 DEF GlyphAt
  <2>2. CASE i \notin 1 .. n
    BY <1>1, <1>2, <1>6, <2>2 DEF GlyphAt
  <2> QED BY <2>1, <2>2
<1>8. \A y \in Rows, x \in Columns : c[y][x].glyph = GlyphAt(full, Above(full) + y + 1, x + 1)
  BY DEF CellsShow
<1>9. \A y \in Rows : y \in Int
  BY <1>1 DEF Rows
<1>10. \A x \in Columns : x \in Int
  BY <1>1 DEF Columns
<1>11. CASE v.screenY + 1 < H /\ u.screenX = 0 /\ u.screenY = v.screenY + 1 /\ u.screen = c
  <2>1. Above(full) = 0 /\ Above(next) = 0 /\ v.screenY = n - 1
    BY <1>1, <1>4, <1>5, <1>11, <1>13
  <2>2. CellsShow(u.screen, next)
    <3> SUFFICES ASSUME NEW y \in Rows, NEW x \in Columns
                 PROVE  u.screen[y][x].glyph = GlyphAt(next, Above(next) + y + 1, x + 1)
      BY DEF CellsShow
    <3>1. c[y][x].glyph = GlyphAt(full, Above(full) + y + 1, x + 1)
      BY <1>8
    <3>2. 0 + y + 1 \in Int /\ x + 1 \in Int
      BY <1>9, <1>10
    <3>3. GlyphAt(next, 0 + y + 1, x + 1) = GlyphAt(full, 0 + y + 1, x + 1)
      BY <1>7, <3>2
    <3> QED BY <1>11, <2>1, <3>1, <3>3
  <2> QED BY <1>1, <1>2, <1>3, <1>11, <2>1, <2>2 DEF ShowsLines, next
<1>12. CASE v.screenY + 1 = H /\ u.screenX = 0 /\ u.screenY = v.screenY /\ u.screen = Scrolled(v, c)
  <2>1. n >= H /\ Above(full) = n - H /\ Above(next) = n - H + 1
    BY <1>1, <1>4, <1>5, <1>12, <1>13
  <2>2. ASSUME NEW y \in Rows, NEW x \in Columns
        PROVE  u.screen[y][x].glyph = GlyphAt(next, Above(next) + y + 1, x + 1)
    <3>1. CASE y < H - 1
      <4>1. y + 1 \in Rows /\ u.screen[y] = c[y + 1]
        BY <1>12, <3>1, ScrolledCells
      <4>2. u.screen[y][x].glyph = GlyphAt(full, Above(full) + (y + 1) + 1, x + 1)
        BY <1>8, <4>1
      <4>3. Above(full) + (y + 1) + 1 = Above(next) + y + 1 /\ Above(next) + y + 1 \in Int /\ x + 1 \in Int
        BY <1>1, <1>9, <1>10, <2>1
      <4> QED BY <1>7, <4>2, <4>3
    <3>2. CASE ~(y < H - 1)
      <4>1. y = H - 1
        BY <1>1, <3>2 DEF Rows
      <4>2. u.screen[y][x].glyph = None
        BY <1>12, <4>1, ScrolledCells, BlankCell
      <4>3. Above(next) + y + 1 = n + 1
        BY <1>1, <2>1, <4>1
      <4>4. GlyphAt(next, n + 1, x + 1) = None
        BY <1>2, <1>6 DEF GlyphAt
      <4> QED BY <4>2, <4>3, <4>4
    <3> QED BY <3>1, <3>2
  <2>3. CellsShow(u.screen, next)
    BY <2>2 DEF CellsShow
  <2>4. u.screenY = Len(next) - Above(next) - 1
    BY <1>1, <1>2, <1>12, <2>1
  <2> QED BY <1>3, <1>12, <2>3, <2>4 DEF ShowsLines, next
<1> QED BY <1>1, <1>11, <1>12 DEF Advances

-----------------------------------------------------------------------------
(* The lines and the records of what was written.                          *)

\* A character added to lines leaves lines.
LEMMA AddedToLines ==
  ASSUME NEW lines \in SomeLines, NEW g \in Shown
  PROVE  WithGlyph(lines, g) \in SomeLines
<1> DEFINE n == Len(lines)
           longer == Append(Last(lines), g)
           full == [lines EXCEPT ![n] = longer]
<1>1. /\ lines \in Seq(Seq(Shown)) /\ n \in Nat /\ n >= 1 /\ Last(lines) \in Seq(Shown)
  BY DEF SomeLines, Last
<1>2. longer \in Seq(Shown)
  BY <1>1
<1> HIDE DEF longer
<1>3. full \in Seq(Seq(Shown)) /\ Len(full) = n
  BY <1>1, <1>2
<1>4. << >> \in Seq(Shown)
  OBVIOUS
<1> HIDE DEF full
<1>5. Append(lines, << >>) \in SomeLines /\ Append(full, << >>) \in SomeLines
  <2>1. Append(lines, << >>) \in Seq(Seq(Shown)) /\ Len(Append(lines, << >>)) = n + 1
    BY <1>1, <1>4
  <2>2. Append(full, << >>) \in Seq(Seq(Shown)) /\ Len(Append(full, << >>)) = n + 1
    BY <1>3, <1>4
  <2>3. \A l \in Seq(Seq(Shown)) : Len(l) = n + 1 => l # << >>
    BY <1>1
  <2> QED BY <2>1, <2>2, <2>3 DEF SomeLines
<1>6. full \in SomeLines
  BY <1>1, <1>3 DEF SomeLines
<1>7. WithGlyph(lines, g) \in {Append(lines, << >>), Append(full, << >>), full}
  BY DEF WithGlyph, full, longer
<1> QED BY <1>5, <1>6, <1>7

\* Lines goes through the text from its beginning.
LinesStep == [gl \in Shown \X SomeLines |-> WithGlyph(gl[2], gl[1])]

\* Lines is the fold of WithGlyph over what was shown.
LEMMA LinesRun ==
  ASSUME NEW s \in Seq(Shown)
  PROVE  \E f \in [0 .. Len(s) -> SomeLines] :
           RunOf(f, s, << << >> >>, LinesStep) /\ Lines(s) = f[Len(s)]
<1> DEFINE n == Len(s)
           e == << << >> >>
           Is(h) == h = [i \in 0 .. n |-> IF i = 0 THEN e ELSE WithGlyph(h[i - 1], s[i])]
<1>1. n \in Nat
  OBVIOUS
<1>2. e \in SomeLines /\ LinesStep \in [Shown \X SomeLines -> SomeLines]
  <2>1. e \in Seq(Seq(Shown)) /\ e # << >>
    OBVIOUS
  <2>2. e \in SomeLines
    BY <2>1 DEF SomeLines
  <2> HIDE DEF e
  <2> QED BY <2>2, AddedToLines DEF LinesStep
<1> HIDE DEF e
<1>3. PICK f \in [0 .. n -> SomeLines] : RunOf(f, s, e, LinesStep)
  BY <1>2, RunExists
<1>4. ASSUME NEW i \in 1 .. n PROVE f[i] = WithGlyph(f[i - 1], s[i])
  <2>1. s[i] \in Shown /\ f[i - 1] \in SomeLines
    BY <1>1
  <2>2. f[i] = LinesStep[<<s[i], f[i - 1]>>]
    BY <1>3 DEF RunOf
  <2> QED BY <2>1, <2>2 DEF LinesStep
<1>5. f[0] = e
  BY <1>3 DEF RunOf
<1>6. Is(f)
  <2>1. \A i \in 0 .. n : f[i] = IF i = 0 THEN e ELSE WithGlyph(f[i - 1], s[i])
    BY <1>1, <1>4, <1>5
  <2>2. f = [i \in 0 .. n |-> f[i]]
    OBVIOUS
  <2> QED BY <2>1, <2>2
<1> DEFINE h == CHOOSE k : Is(k)
<1>7. Is(h)
  <2> HIDE DEF Is
  <2> QED BY <1>6
<1>8. Lines(s) = h[n]
  BY DEF Lines, e
<1> HIDE DEF h
<1> DEFINE T == {k \in Nat : k <= n => h[k] = f[k]}
<1>9. 0 \in T
  BY <1>1, <1>5, <1>7
<1>10. ASSUME NEW k \in Nat, k \in T PROVE k + 1 \in T
  <2> SUFFICES ASSUME k + 1 <= n PROVE h[k + 1] = f[k + 1]
    OBVIOUS
  <2>1. k + 1 \in 1 .. n /\ k + 1 \in 0 .. n /\ k + 1 # 0 /\ (k + 1) - 1 = k /\ h[k] = f[k]
    BY <1>1, <1>10
  <2>2. h[k + 1] = WithGlyph(h[(k + 1) - 1], s[k + 1])
    BY <1>7, <2>1
  <2> QED BY <1>4, <2>1, <2>2
<1>11. Nat \subseteq T
  <2> HIDE DEF T
  <2> QED BY <1>9, <1>10, Induct
<1>12. Lines(s) = f[n]
  BY <1>1, <1>8, <1>11
<1> QED BY <1>3, <1>12 DEF e

\* So it starts with one empty line, and each character shown is added to it.
LEMMA LinesAre ==
  /\ Lines(<< >>) = << << >> >>
  /\ \A s \in Seq(Shown) : Lines(s) \in SomeLines
  /\ \A s \in Seq(Shown), g \in Shown : Lines(Append(s, g)) = WithGlyph(Lines(s), g)
<1>1. Lines(<< >>) = << << >> >>
  <2>1. << >> \in Seq(Shown) /\ Len(<< >>) = 0
    OBVIOUS
  <2> QED BY <2>1, LinesRun DEF RunOf
<1>2. ASSUME NEW s \in Seq(Shown) PROVE Lines(s) \in SomeLines
  <2>1. Len(s) \in 0 .. Len(s)
    OBVIOUS
  <2> QED BY <2>1, LinesRun
<1>3. ASSUME NEW s \in Seq(Shown), NEW g \in Shown PROVE Lines(Append(s, g)) = WithGlyph(Lines(s), g)
  <2> DEFINE e == << << >> >>
  <2>1. PICK f \in [0 .. Len(s) -> SomeLines] : RunOf(f, s, e, LinesStep) /\ Lines(s) = f[Len(s)]
    BY LinesRun
  <2>2. Append(s, g) \in Seq(Shown) /\ Len(Append(s, g)) = Len(s) + 1
    OBVIOUS
  <2>3. PICK h : RunOf(h, Append(s, g), e, LinesStep) /\ Lines(Append(s, g)) = h[Len(s) + 1]
    BY <2>2, LinesRun
  <2>4. e \in SomeLines
    <3>1. e \in Seq(Seq(Shown)) /\ e # << >>
      OBVIOUS
    <3> QED BY <3>1 DEF SomeLines
  <2>5. LinesStep \in [Shown \X SomeLines -> SomeLines]
    BY AddedToLines DEF LinesStep
  <2> HIDE DEF e
  <2>6. h[Len(s) + 1] = LinesStep[<<g, f[Len(s)]>>]
    <3> DEFINE n == Len(s)
               t == Append(s, g)
               T == {k \in Nat : k <= n => f[k] = h[k]}
    <3>1. n \in Nat /\ Len(t) = n + 1 /\ t[n + 1] = g /\ \A i \in 1 .. n : t[i] = s[i]
      OBVIOUS
    <3>2. 0 \in T
      BY <2>1, <2>3 DEF RunOf
    <3>3. ASSUME NEW k \in Nat, k \in T PROVE k + 1 \in T
      <4> SUFFICES ASSUME k + 1 <= n PROVE f[k + 1] = h[k + 1]
        OBVIOUS
      <4>1. k + 1 \in 1 .. n /\ k + 1 \in 1 .. n + 1 /\ (k + 1) - 1 = k /\ f[k] = h[k]
        BY <3>1, <3>3
      <4>2. f[k + 1] = LinesStep[<<s[k + 1], f[(k + 1) - 1]>>]
        BY <2>1, <4>1 DEF RunOf
      <4>3. h[k + 1] = LinesStep[<<t[k + 1], h[(k + 1) - 1]>>]
        BY <2>3, <3>1, <4>1 DEF RunOf
      <4> QED BY <3>1, <4>1, <4>2, <4>3
    <3>4. Nat \subseteq T
      <4> HIDE DEF T
      <4> QED BY <3>2, <3>3, Induct
    <3>5. f[n] = h[n]
      BY <3>1, <3>4
    <3>6. n + 1 \in 1 .. n + 1 /\ (n + 1) - 1 = n
      BY <3>1
    <3>7. h[n + 1] = LinesStep[<<t[n + 1], h[(n + 1) - 1]>>]
      BY <2>3, <3>1, <3>6 DEF RunOf
    <3> QED BY <3>1, <3>5, <3>6, <3>7
  <2>7. <<g, f[Len(s)]>> \in Shown \X SomeLines
    BY <1>2, <2>1
  <2> QED BY <2>1, <2>3, <2>6, <2>7 DEF LinesStep
<1> QED BY <1>1, <1>2, <1>3

\* So does Records.
RecordsStep == [gr \in Shown \X Seq(Glyph) |-> IF Recorded(gr[1]) THEN Append(gr[2], gr[1]) ELSE gr[2]]

\* The step of Records keeps sequences of characters.
LEMMA RecordsStepIn == RecordsStep \in [Shown \X Seq(Glyph) -> Seq(Glyph)]
<1>1. ASSUME NEW g \in Shown, NEW r \in Seq(Glyph)
      PROVE  (IF Recorded(g) THEN Append(r, g) ELSE r) \in Seq(Glyph)
  BY DEF Recorded, Shown
<1> QED BY <1>1 DEF RecordsStep

\* Records is the fold that keeps the characters of records.
LEMMA RecordsRun ==
  ASSUME NEW s \in Seq(Shown)
  PROVE  \E f \in [0 .. Len(s) -> Seq(Glyph)] :
           RunOf(f, s, << >>, RecordsStep) /\ Records(s) = f[Len(s)]
<1> DEFINE n == Len(s)
           Is(h) == h = [i \in 0 .. n |->
                           IF i = 0 THEN << >>
                           ELSE IF Recorded(s[i]) THEN Append(h[i - 1], s[i]) ELSE h[i - 1]]
<1>1. n \in Nat
  OBVIOUS
<1>2. << >> \in Seq(Glyph)
  OBVIOUS
<1>3. PICK f \in [0 .. n -> Seq(Glyph)] : RunOf(f, s, << >>, RecordsStep)
  BY <1>2, RunExists, RecordsStepIn
<1>4. ASSUME NEW i \in 1 .. n
      PROVE  f[i] = IF Recorded(s[i]) THEN Append(f[i - 1], s[i]) ELSE f[i - 1]
  <2>1. s[i] \in Shown /\ f[i - 1] \in Seq(Glyph)
    BY <1>1
  <2>2. f[i] = RecordsStep[<<s[i], f[i - 1]>>]
    BY <1>3 DEF RunOf
  <2> QED BY <2>1, <2>2 DEF RecordsStep
<1>5. f[0] = << >>
  BY <1>3 DEF RunOf
<1>6. Is(f)
  <2>1. \A i \in 0 .. n : f[i] = IF i = 0 THEN << >>
                                 ELSE IF Recorded(s[i]) THEN Append(f[i - 1], s[i]) ELSE f[i - 1]
    <3> SUFFICES ASSUME NEW i \in 0 .. n
                 PROVE  f[i] = IF i = 0 THEN << >>
                               ELSE IF Recorded(s[i]) THEN Append(f[i - 1], s[i]) ELSE f[i - 1]
      OBVIOUS
    <3>1. CASE i = 0
      BY <1>5, <3>1
    <3>2. CASE i # 0
      <4>1. i \in 1 .. n
        BY <1>1, <3>2
      <4> QED BY <1>4, <3>2, <4>1, Zenon
    <3> QED BY <3>1, <3>2
  <2>2. f = [i \in 0 .. n |-> f[i]]
    OBVIOUS
  <2> QED BY <2>1, <2>2
<1> DEFINE h == CHOOSE k : Is(k)
<1>7. Is(h)
  <2> HIDE DEF Is
  <2> QED BY <1>6
<1>8. Records(s) = h[n]
  BY DEF Records
<1> HIDE DEF h
<1> DEFINE T == {k \in Nat : k <= n => h[k] = f[k]}
<1>9. 0 \in T
  BY <1>1, <1>5, <1>7
<1>10. ASSUME NEW k \in Nat, k \in T PROVE k + 1 \in T
  <2> SUFFICES ASSUME k + 1 <= n PROVE h[k + 1] = f[k + 1]
    OBVIOUS
  <2>1. k + 1 \in 1 .. n /\ k + 1 \in 0 .. n /\ k + 1 # 0 /\ (k + 1) - 1 = k /\ h[k] = f[k]
    BY <1>1, <1>10
  <2>2. h[k + 1] = IF Recorded(s[k + 1]) THEN Append(h[(k + 1) - 1], s[k + 1]) ELSE h[(k + 1) - 1]
    BY <1>7, <2>1
  <2> QED BY <1>4, <2>1, <2>2
<1>11. Nat \subseteq T
  <2> HIDE DEF T
  <2> QED BY <1>9, <1>10, Induct
<1>12. Records(s) = f[n]
  BY <1>1, <1>8, <1>11
<1> QED BY <1>3, <1>12

\* So it starts empty, and each character shown is kept or left out.
LEMMA RecordsAre ==
  /\ Records(<< >>) = << >>
  /\ \A s \in Seq(Shown) : Records(s) \in Seq(Glyph)
  /\ \A s \in Seq(Shown), g \in Shown :
       Records(Append(s, g)) = IF Recorded(g) THEN Append(Records(s), g) ELSE Records(s)
<1>1. Records(<< >>) = << >>
  <2>1. << >> \in Seq(Shown) /\ Len(<< >>) = 0
    OBVIOUS
  <2> QED BY <2>1, RecordsRun DEF RunOf
<1>2. ASSUME NEW s \in Seq(Shown) PROVE Records(s) \in Seq(Glyph)
  <2>1. Len(s) \in 0 .. Len(s)
    OBVIOUS
  <2> QED BY <2>1, RecordsRun
<1>3. ASSUME NEW s \in Seq(Shown), NEW g \in Shown
      PROVE  Records(Append(s, g)) = IF Recorded(g) THEN Append(Records(s), g) ELSE Records(s)
  <2>1. PICK f \in [0 .. Len(s) -> Seq(Glyph)] :
          RunOf(f, s, << >>, RecordsStep) /\ Records(s) = f[Len(s)]
    BY RecordsRun
  <2>2. Append(s, g) \in Seq(Shown) /\ Len(Append(s, g)) = Len(s) + 1
    OBVIOUS
  <2>3. PICK h : RunOf(h, Append(s, g), << >>, RecordsStep) /\ Records(Append(s, g)) = h[Len(s) + 1]
    BY <2>2, RecordsRun
  <2>4. << >> \in Seq(Glyph)
    OBVIOUS
  <2>5. h[Len(s) + 1] = RecordsStep[<<g, f[Len(s)]>>]
    <3> DEFINE n == Len(s)
               t == Append(s, g)
               T == {k \in Nat : k <= n => f[k] = h[k]}
    <3>1. n \in Nat /\ Len(t) = n + 1 /\ t[n + 1] = g /\ \A i \in 1 .. n : t[i] = s[i]
      OBVIOUS
    <3>2. 0 \in T
      BY <2>1, <2>3 DEF RunOf
    <3>3. ASSUME NEW k \in Nat, k \in T PROVE k + 1 \in T
      <4> SUFFICES ASSUME k + 1 <= n PROVE f[k + 1] = h[k + 1]
        OBVIOUS
      <4>1. k + 1 \in 1 .. n /\ k + 1 \in 1 .. n + 1 /\ (k + 1) - 1 = k /\ f[k] = h[k]
        BY <3>1, <3>3
      <4>2. f[k + 1] = RecordsStep[<<s[k + 1], f[(k + 1) - 1]>>]
        BY <2>1, <4>1 DEF RunOf
      <4>3. h[k + 1] = RecordsStep[<<t[k + 1], h[(k + 1) - 1]>>]
        BY <2>3, <3>1, <4>1 DEF RunOf
      <4> QED BY <3>1, <4>1, <4>2, <4>3
    <3>4. Nat \subseteq T
      <4> HIDE DEF T
      <4> QED BY <3>2, <3>3, Induct
    <3>5. f[n] = h[n]
      BY <3>1, <3>4
    <3>6. n + 1 \in 1 .. n + 1 /\ (n + 1) - 1 = n
      BY <3>1
    <3>7. h[n + 1] = RecordsStep[<<t[n + 1], h[(n + 1) - 1]>>]
      BY <2>3, <3>1, <3>6 DEF RunOf
    <3> QED BY <3>1, <3>5, <3>6, <3>7
  <2>6. <<g, f[Len(s)]>> \in Shown \X Seq(Glyph)
    BY <1>2, <2>1
  <2> QED BY <2>1, <2>3, <2>5, <2>6 DEF RecordsStep
<1> QED BY <1>1, <1>2, <1>3

-----------------------------------------------------------------------------
(* What a character does to the screen.                                    *)

CellsColoured(cells) ==
  \A y \in Rows, x \in Columns :
    cells[y][x].glyph \notin {None, Space, Junk} =>
      cells[y][x].color % 16 = cells[y][x].glyph.want

\* The glyph may be written in the colour of the screen.
InColour(g, v) == g \notin {Space, Junk} => g.want = v.currentColor % 16

\* The screen shows the lines of what was written, each character in its colour.
ScreenInv(v) ==
  /\ v \in Vga
  /\ ShowsLines(v, Lines(v.shown))
  /\ CellsColoured(v.screen)

\* Scrolling leaves every cell in the colour of its character.
LEMMA ColouredOn ==
  ASSUME NEW v \in Vga, NEW u \in Vga, NEW c \in [Rows -> [Columns -> ScreenCell]], NEW x,
         Advances(v, u, c, x), CellsColoured(c)
  PROVE  CellsColoured(u.screen)
<1>1. CASE u.screen = c
  BY <1>1
<1>2. CASE u.screen = Scrolled(v, c)
  <2> SUFFICES ASSUME NEW y \in Rows, NEW z \in Columns,
                      u.screen[y][z].glyph \notin {None, Space, Junk}
               PROVE  u.screen[y][z].color % 16 = u.screen[y][z].glyph.want
    BY DEF CellsColoured
  <2>1. CASE y < SCREEN_HEIGHT - 1
    <3>1. y + 1 \in Rows /\ u.screen[y] = c[y + 1]
      BY <1>2, <2>1, ScrolledCells
    <3> QED BY <3>1 DEF CellsColoured
  <2>2. CASE ~(y < SCREEN_HEIGHT - 1)
    <3>1. y = SCREEN_HEIGHT - 1
      BY <2>2, ScreenAssumption DEF Rows
    <3>2. u.screen[y][z].glyph = None
      BY <1>2, <3>1, ScrolledCells, BlankCell
    <3> QED BY <3>2
  <2> QED BY <2>1, <2>2
<1> QED BY <1>1, <1>2 DEF Advances

\* A character written in its colour leaves every cell in its own.
LEMMA ColouredCell ==
  ASSUME NEW v \in Vga, CellsColoured(v.screen), NEW g \in Shown, InColour(g, v)
  PROVE  CellsColoured(Cell(v, g))
<1> SUFFICES ASSUME NEW y \in Rows, NEW x \in Columns,
                    Cell(v, g)[y][x].glyph \notin {None, Space, Junk}
             PROVE  Cell(v, g)[y][x].color % 16 = Cell(v, g)[y][x].glyph.want
  BY DEF CellsColoured
<1>1. CASE y = v.screenY /\ x = v.screenX
  <2>1. Cell(v, g)[y][x] = [glyph |-> g, color |-> v.currentColor]
    BY <1>1, CellsAfter
  <2> QED BY <2>1 DEF InColour
<1>2. CASE y # v.screenY \/ x # v.screenX
  <2>1. Cell(v, g)[y][x] = v.screen[y][x]
    BY <1>2, CellsAfter
  <2> QED BY <2>1 DEF CellsColoured
<1> QED BY <1>1, <1>2

\* A character goes into its cell.
LEMMA PutKeeps ==
  ASSUME NEW v, ScreenInv(v), NEW g \in Shown, g.ch # "newline", InColour(g, v)
  PROVE  LET u == Put(v, g) IN
         ScreenInv(u) /\ u.currentColor = v.currentColor /\ u.shown = Append(v.shown, g)
<1> DEFINE h == Append(v.shown, g)
           c == Cell(v, g)
           x == v.screenX + 1
           u == Put(v, g)
           lines == Lines(v.shown)
           full == [lines EXCEPT ![Len(lines)] = Append(Last(lines), g)]
<1>1. v \in Vga /\ h \in Seq(Shown) /\ x \in 1 .. SCREEN_WIDTH /\ v.shown \in Seq(Shown)
  BY ScreenAssumption DEF ScreenInv, Vga, Columns
<1>2. c \in [Rows -> [Columns -> ScreenCell]]
  BY <1>1, CellsAfter
<1>3. u = Limits([v EXCEPT !.screen = c, !.screenX = x, !.shown = h])
  BY <1>1 DEF Put, Vga
<1>4. u \in Vga /\ u.shown = h /\ u.currentColor = v.currentColor /\ Advances(v, u, c, x)
  <2> DEFINE k == Limits([v EXCEPT !.screen = c, !.screenX = x, !.shown = h])
  <2>1. k \in Vga /\ k.shown = h /\ k.currentColor = v.currentColor /\ Advances(v, k, c, x)
    <3> HIDE DEF c, x, h, u
    <3> QED BY <1>1, <1>2, LimitsIs
  <2> HIDE DEF c, x, h, u
  <2> QED BY <1>3, <2>1
<1>5. lines \in SomeLines /\ ShowsLines(v, lines) /\ Lines(h) = WithGlyph(lines, g)
  BY <1>1, LinesAre DEF ScreenInv
<1>6. /\ full \in SomeLines /\ Len(full) = Len(lines) /\ Len(Last(full)) = x
      /\ CellsShow(c, full)
  <2> HIDE DEF lines
  <2> QED BY <1>1, <1>5, CellShows
<1>7. Above(full) = Above(lines) /\ v.screenY = Len(full) - Above(full) - 1
  <2> HIDE DEF lines, full
  <2> QED BY <1>5, <1>6 DEF ShowsLines, Above
<1>8. ShowsLines(u, Lines(h))
  <2>1. CASE x < SCREEN_WIDTH
    <3>1. u.screenX = x /\ u.screenY = v.screenY /\ u.screen = c
      BY <1>1, <1>4, <2>1, ScreenAssumption DEF Advances
    <3>2. Len(Append(Last(lines), g)) = x
      <4>1. Last(lines) \in Seq(Shown) /\ Len(Last(lines)) = v.screenX
        BY <1>5 DEF SomeLines, ShowsLines, Last
      <4> HIDE DEF lines
      <4> QED BY <4>1
    <3>3. Lines(h) = full
      <4> HIDE DEF lines
      <4> QED BY <1>1, <1>5, <2>1, <3>2, ScreenAssumption DEF WithGlyph
    <3>4. u.screenX = Len(Last(full)) /\ u.screenY = Len(full) - Above(full) - 1
          /\ CellsShow(u.screen, full)
      <4> HIDE DEF full, u, c
      <4> QED BY <1>6, <1>7, <3>1
    <3> HIDE DEF full, u
    <3> QED BY <3>3, <3>4 DEF ShowsLines
  <2>2. CASE x = SCREEN_WIDTH
    <3>1. Len(Append(Last(lines), g)) = SCREEN_WIDTH
      <4>1. Last(lines) \in Seq(Shown) /\ Len(Last(lines)) = v.screenX
        BY <1>5 DEF SomeLines, ShowsLines, Last
      <4> HIDE DEF lines
      <4> QED BY <2>2, <4>1
    <3>2. Lines(h) = Append(full, << >>)
      <4> HIDE DEF lines
      <4> QED BY <1>5, <3>1 DEF WithGlyph
    <3>3. Advances(v, u, c, SCREEN_WIDTH)
      BY <1>4, <2>2
    <3>4. ShowsLines(u, Append(full, << >>))
      <4> HIDE DEF full, u, c
      <4> QED BY <1>1, <1>2, <1>4, <1>6, <1>7, <3>3, LineEnds
    <3> QED BY <3>2, <3>4
  <2> QED BY <1>1, <2>1, <2>2, ScreenAssumption
<1>9. CellsColoured(u.screen)
  <2>1. CellsColoured(c)
    BY <1>1, ColouredCell DEF ScreenInv
  <2> HIDE DEF c, u
  <2> QED BY <1>1, <1>2, <1>4, <2>1, ColouredOn
<1> QED BY <1>4, <1>8, <1>9 DEF ScreenInv

\* A newline ends a line.
LEMMA NewlineKeeps ==
  ASSUME NEW v, ScreenInv(v), NEW g \in Shown, g.ch = "newline"
  PROVE  LET u == Limits([v EXCEPT !.screenX = 0, !.screenY = @ + 1, !.shown = Append(@, g)]) IN
         ScreenInv(u) /\ u.currentColor = v.currentColor /\ u.shown = Append(v.shown, g)
<1> DEFINE h == Append(v.shown, g)
           u == Limits([v EXCEPT !.screenX = 0, !.screenY = @ + 1, !.shown = h])
           lines == Lines(v.shown)
<1>1. v \in Vga /\ h \in Seq(Shown) /\ v.shown \in Seq(Shown)
      /\ v.screen \in [Rows -> [Columns -> ScreenCell]]
  BY DEF ScreenInv, Vga
<1>2. u \in Vga /\ u.shown = h /\ u.currentColor = v.currentColor
      /\ Advances(v, u, v.screen, SCREEN_WIDTH)
  <2> HIDE DEF h
  <2> QED BY <1>1, NewLineIs
<1>3. lines \in SomeLines /\ ShowsLines(v, lines) /\ Lines(h) = WithGlyph(lines, g)
  BY <1>1, LinesAre DEF ScreenInv
<1>4. Lines(h) = Append(lines, << >>)
  BY <1>3 DEF WithGlyph
<1>5. ShowsLines(u, Append(lines, << >>))
  <2>1. CellsShow(v.screen, lines) /\ v.screenY = Len(lines) - Above(lines) - 1
    BY <1>3 DEF ShowsLines
  <2> HIDE DEF lines, u
  <2> QED BY <1>1, <1>2, <1>3, <2>1, LineEnds
<1>6. CellsColoured(u.screen)
  <2> HIDE DEF u
  <2> QED BY <1>1, <1>2, ColouredOn DEF ScreenInv
<1>7. [v EXCEPT !.screenX = 0, !.screenY = @ + 1, !.shown = Append(@, g)]
        = [v EXCEPT !.screenX = 0, !.screenY = @ + 1, !.shown = h]
  BY <1>1 DEF Vga
<1> QED BY <1>2, <1>4, <1>5, <1>6, <1>7 DEF ScreenInv

\* With the cursor on the screen there is nothing to limit.
LEMMA NothingToLimit == ASSUME NEW v \in Vga PROVE Limits(v) = v
<1>1. v.screenX < SCREEN_WIDTH /\ v.screenX \in Nat /\ v.screenY < SCREEN_HEIGHT /\ v.screenY \in Nat
      /\ SCREEN_WIDTH \in Nat /\ SCREEN_HEIGHT \in Nat
  BY ScreenAssumption DEF Vga, Columns, Rows
<1>2. NextLine(v) = v
  BY <1>1 DEF NextLine
<1> QED BY <1>1, <1>2 DEF Limits

\* What a character adds to the records on the screen.
Kept(r, g) == IF Recorded(g) THEN Append(r, g) ELSE r

\* A round of the tab's loop.
TabRound(s, i) ==
  IF s.on /\ i < tabSize - (s.v.screenX % tabSize) THEN [s EXCEPT !.v = Put(s.v, Space)]
  ELSE [s EXCEPT !.on = FALSE]

TabInv(v, s) ==
  /\ DOMAIN s = {"v", "on"} /\ ScreenInv(s.v)
  /\ s.v.currentColor = v.currentColor /\ Records(s.v.shown) = Records(v.shown)

\* One space of a tab.
LEMMA TabRounds ==
  ASSUME NEW v, NEW s, TabInv(v, s), NEW i
  PROVE  TabInv(v, TabRound(s, i))
<1> DEFINE u == Put(s.v, Space)
<1>1. Space \in Shown /\ Space.ch # "newline" /\ InColour(Space, s.v) /\ ~Recorded(Space)
  BY DEF Shown, Space, InColour, Recorded
<1>2. ScreenInv(s.v) /\ DOMAIN s = {"v", "on"} /\ s.v.shown \in Seq(Shown)
  BY DEF TabInv, ScreenInv, Vga
<1>3. ScreenInv(u) /\ u.currentColor = s.v.currentColor /\ u.shown = Append(s.v.shown, Space)
  BY <1>1, <1>2, PutKeeps
<1>4. Records(u.shown) = Records(s.v.shown)
  BY <1>1, <1>2, <1>3, RecordsAre
<1> HIDE DEF u
<1>5. TabInv(v, [s EXCEPT !.v = u])
  BY <1>2, <1>3, <1>4 DEF TabInv
<1>6. TabInv(v, [s EXCEPT !.on = FALSE])
  BY <1>2 DEF TabInv
<1> QED BY <1>5, <1>6 DEF TabRound, u

\* A tab: four spaces, then the limits, and no record in it.
LEMMA TabKeeps ==
  ASSUME NEW v, ScreenInv(v)
  PROVE  LET u == Limits(Tab(v)) IN
         ScreenInv(u) /\ u.currentColor = v.currentColor /\ Records(u.shown) = Records(v.shown)
<1> DEFINE s == [v |-> v, on |-> TRUE]
<1>1. TabInv(v, s)
  BY DEF TabInv
<1> HIDE DEF s
<1>2. TabInv(v, TabRound(TabRound(TabRound(TabRound(s, 0), 1), 2), 3))
  <2>1. TabInv(v, TabRound(TabRound(s, 0), 1))
    BY <1>1, TabRounds
  <2> QED BY <2>1, TabRounds
<1>3. Tab(v) = TabRound(TabRound(TabRound(TabRound(s, 0), 1), 2), 3).v
  BY DEF Tab, TabRound, s
<1>4. ScreenInv(Tab(v)) /\ Tab(v).currentColor = v.currentColor
      /\ Records(Tab(v).shown) = Records(v.shown)
  BY <1>2, <1>3 DEF TabInv
<1>5. Limits(Tab(v)) = Tab(v)
  BY <1>4, NothingToLimit DEF ScreenInv
<1> QED BY <1>4, <1>5

\* A character put on the screen, whichever branch of vgatxt_putc takes it.
LEMMA PutcKeeps ==
  ASSUME NEW v, ScreenInv(v), NEW g \in Glyph, InColour(g, v)
  PROVE  LET u == vgatxt_putc(v, g) IN
         /\ ScreenInv(u) /\ u.currentColor = v.currentColor
         /\ Records(u.shown) = Kept(Records(v.shown), g)
<1> DEFINE u == vgatxt_putc(v, g)
<1>1. g \in Shown /\ g.ch # "return" /\ g.ch # "backspace" /\ v.shown \in Seq(Shown)
  BY DEF Shown, Glyph, Chars, ScreenInv, Vga
<1>2. CASE g.ch = "newline"
  <2>1. u = Limits([v EXCEPT !.screenX = 0, !.screenY = @ + 1, !.shown = Append(@, g)])
    BY <1>2 DEF vgatxt_putc
  <2>2. ScreenInv(u) /\ u.currentColor = v.currentColor /\ u.shown = Append(v.shown, g)
    BY <1>1, <1>2, <2>1, NewlineKeeps
  <2>3. Records(u.shown) = Kept(Records(v.shown), g)
    BY <1>1, <1>2, <2>2, RecordsAre DEF Kept
  <2> QED BY <2>2, <2>3
<1>3. CASE g.ch = "tab"
  <2>1. u = Limits(Tab(v))
    BY <1>3 DEF vgatxt_putc
  <2> QED BY <1>3, <2>1, TabKeeps DEF Kept, Recorded
<1>4. CASE g.ch # "newline" /\ g.ch # "tab"
  <2>1. u = Put(v, g)
    BY <1>1, <1>4 DEF vgatxt_putc
  <2>2. ScreenInv(u) /\ u.currentColor = v.currentColor /\ u.shown = Append(v.shown, g)
    BY <1>1, <1>4, <2>1, PutKeeps
  <2>3. Records(u.shown) = Kept(Records(v.shown), g)
    BY <1>1, <1>4, <2>2, RecordsAre DEF Kept
  <2> QED BY <2>2, <2>3
<1> QED BY <1>2, <1>3, <1>4

\* The low half of the colour is the text's.
LEMMA ColourSet ==
  ASSUME NEW v, ScreenInv(v), NEW color \in Colours
  PROVE  LET u == vgatxt_set_txt_color(v, color) IN
         ScreenInv(u) /\ u.currentColor % 16 = color /\ u.shown = v.shown
<1> DEFINE q == v.currentColor \div 16
           k == q * 16 + color
           u == vgatxt_set_txt_color(v, color)
<1>1. v \in Vga /\ v.currentColor \in Nat
  BY DEF ScreenInv, Vga
<1>2. q \in Nat
  BY <1>1, DivMod
<1>3. color % 16 = color
  BY DEF Colours
<1>4. k \in Nat /\ k % 16 = color
  <2> HIDE DEF q
  <2>1. k \in Nat
    BY <1>2 DEF Colours
  <2>2. 16 * q + color = k
    BY <1>2 DEF Colours
  <2>3. (16 * q + color) % 16 = color
    <3>1. color \in 0 .. 16 - 1
      BY DEF Colours
    <3> QED BY <1>2, <3>1, DivModIs
  <2> QED BY <2>1, <2>2, <2>3
<1>5. u = [v EXCEPT !.currentColor = k]
  BY <1>3, <1>1 DEF vgatxt_set_txt_color, Vga
<1> HIDE DEF k
<1>6. /\ u \in Vga /\ u.currentColor = k /\ u.shown = v.shown
      /\ u.screen = v.screen /\ u.screenX = v.screenX /\ u.screenY = v.screenY
  BY <1>1, <1>4, <1>5 DEF Vga
<1> HIDE DEF u
<1>7. ScreenInv(u)
  BY <1>6 DEF ScreenInv, ShowsLines
<1> QED BY <1>4, <1>6, <1>7 DEF u

\* A text whose characters all want the colour it is written in, or are junk.
InOneColour(b, color) == \A i \in 1 .. Len(b) : b[i] # Junk => b[i].want = color

\* Appending to the second of two sequences appends to both.
LEMMA AppendsLast ==
  ASSUME NEW q \in Seq(Glyph), NEW r \in Seq(Glyph), NEW x \in Glyph
  PROVE  Append(q \o r, x) = q \o Append(r, x)
<1> DEFINE a == Append(q \o r, x)
           b == q \o Append(r, x)
           n == Len(q) + Len(r) + 1
<1>1. n \in Nat /\ a \in Seq(Glyph) /\ b \in Seq(Glyph) /\ Len(a) = n /\ Len(b) = n
  OBVIOUS
<1>2. ASSUME NEW i \in 1 .. n PROVE a[i] = b[i]
  <2>1. CASE i <= Len(q)
    BY <2>1
  <2>2. CASE i > Len(q) /\ i <= Len(q) + Len(r)
    BY <2>2
  <2>3. CASE i = n
    BY <2>3
  <2> QED BY <2>1, <2>2, <2>3
<1> HIDE DEF a, b, n
<1>3. a = b
  BY <1>1, <1>2
<1> QED BY <1>3 DEF a, b

\* The records of a text without tabs.
LEMMA WriteKeeps ==
  ASSUME NEW v, ScreenInv(v), NEW color \in Colours, NEW b \in Seq(Glyph), InOneColour(b, color)
  PROVE  LET u == vgatxt_write(v, color, b) IN
         /\ ScreenInv(u)
         /\ (\A i \in 1 .. Len(b) : b[i].ch # "tab") =>
              Records(u.shown) = Records(v.shown) \o Records(b)
         /\ Len(b) = 1 => Records(u.shown) = Kept(Records(v.shown), b[1])
<1> DEFINE n == Len(b)
           e == vgatxt_set_txt_color(v, color)
           Good == {u \in Vga : ScreenInv(u) /\ u.currentColor % 16 = color}
           step == [gu \in Glyph \X Good |-> IF InColour(gu[1], gu[2]) THEN vgatxt_putc(gu[2], gu[1]) ELSE gu[2]]
           Is(h) == h = [i \in 0 .. n |-> IF i = 0 THEN e ELSE vgatxt_putc(h[i - 1], b[i])]
<1>1. n \in Nat
  OBVIOUS
<1>2. e \in Good /\ e.shown = v.shown
  BY ColourSet DEF ScreenInv
<1>3. step \in [Glyph \X Good -> Good]
  <2>1. ASSUME NEW g \in Glyph, NEW u \in Good, InColour(g, u) PROVE vgatxt_putc(u, g) \in Good
    BY <2>1, PutcKeeps DEF ScreenInv
  <2> HIDE DEF Good
  <2> QED BY <2>1
<1> HIDE DEF e
<1>4. PICK f \in [0 .. n -> Good] : RunOf(f, b, e, step)
  <2> HIDE DEF Good, step
  <2> QED BY <1>2, <1>3, RunExists
<1>5. ASSUME NEW i \in 1 .. n
      PROVE  /\ f[i] = vgatxt_putc(f[i - 1], b[i]) /\ f[i - 1] \in Good /\ b[i] \in Glyph
             /\ InColour(b[i], f[i - 1])
  <2>1. b[i] \in Glyph /\ f[i - 1] \in Good
    <3> HIDE DEF Good
    <3> QED BY <1>1
  <2>2. InColour(b[i], f[i - 1])
    BY <2>1 DEF InColour, InOneColour
  <2>3. f[i] = step[<<b[i], f[i - 1]>>]
    BY <1>4 DEF RunOf
  <2>4. step[<<b[i], f[i - 1]>>] = vgatxt_putc(f[i - 1], b[i])
    <3> HIDE DEF Good
    <3> QED BY <2>1, <2>2
  <2> QED BY <2>1, <2>2, <2>3, <2>4
<1>6. f[0] = e
  BY <1>4 DEF RunOf
<1> HIDE DEF step
<1>7. Is(f)
  <2>1. \A i \in 0 .. n : f[i] = IF i = 0 THEN e ELSE vgatxt_putc(f[i - 1], b[i])
    BY <1>1, <1>5, <1>6
  <2>2. f = [i \in 0 .. n |-> f[i]]
    OBVIOUS
  <2> QED BY <2>1, <2>2
<1> DEFINE h == CHOOSE k : Is(k)
<1>8. Is(h)
  <2> HIDE DEF Is
  <2> QED BY <1>7
<1>9. vgatxt_write(v, color, b) = h[n]
  BY DEF vgatxt_write, e
<1> HIDE DEF h
<1> DEFINE T == {k \in Nat : k <= n => h[k] = f[k]}
<1>10. 0 \in T
  BY <1>1, <1>6, <1>8
<1>11. ASSUME NEW k \in Nat, k \in T PROVE k + 1 \in T
  <2> SUFFICES ASSUME k + 1 <= n PROVE h[k + 1] = f[k + 1]
    OBVIOUS
  <2>1. k + 1 \in 1 .. n /\ k + 1 \in 0 .. n /\ k + 1 # 0 /\ (k + 1) - 1 = k /\ h[k] = f[k]
    BY <1>1, <1>11
  <2>2. h[k + 1] = vgatxt_putc(h[(k + 1) - 1], b[k + 1])
    BY <1>8, <2>1
  <2>3. f[k + 1] = vgatxt_putc(f[(k + 1) - 1], b[k + 1])
    BY <1>5, <2>1
  <2> QED BY <2>1, <2>2, <2>3
<1>12. Nat \subseteq T
  <2> HIDE DEF T
  <2> QED BY <1>10, <1>11, Induct
<1>13. vgatxt_write(v, color, b) = f[n]
  BY <1>1, <1>9, <1>12
<1>14. ScreenInv(f[n])
  BY <1>1
<1>15. \A i \in 1 .. n : Records(f[i].shown) = Kept(Records(f[i - 1].shown), b[i])
  <2> SUFFICES ASSUME NEW i \in 1 .. n
               PROVE  Records(f[i].shown) = Kept(Records(f[i - 1].shown), b[i])
    OBVIOUS
  <2>1. ScreenInv(f[i - 1])
    BY <1>5
  <2> HIDE DEF Good
  <2> QED BY <1>5, <2>1, PutcKeeps
<1>16. Records(f[0].shown) = Records(v.shown)
  BY <1>2, <1>6
<1>17. ASSUME \A i \in 1 .. Len(b) : b[i].ch # "tab"
       PROVE  Records(f[n].shown) = Records(v.shown) \o Records(b)
  <2> DEFINE R == Records(v.shown)
             p(k) == SubSeq(b, 1, k)
             U == {k \in Nat : k <= n => Records(f[k].shown) = R \o Records(p(k))}
  <2>1. R \in Seq(Glyph) /\ v.shown \in Seq(Shown)
    BY RecordsAre DEF ScreenInv, Vga
  <2> HIDE DEF R
  <2>2. 0 \in U
    <3>1. p(0) = << >>
      OBVIOUS
    <3>2. R \o << >> = R
      BY <2>1
    <3> HIDE DEF p
    <3> QED BY <1>16, <3>1, <3>2, RecordsAre DEF R
  <2>3. ASSUME NEW k \in Nat, k \in U PROVE k + 1 \in U
    <3> SUFFICES ASSUME k + 1 <= n PROVE Records(f[k + 1].shown) = R \o Records(p(k + 1))
      OBVIOUS
    <3>1. k + 1 \in 1 .. n /\ (k + 1) - 1 = k /\ Records(f[k].shown) = R \o Records(p(k))
      BY <1>1, <2>3
    <3>2. p(k) \in Seq(Glyph) /\ b[k + 1] \in Glyph /\ p(k + 1) = Append(p(k), b[k + 1])
      <4>1. b[k + 1] \in Glyph
        BY <3>1
      <4>2. p(k) \in Seq(Glyph) /\ Len(p(k)) = k /\ \A i \in 1 .. k : p(k)[i] = b[i]
        BY <3>1
      <4>3. p(k + 1) \in Seq(Glyph) /\ Len(p(k + 1)) = k + 1 /\ \A i \in 1 .. k + 1 : p(k + 1)[i] = b[i]
        BY <3>1
      <4> HIDE DEF p
      <4>4. Append(p(k), b[k + 1]) \in Seq(Glyph) /\ Len(Append(p(k), b[k + 1])) = k + 1
            /\ \A i \in 1 .. k + 1 : Append(p(k), b[k + 1])[i] = b[i]
        BY <4>1, <4>2
      <4> QED BY <4>1, <4>2, <4>3, <4>4
    <3> HIDE DEF p
    <3>3. p(k) \in Seq(Shown) /\ b[k + 1] \in Shown
      BY <3>2 DEF Shown
    <3>4. Records(p(k + 1)) = Kept(Records(p(k)), b[k + 1])
      BY <1>17, <3>1, <3>2, <3>3, RecordsAre DEF Kept
    <3>5. Records(f[k + 1].shown) = Kept(R \o Records(p(k)), b[k + 1])
      BY <1>15, <3>1
    <3>6. Records(p(k)) \in Seq(Glyph)
      BY <3>3, RecordsAre
    <3>7. Kept(R \o Records(p(k)), b[k + 1]) = R \o Kept(Records(p(k)), b[k + 1])
      <4>1. \A r \in Seq(Glyph) : Append(R \o r, b[k + 1]) = R \o Append(r, b[k + 1])
        BY <2>1, <3>2, AppendsLast
      <4> QED BY <3>6, <4>1 DEF Kept
    <3> QED BY <3>4, <3>5, <3>7
  <2>4. Nat \subseteq U
    <3> HIDE DEF U
    <3> QED BY <2>2, <2>3, Induct
  <2>5. Records(f[n].shown) = R \o Records(p(n))
    BY <1>1, <2>4, SMTT(30)
  <2>6. p(n) = b
    OBVIOUS
  <2> QED BY <2>5, <2>6 DEF R
<1>18. n = 1 => Records(f[n].shown) = Kept(Records(v.shown), b[1])
  BY <1>15, <1>16
<1> HIDE DEF Good
<1> QED BY <1>13, <1>14, <1>17, <1>18

-----------------------------------------------------------------------------
(* The terminals.                                                          *)

Terminals == {NULL_TTY, "tty0", "tty1"}
Out == [vga : Vga, text_color : Colours, buffer : Seq(Glyph), log : Terminals,
        g_panic : BOOLEAN, wild : BOOLEAN]

\* A character of a thread's text.
TextGlyph == {g \in Glyph : g.ch # "tab" /\ g.rec # <<"junk", 0>>}

\* Until a panic the buffer holds text in the colour the console will be given.
OutInv(o) ==
  /\ o \in Out /\ ScreenInv(o.vga)
  /\ ~o.g_panic => InOneColour(o.buffer, o.text_color)
  /\ o.buffer # << >> => o.log = "tty1"
  /\ \A i \in 1 .. Len(o.buffer) : o.buffer[i].ch # "tab"

\* What was printed, shown or not.
Stream(o) == Records(o.vga.shown) \o Records(o.buffer)

\* The characters the programs write belong to records.
LEMMA TextIsRecorded == ASSUME NEW g \in TextGlyph PROVE g \in Glyph /\ g \in Shown /\ Recorded(g)
<1>1. g.ch # " " /\ g.ch # "tab" /\ g.rec # <<"junk", 0>> /\ g \in Glyph
  BY DEF TextGlyph, Glyph, Chars
<1>2. Space.ch = " " /\ Junk.rec = <<"junk", 0>>
  BY DEF Space, Junk
<1> QED BY <1>1, <1>2 DEF Recorded, Shown

\* What was shown and what is buffered are sequences of characters.
LEMMA StreamIn == ASSUME NEW o, OutInv(o)
                  PROVE  /\ Records(o.vga.shown) \in Seq(Glyph) /\ Records(o.buffer) \in Seq(Glyph)
                         /\ Stream(o) \in Seq(Glyph)
<1>1. o.vga.shown \in Seq(Shown) /\ o.buffer \in Seq(Glyph)
  BY DEF OutInv, ScreenInv, Vga, Out
<1>2. o.buffer \in Seq(Shown)
  BY <1>1 DEF Shown
<1>3. Records(o.vga.shown) \in Seq(Glyph) /\ Records(o.buffer) \in Seq(Glyph)
  BY <1>1, <1>2, RecordsAre
<1> QED BY <1>3 DEF Stream

\* Flushing moves the text to the screen.
LEMMA FlushKeeps ==
  ASSUME NEW o, OutInv(o), ~o.g_panic
  PROVE  LET u == tty_flush(o, "tty1") IN
         /\ OutInv(u) /\ Stream(u) = Stream(o) /\ u.buffer = << >>
         /\ u.text_color = o.text_color /\ u.log = o.log /\ u.g_panic = o.g_panic /\ u.wild = o.wild
<1> DEFINE w == vgatxt_write(o.vga, o.text_color, o.buffer)
           u == tty_flush(o, "tty1")
<1>1. /\ o \in Out /\ ScreenInv(o.vga) /\ InOneColour(o.buffer, o.text_color)
      /\ o.text_color \in Colours /\ o.buffer \in Seq(Glyph)
      /\ \A i \in 1 .. Len(o.buffer) : o.buffer[i].ch # "tab"
  BY DEF OutInv, Out
<1>2. ScreenInv(w) /\ Records(w.shown) = Records(o.vga.shown) \o Records(o.buffer)
  BY <1>1, WriteKeeps
<1>3. u = [[o EXCEPT !.vga = w] EXCEPT !.buffer = << >>]
  BY <1>1 DEF tty_flush, Buffered, console_write, Out
<1> HIDE DEF w
<1>4. w \in Vga
  BY <1>2 DEF ScreenInv
<1>5. /\ u \in Out /\ u.vga = w /\ u.buffer = << >>
      /\ u.text_color = o.text_color /\ u.log = o.log /\ u.g_panic = o.g_panic /\ u.wild = o.wild
  <2>1. << >> \in Seq(Glyph)
    OBVIOUS
  <2>2. u = [o EXCEPT !.vga = w, !.buffer = << >>]
    BY <1>1, <1>3 DEF Out
  <2> QED BY <1>1, <1>4, <2>1, <2>2 DEF Out
<1> HIDE DEF u
<1>6. OutInv(u)
  BY <1>2, <1>5 DEF OutInv, InOneColour
<1>7. Stream(u) = Stream(o)
  <2>1. Stream(u) = Records(w.shown) \o << >>
    BY <1>5, RecordsAre DEF Stream
  <2>2. Stream(o) \in Seq(Glyph) /\ Stream(o) = Records(w.shown)
    BY <1>2, StreamIn DEF Stream
  <2> QED BY <2>1, <2>2
<1> QED BY <1>5, <1>6, <1>7 DEF u

\* Setting the colour flushes what was written in another and changes no text.
LEMMA SetColorKeeps ==
  ASSUME NEW o, OutInv(o), ~o.g_panic, NEW color \in Colours
  PROVE  LET u == SetColor(o, o.log, color) IN
         /\ OutInv(u) /\ Stream(u) = Stream(o) /\ u.buffer \in {<< >>, o.buffer}
         /\ u.text_color = color /\ u.log = o.log /\ u.g_panic = o.g_panic /\ u.wild = o.wild
<1> DEFINE u == SetColor(o, o.log, color)
<1>0. o \in Out
  BY DEF OutInv
<1>1. CASE o.text_color = color
  <2>1. u = [o EXCEPT !.text_color = color]
    BY <1>1 DEF SetColor
  <2>2. u = o
    BY <1>0, <1>1, <2>1 DEF Out
  <2> QED BY <1>1, <2>2
<1>2. CASE o.text_color # color /\ o.log = "tty1"
  <2> DEFINE f == tty_flush(o, "tty1")
  <2>1. u = [f EXCEPT !.text_color = color]
    BY <1>2 DEF SetColor
  <2>2. /\ OutInv(f) /\ Stream(f) = Stream(o) /\ f.buffer = << >>
        /\ f.log = o.log /\ f.g_panic = o.g_panic /\ f.wild = o.wild
    BY FlushKeeps
  <2> HIDE DEF f
  <2>3. /\ u \in Out /\ u.vga = f.vga /\ u.buffer = << >> /\ u.text_color = color
        /\ u.log = o.log /\ u.g_panic = o.g_panic /\ u.wild = o.wild
    BY <2>1, <2>2 DEF OutInv, Out
  <2> HIDE DEF u
  <2>4. OutInv(u)
    BY <2>2, <2>3 DEF OutInv, InOneColour
  <2>5. Stream(u) = Stream(o)
    BY <2>2, <2>3 DEF Stream
  <2> QED BY <2>3, <2>4, <2>5 DEF u
<1>3. CASE o.text_color # color /\ o.log # "tty1"
  <2>1. u = [o EXCEPT !.text_color = color]
    BY <1>3 DEF SetColor, tty_flush, Buffered
  <2>2. o.buffer = << >>
    BY <1>3 DEF OutInv
  <2>3. /\ u \in Out /\ u.vga = o.vga /\ u.buffer = << >> /\ u.text_color = color
        /\ u.log = o.log /\ u.g_panic = o.g_panic /\ u.wild = o.wild
    BY <1>0, <2>1, <2>2 DEF Out
  <2> HIDE DEF u
  <2>4. OutInv(u)
    BY <2>2, <2>3 DEF OutInv, InOneColour
  <2>5. Stream(u) = Stream(o)
    BY <2>2, <2>3 DEF Stream
  <2> QED BY <2>2, <2>3, <2>4, <2>5 DEF u
<1> QED BY <1>1, <1>2, <1>3

\* A character that is written at once.
LEMMA WriteOne ==
  ASSUME NEW v, ScreenInv(v), NEW color \in Colours, NEW g \in Glyph, g.want = color
  PROVE  LET w == vgatxt_write(v, color, <<g>>) IN
         ScreenInv(w) /\ Records(w.shown) = Kept(Records(v.shown), g)
<1> DEFINE b == <<g>>
<1>1. b \in Seq(Glyph) /\ Len(b) = 1 /\ b[1] = g
  OBVIOUS
<1>2. InOneColour(b, color)
  BY <1>1 DEF InOneColour
<1> HIDE DEF b
<1>3. LET w == vgatxt_write(v, color, b) IN
      ScreenInv(w) /\ Records(w.shown) = Kept(Records(v.shown), b[1])
  BY <1>1, <1>2, WriteKeeps
<1> QED BY <1>1, <1>3 DEF b

\* A character is stored; there is room, or the buffer is flushed.
LEMMA StoredKeeps ==
  ASSUME NEW o, OutInv(o), ~o.g_panic, o.log = "tty1", NEW g \in TextGlyph, g.want = o.text_color
  PROVE  LET u == Stored(o, g) IN
         /\ OutInv(u) /\ Stream(u) = Append(Stream(o), g)
         /\ u.text_color = o.text_color /\ u.log = o.log /\ u.g_panic = o.g_panic
<1> DEFINE r == Room(o)
           u == Stored(o, g)
<1>1. /\ OutInv(r) /\ Stream(r) = Stream(o) /\ r.text_color = o.text_color
      /\ r.log = o.log /\ r.g_panic = o.g_panic
  BY FlushKeeps DEF Room
<1>2. u = [r EXCEPT !.buffer = Append(r.buffer, g), !.wild = r.wild \/ Len(r.buffer) > BufferSize]
  BY <1>1 DEF Stored, OutInv, Out
<1> HIDE DEF r
<1>3. r \in Out /\ r.buffer \in Seq(Glyph) /\ g \in Glyph /\ Recorded(g) /\ g \in Shown
  BY <1>1, TextIsRecorded DEF OutInv, Out
<1> DEFINE b == Append(r.buffer, g)
           n == Len(r.buffer)
<1>4. b \in Seq(Glyph) /\ n \in Nat /\ Len(b) = n + 1 /\ b[n + 1] = g /\ \A i \in 1 .. n : b[i] = r.buffer[i]
  BY <1>3
<1>5. Records(b) = Append(Records(r.buffer), g)
  <2>1. r.buffer \in Seq(Shown)
    BY <1>3 DEF Shown
  <2> QED BY <1>3, <2>1, RecordsAre
<1> HIDE DEF b
<1>6. /\ u \in Out /\ u.vga = r.vga /\ u.buffer = b /\ u.text_color = o.text_color
      /\ u.log = o.log /\ u.g_panic = o.g_panic
  <2>1. (r.wild \/ Len(r.buffer) > BufferSize) \in BOOLEAN
    BY <1>3 DEF Out
  <2> QED BY <1>1, <1>2, <1>3, <1>4, <2>1 DEF Out, b
<1> HIDE DEF u
<1>7. InOneColour(b, o.text_color)
  <2>1. InOneColour(r.buffer, o.text_color)
    BY <1>1 DEF OutInv
  <2> HIDE DEF n
  <2>2. ASSUME NEW i \in 1 .. n + 1, b[i] # Junk PROVE b[i].want = o.text_color
    <3>1. CASE i = n + 1
      BY <1>4, <3>1
    <3>2. CASE i # n + 1
      <4>1. i \in 1 .. n
        BY <1>4, <3>2
      <4> QED BY <1>4, <2>1, <2>2, <4>1 DEF InOneColour, n
    <3> QED BY <3>1, <3>2
  <2> QED BY <1>4, <2>2 DEF InOneColour
<1>8. \A i \in 1 .. n + 1 : b[i].ch # "tab"
  <2>1. g.ch # "tab"
    BY DEF TextGlyph
  <2>2. \A i \in 1 .. n : r.buffer[i].ch # "tab"
    BY <1>1 DEF OutInv
  <2> HIDE DEF n
  <2> QED BY <1>4, <2>1, <2>2
<1>9. OutInv(u)
  <2>1. ScreenInv(u.vga)
    BY <1>1, <1>6 DEF OutInv
  <2>2. Len(u.buffer) = n + 1
    BY <1>4, <1>6
  <2> HIDE DEF n
  <2> QED BY <1>6, <1>7, <1>8, <2>1, <2>2 DEF OutInv
<1>10. Stream(u) = Append(Stream(o), g)
  <2>1. Records(r.vga.shown) \in Seq(Glyph) /\ Records(r.buffer) \in Seq(Glyph)
    BY <1>1, StreamIn
  <2>2. Stream(u) = Records(r.vga.shown) \o Append(Records(r.buffer), g)
    BY <1>5, <1>6 DEF Stream
  <2> DEFINE a == Records(r.vga.shown)
             c == Records(r.buffer)
  <2>3. Stream(r) = a \o c
    BY DEF Stream
  <2>4. a \in Seq(Glyph) /\ c \in Seq(Glyph) /\ g \in Glyph
    BY <1>3, <2>1
  <2>5. Stream(u) = a \o Append(c, g)
    BY <2>2
  <2> HIDE DEF a, c
  <2>6. Append(a \o c, g) = a \o Append(c, g)
    BY <2>4, AppendsLast
  <2> QED BY <1>1, <2>3, <2>5, <2>6
<1> QED BY <1>6, <1>9, <1>10 DEF u

\* A character of a text, when no panic is under way.
LEMMA PutcPrints ==
  ASSUME NEW o, OutInv(o), ~o.g_panic, o.log # NULL_TTY, NEW g \in TextGlyph, g.want = o.text_color
  PROVE  LET u == gp_putc(o, o.log, g) IN
         /\ OutInv(u) /\ Stream(u) = Append(Stream(o), g)
         /\ u.text_color = o.text_color /\ u.log = o.log /\ u.g_panic = o.g_panic
         /\ g.ch = "newline" => u.buffer = << >>
         /\ u.buffer # << >> => u.log = "tty1"
<1> DEFINE u == gp_putc(o, o.log, g)
<1>0. o \in Out /\ g \in Glyph /\ Recorded(g)
  BY TextIsRecorded DEF OutInv
<1>1. CASE o.log = "tty0"
  <2> DEFINE w == vgatxt_write(o.vga, o.text_color, <<g>>)
  <2>1. u = [o EXCEPT !.vga = w]
    BY <1>0, <1>1 DEF gp_putc, console_write, Out, NULL_TTY
  <2>2. ScreenInv(w) /\ Records(w.shown) = Append(Records(o.vga.shown), g)
    <3>1. ScreenInv(o.vga) /\ o.text_color \in Colours
      BY <1>0 DEF OutInv, Out
    <3>2. ScreenInv(w) /\ Records(w.shown) = Kept(Records(o.vga.shown), g)
      BY <1>0, <3>1, WriteOne
    <3> HIDE DEF w
    <3> QED BY <1>0, <3>2 DEF Kept
  <2> HIDE DEF w
  <2>3. o.buffer = << >>
    BY <1>1 DEF OutInv
  <2>4. /\ u \in Out /\ u.vga = w /\ u.buffer = << >> /\ u.text_color = o.text_color
        /\ u.log = o.log /\ u.g_panic = o.g_panic
    BY <1>0, <2>1, <2>2, <2>3 DEF Out, ScreenInv
  <2> HIDE DEF u
  <2>5. OutInv(u)
    BY <2>2, <2>4 DEF OutInv, InOneColour
  <2>6. Stream(u) = Append(Stream(o), g)
    <3>1. Records(o.vga.shown) \in Seq(Glyph)
      BY StreamIn
    <3>2. Stream(u) = Append(Records(o.vga.shown), g) \o << >>
      BY <2>2, <2>4, RecordsAre DEF Stream
    <3>3. Stream(o) = Records(o.vga.shown) \o << >>
      BY <2>3, RecordsAre DEF Stream
    <3>4. Append(Records(o.vga.shown), g) \in Seq(Glyph)
      BY <1>0, <3>1
    <3> QED BY <3>1, <3>2, <3>3, <3>4
  <2> QED BY <2>4, <2>5, <2>6 DEF u
<1>2. CASE o.log = "tty1"
  <2> DEFINE s == Stored(o, g)
  <2>1. u = IF g.ch = "newline" THEN tty_flush(s, "tty1") ELSE s
    BY <1>0, <1>2 DEF gp_putc, NULL_TTY
  <2>2. /\ OutInv(s) /\ Stream(s) = Append(Stream(o), g)
        /\ s.text_color = o.text_color /\ s.log = o.log /\ s.g_panic = o.g_panic
    BY <1>2, StoredKeeps
  <2> HIDE DEF s
  <2>3. CASE g.ch = "newline"
    <3> HIDE DEF u
    <3>1. u = tty_flush(s, "tty1")
      BY <2>1, <2>3
    <3> QED BY <2>2, <3>1, FlushKeeps DEF u
  <2>4. CASE g.ch # "newline"
    BY <1>2, <2>1, <2>2, <2>4
  <2> QED BY <2>3, <2>4
<1> QED BY <1>0, <1>1, <1>2 DEF Out, Terminals

\* A character of a panic.
LEMMA PutcPanics ==
  ASSUME NEW o, OutInv(o), o.g_panic, NEW g \in Glyph, g.want = CON_COLOR_RED, NEW tty
  PROVE  LET u == gp_putc(o, tty, g) IN
         /\ OutInv(u) /\ u.g_panic /\ u.log = o.log /\ u.buffer = o.buffer
         /\ Records(u.vga.shown) = Kept(Records(o.vga.shown), g)
<1> DEFINE w == vgatxt_write(o.vga, CON_COLOR_RED, <<g>>)
           u == gp_putc(o, tty, g)
<1>1. o \in Out /\ ScreenInv(o.vga) /\ CON_COLOR_RED \in Colours
  BY DEF OutInv, CON_COLOR_RED, Colours
<1>2. ScreenInv(w) /\ Records(w.shown) = Kept(Records(o.vga.shown), g)
  BY <1>1, WriteOne
<1>3. u = [[o EXCEPT !.text_color = CON_COLOR_RED] EXCEPT !.vga = w]
  BY <1>1 DEF gp_putc, console_write, Out
<1> HIDE DEF w
<1>4. /\ u \in Out /\ u.vga = w /\ u.buffer = o.buffer /\ u.g_panic /\ u.log = o.log
  BY <1>1, <1>2, <1>3 DEF Out, ScreenInv
<1> HIDE DEF u
<1>5. OutInv(u)
  BY <1>2, <1>4 DEF OutInv
<1> QED BY <1>2, <1>4, <1>5 DEF u

\* An empty screen shows the empty line.
LEMMA FirstLine ==
  ASSUME NEW v \in Vga, v.screenX = 0, v.screenY = 0, v.shown = << >>,
         \A y \in Rows, x \in Columns : v.screen[y][x].glyph = None
  PROVE  ScreenInv(v)
<1> DEFINE lines == << << >> >>
<1>1. Lines(v.shown) = lines /\ Len(lines) = 1 /\ lines[1] = << >> /\ DOMAIN lines = {1}
      /\ DOMAIN << >> = {} /\ Len(<< >>) = 0
  BY LinesAre
<1> HIDE DEF lines
<1>2. Above(lines) = 0 /\ Last(lines) = << >>
  BY <1>1, ScreenAssumption DEF Above, Last
<1>3. \A i, j : GlyphAt(lines, i, j) = None
  BY <1>1 DEF GlyphAt
<1>4. ShowsLines(v, lines)
  BY <1>1, <1>2, <1>3 DEF ShowsLines, CellsShow
<1>5. CellsColoured(v.screen)
  BY DEF CellsColoured
<1> QED BY <1>1, <1>4, <1>5 DEF ScreenInv

\* Before the console is set up.
LEMMA NoOutputYet ==
  /\ OutInv(NoOutput) /\ ~NoOutput.g_panic /\ NoOutput.log = NULL_TTY
  /\ NoOutput.buffer = << >> /\ Stream(NoOutput) = << >>
<1>1. 0 \in Rows /\ 0 \in Columns /\ << >> \in Seq(Shown) /\ << >> \in Seq(Glyph)
  BY ScreenAssumption DEF Rows, Columns
<1>2. [glyph |-> None, color |-> 0] \in ScreenCell
  BY DEF ScreenCell
<1>3. Unlit \in Vga
  BY <1>1, <1>2 DEF Unlit, Vga
<1>4. ScreenInv(Unlit)
  <2>1. /\ Unlit.screenX = 0 /\ Unlit.screenY = 0 /\ Unlit.shown = << >>
        /\ \A y \in Rows, x \in Columns : Unlit.screen[y][x].glyph = None
    BY DEF Unlit
  <2> QED BY <1>3, <2>1, FirstLine
<1>5. NoOutput \in Out
  BY <1>1, <1>3 DEF NoOutput, Out, Colours, Terminals
<1>6. OutInv(NoOutput)
  BY <1>4, <1>5 DEF OutInv, NoOutput, InOneColour
<1>7. Stream(NoOutput) = << >>
  BY RecordsAre DEF Stream, NoOutput, Unlit
<1> QED BY <1>6, <1>7 DEF NoOutput

\* After it is set up and cleared.
LEMMA ConsoleCleared ==
  ASSUME NEW o, OutInv(o), ~o.g_panic, o.buffer = << >>
  PROVE  LET u == logging_set_tty(tty_clear(initialize_console_manager(o)), "tty0") IN
         /\ OutInv(u) /\ ~u.g_panic /\ u.log = "tty0" /\ u.buffer = << >> /\ Stream(u) = << >>
<1> DEFINE v == o.vga
           blank == [y \in Rows |-> [x \in Columns |-> Blank(v)]]
           w == [v EXCEPT !.screenX = 0, !.screenY = 0, !.screen = blank, !.shown = << >>]
           u == logging_set_tty(tty_clear(initialize_console_manager(o)), "tty0")
<1>1. o \in Out /\ v \in Vga /\ 0 \in Rows /\ 0 \in Columns /\ << >> \in Seq(Shown)
  BY ScreenAssumption DEF OutInv, Out, Rows, Columns
<1>2. Blank(v) \in ScreenCell /\ Blank(v).glyph = None
  BY <1>1, BlankCell
<1> HIDE DEF v
<1>3. blank \in [Rows -> [Columns -> ScreenCell]]
  BY <1>2
<1>4. \A y \in Rows, x \in Columns : blank[y][x].glyph = None
  BY <1>2
<1> HIDE DEF blank
<1>5. /\ w \in Vga /\ w.screenX = 0 /\ w.screenY = 0 /\ w.shown = << >> /\ w.screen = blank
  BY <1>1, <1>3 DEF Vga
<1>6. ScreenInv(w)
  <2> HIDE DEF w
  <2> QED BY <1>4, <1>5, FirstLine
<1>7. u = [o EXCEPT !.vga = w, !.text_color = CON_COLOR_WHITE, !.log = "tty0"]
  <2>1. Blank(vga_txt_get_earlyconsole(v)) = Blank(v)
    BY <1>1 DEF Blank, vga_txt_get_earlyconsole, Vga
  <2>2. vgatxt_clr_screen(vga_txt_get_earlyconsole(v)) = w
    BY <1>1, <2>1 DEF vgatxt_clr_screen, vga_txt_get_earlyconsole, Vga, blank
  <2>3. initialize_console_manager(o)
          = [o EXCEPT !.vga = vga_txt_get_earlyconsole(v), !.text_color = CON_COLOR_WHITE]
    BY <1>1 DEF initialize_console_manager, Out, v
  <2>4. tty_clear(initialize_console_manager(o))
          = [o EXCEPT !.vga = vgatxt_clr_screen(vga_txt_get_earlyconsole(v)),
                      !.text_color = CON_COLOR_WHITE]
    BY <1>1, <2>3 DEF tty_clear, Out
  <2> HIDE DEF w
  <2> QED BY <1>1, <2>2, <2>4 DEF logging_set_tty, Out
<1> HIDE DEF w
<1>8. /\ u \in Out /\ u.vga = w /\ u.log = "tty0" /\ u.buffer = << >> /\ ~u.g_panic
  <2>1. CON_COLOR_WHITE \in Colours /\ "tty0" \in Terminals
    BY DEF Colours, CON_COLOR_WHITE, Terminals
  <2> QED BY <1>1, <1>5, <1>7, <2>1 DEF Out
<1> HIDE DEF u
<1>9. OutInv(u)
  BY <1>6, <1>8 DEF OutInv, InOneColour
<1>10. Stream(u) = << >>
  BY <1>5, <1>8, RecordsAre DEF Stream
<1> QED BY <1>8, <1>9, <1>10 DEF u

\* What nobody wrote is in no record.
LEMMA JunkIsNoRecord ==
  ASSUME NEW n \in Nat
  PROVE  LET b == [i \in 1 .. n |-> Junk] IN b \in Seq(Glyph) /\ Records(b) = << >>
<1> DEFINE b(k) == [i \in 1 .. k |-> Junk]
           T == {k \in Nat : Records(b(k)) = << >>}
<1>1. Junk \in Glyph /\ Junk \in Shown /\ ~Recorded(Junk)
  <2>1. Junk \in Glyph
    <3>1. "?" \in Chars /\ 0 \in Colours /\ <<"junk", 0>> \in Writers \X Nat
      BY DEF Colours, Chars, Writers
    <3> QED BY <3>1 DEF Junk, Glyph
  <2> QED BY <2>1 DEF Shown, Recorded
<1>2. \A k \in Nat : b(k) \in Seq(Shown) /\ b(k) \in Seq(Glyph) /\ Len(b(k)) = k
  BY <1>1
<1>3. 0 \in T
  <2>1. b(0) = << >>
    OBVIOUS
  <2> HIDE DEF b
  <2> QED BY <2>1, RecordsAre
<1>4. ASSUME NEW k \in Nat, k \in T PROVE k + 1 \in T
  <2>1. \A i \in 1 .. k + 1 : Append(b(k), Junk)[i] = b(k + 1)[i]
    BY <1>1, <1>2
  <2>2. Append(b(k), Junk) \in Seq(Shown) /\ Len(Append(b(k), Junk)) = k + 1
    BY <1>1, <1>2
  <2>3. b(k + 1) \in Seq(Shown) /\ Len(b(k + 1)) = k + 1
    BY <1>2
  <2> HIDE DEF b
  <2>4. b(k + 1) = Append(b(k), Junk)
    BY <2>1, <2>2, <2>3
  <2>5. Records(b(k + 1)) = Records(b(k))
    BY <1>1, <1>2, <2>4, RecordsAre
  <2> QED BY <1>4, <2>5
<1>5. Nat \subseteq T
  <2> HIDE DEF T
  <2> QED BY <1>3, <1>4, Induct
<1> QED BY <1>2, <1>5

\* Constructing tty1 shows nothing, and what its stale position counts as written
\* is of no record.
LEMMA Tty1Made ==
  ASSUME NEW o, OutInv(o), ~o.g_panic, o.buffer = << >>, NEW position \in Nat
  PROVE  LET u == logging_set_tty(construct_tty(o, position), "tty1") IN
         /\ OutInv(u) /\ ~u.g_panic /\ u.log = "tty1" /\ Stream(u) = Stream(o)
<1> DEFINE b == [i \in 1 .. position |-> Junk]
           u == logging_set_tty(construct_tty(o, position), "tty1")
<1>1. b \in Seq(Glyph) /\ Records(b) = << >> /\ Len(b) = position
  BY JunkIsNoRecord
<1>2. \A i \in 1 .. position : b[i] = Junk
  OBVIOUS
<1>3. u = [o EXCEPT !.buffer = b, !.log = "tty1"]
  BY DEF logging_set_tty, construct_tty, OutInv, Out
<1> HIDE DEF b
<1>4. /\ u \in Out /\ u.vga = o.vga /\ u.buffer = b /\ u.log = "tty1" /\ ~u.g_panic
      /\ u.text_color = o.text_color
  BY <1>1, <1>3 DEF OutInv, Out, Terminals
<1> HIDE DEF u
<1>5. OutInv(u)
  <2>1. \A i \in 1 .. Len(b) : b[i] = Junk /\ b[i].ch # "tab"
    BY <1>1, <1>2 DEF Junk
  <2>2. ScreenInv(u.vga)
    BY <1>4 DEF OutInv
  <2> QED BY <1>4, <2>1, <2>2 DEF OutInv, InOneColour
<1>6. Stream(u) = Stream(o)
  BY <1>1, <1>4, RecordsAre DEF Stream
<1> QED BY <1>4, <1>5, <1>6 DEF u

-----------------------------------------------------------------------------
(* What is printed: the scopes of the lock, colours and records of a code.  *)

Instr == [op : {"lock"}, calm : BOOLEAN] \cup [op : {"unlock"}]
           \cup [op : {"color"}, color : Colours] \cup [op : {"putc"}, glyph : TextGlyph]

Writes(i) == i.op \in {"color", "putc"}
ColourOf(i) == IF i.op = "color" THEN i.color ELSE i.glyph.want

\* d[l] scopes of the lock are open after l instructions: at least one wherever
\* something is written; what is written is in the colour set last.
Nested(code, d) ==
  /\ code \in Seq(Instr) /\ d \in [0 .. Len(code) -> Nat] /\ d[0] = 0 /\ d[Len(code)] = 0
  /\ \A l \in 1 .. Len(code) :
       /\ code[l].op = "lock" => d[l] = d[l - 1] + 1
       /\ code[l].op = "unlock" => d[l - 1] = d[l] + 1
       /\ Writes(code[l]) => d[l] = d[l - 1] /\ d[l] >= 1
       /\ code[l].op = "putc" => /\ l > 1 /\ Writes(code[l - 1])
                                 /\ ColourOf(code[l - 1]) = code[l].glyph.want

OfRecord(code, rec) == \A l \in 1 .. Len(code) : code[l].op = "putc" => code[l].glyph.rec = rec

\* A code that keeps the lock while it writes a record.
Block(code, d, rec) ==
  Nested(code, d) /\ OfRecord(code, rec) /\ \A l \in 1 .. Len(code) - 1 : d[l] >= 1

\* The last character is a newline.
EndsLine(code) ==
  \E k \in 1 .. Len(code) :
    /\ code[k].op = "putc" /\ code[k].glyph.ch = "newline"
    /\ \A l \in k + 1 .. Len(code) : code[l].op # "putc"

IsJoin(w, s, t) ==
  /\ w \in Seq(Instr) /\ Len(w) = Len(s) + Len(t)
  /\ \A l \in 1 .. Len(s) : w[l] = s[l]
  /\ \A l \in 1 .. Len(t) : w[Len(s) + l] = t[l]

\* Concatenation joins two codes.
LEMMA Joined == ASSUME NEW s \in Seq(Instr), NEW t \in Seq(Instr) PROVE IsJoin(s \o t, s, t)
BY DEF IsJoin

\* Codes may be joined in either order.
LEMMA JoinAssociates ==
  ASSUME NEW r \in Seq(Instr), NEW s \in Seq(Instr), NEW t \in Seq(Instr)
  PROVE  (r \o s) \o t = r \o (s \o t)
<1> DEFINE a == (r \o s) \o t
           b == r \o (s \o t)
           n == Len(r) + Len(s) + Len(t)
<1>1. n \in Nat /\ a \in Seq(Instr) /\ b \in Seq(Instr) /\ Len(a) = n /\ Len(b) = n
  OBVIOUS
<1>2. ASSUME NEW l \in 1 .. n PROVE a[l] = b[l]
  <2>1. CASE l <= Len(r)
    BY <2>1
  <2>2. CASE l > Len(r) /\ l <= Len(r) + Len(s)
    BY <2>2
  <2>3. CASE l > Len(r) + Len(s)
    BY <2>3
  <2> QED BY <2>1, <2>2, <2>3
<1> HIDE DEF a, b, n
<1>3. a = b
  BY <1>1, <1>2
<1> QED BY <1>3 DEF a, b

\* One code after another.
After(n, d, m, e) == [l \in 0 .. n + m |-> IF l <= n THEN d[l] ELSE e[l - n]]

\* The depths of two codes, one after the other.
LEMMA AfterIs ==
  ASSUME NEW n \in Nat, NEW m \in Nat, NEW d \in [0 .. n -> Nat], NEW e \in [0 .. m -> Nat],
         d[n] = 0, e[0] = 0
  PROVE  LET f == After(n, d, m, e) IN
         /\ f \in [0 .. n + m -> Nat]
         /\ \A l \in 0 .. n : f[l] = d[l]
         /\ \A l \in 0 .. m : f[n + l] = e[l]
<1> DEFINE f == After(n, d, m, e)
<1>1. ASSUME NEW l \in 0 .. n + m PROVE (IF l <= n THEN d[l] ELSE e[l - n]) \in Nat
  <2>1. CASE l <= n
    BY <2>1
  <2>2. CASE ~(l <= n)
    <3>1. l - n \in 0 .. m
      BY <2>2
    <3> QED BY <2>2, <3>1
  <2> QED BY <2>1, <2>2
<1>2. f \in [0 .. n + m -> Nat]
  BY <1>1 DEF After
<1>3. ASSUME NEW l \in 0 .. n PROVE f[l] = d[l]
  BY DEF After
<1>4. ASSUME NEW l \in 0 .. m PROVE f[n + l] = e[l]
  <2>1. CASE l = 0
    BY <1>3, <2>1
  <2>2. CASE l # 0
    <3>1. ~(n + l <= n) /\ n + l \in 0 .. n + m /\ (n + l) - n = l
      BY <2>2
    <3> QED BY <3>1 DEF After
  <2> QED BY <2>1, <2>2
<1> QED BY <1>2, <1>3, <1>4

\* Two codes whose scopes nest, one after the other.
LEMMA NestedJoin ==
  ASSUME NEW s, NEW t, NEW w, NEW d, NEW e, Nested(s, d), Nested(t, e), IsJoin(w, s, t)
  PROVE  Nested(w, After(Len(s), d, Len(t), e))
<1> DEFINE n == Len(s)
           m == Len(t)
           f == After(n, d, m, e)
<1>1. /\ n \in Nat /\ m \in Nat /\ d \in [0 .. n -> Nat] /\ e \in [0 .. m -> Nat]
      /\ d[0] = 0 /\ d[n] = 0 /\ e[0] = 0 /\ e[m] = 0
      /\ w \in Seq(Instr) /\ Len(w) = n + m
      /\ \A l \in 1 .. n : w[l] = s[l]
      /\ \A l \in 1 .. m : w[n + l] = t[l]
  <2>1. n \in Nat /\ d \in [0 .. n -> Nat] /\ d[0] = 0 /\ d[n] = 0
    BY ONLY Nested(s, d) DEF Nested
  <2>2. m \in Nat /\ e \in [0 .. m -> Nat] /\ e[0] = 0 /\ e[m] = 0
    BY ONLY Nested(t, e) DEF Nested
  <2>3. /\ w \in Seq(Instr) /\ Len(w) = n + m
        /\ \A l \in 1 .. n : w[l] = s[l]
        /\ \A l \in 1 .. m : w[n + l] = t[l]
    BY ONLY IsJoin(w, s, t) DEF IsJoin
  <2> QED BY <2>1, <2>2, <2>3
<1> HIDE DEF n, m
<1>2. /\ f \in [0 .. n + m -> Nat]
      /\ \A l \in 0 .. n : f[l] = d[l]
      /\ \A l \in 0 .. m : f[n + l] = e[l]
  BY <1>1, AfterIs
<1> HIDE DEF f
<1>3. f[0] = 0 /\ f[n + m] = 0
  BY <1>1, <1>2
<1>4. ASSUME NEW l \in 1 .. n + m
      PROVE  /\ w[l].op = "lock" => f[l] = f[l - 1] + 1
             /\ w[l].op = "unlock" => f[l - 1] = f[l] + 1
             /\ Writes(w[l]) => f[l] = f[l - 1] /\ f[l] >= 1
             /\ w[l].op = "putc" => /\ l > 1 /\ Writes(w[l - 1])
                                    /\ ColourOf(w[l - 1]) = w[l].glyph.want
  <2>1. CASE l <= n
    <3>1. l \in 1 .. n /\ l - 1 \in 0 .. n /\ l \in 0 .. n /\ (l > 1 => l - 1 \in 1 .. n)
      BY <1>1, <2>1
    <3>2. w[l] = s[l] /\ f[l] = d[l] /\ f[l - 1] = d[l - 1] /\ (l > 1 => w[l - 1] = s[l - 1])
      BY <1>1, <1>2, <3>1
    <3>3. /\ s[l].op = "lock" => d[l] = d[l - 1] + 1
          /\ s[l].op = "unlock" => d[l - 1] = d[l] + 1
          /\ Writes(s[l]) => d[l] = d[l - 1] /\ d[l] >= 1
          /\ s[l].op = "putc" => /\ l > 1 /\ Writes(s[l - 1])
                                 /\ ColourOf(s[l - 1]) = s[l].glyph.want
      BY <3>1 DEF Nested, n
    <3> QED BY <3>2, <3>3
  <2>2. CASE ~(l <= n)
    <3> DEFINE k == l - n
    <3>1. k \in 1 .. m /\ k - 1 \in 0 .. m /\ k \in 0 .. m /\ (k > 1 => k - 1 \in 1 .. m)
          /\ l = n + k /\ l - 1 = n + (k - 1) /\ (k > 1 => l > 1)
      BY <1>1, <2>2
    <3> HIDE DEF k
    <3>2. w[l] = t[k] /\ f[l] = e[k] /\ f[l - 1] = e[k - 1] /\ (k > 1 => w[l - 1] = t[k - 1])
      BY <1>1, <1>2, <3>1
    <3>3. /\ t[k].op = "lock" => e[k] = e[k - 1] + 1
          /\ t[k].op = "unlock" => e[k - 1] = e[k] + 1
          /\ Writes(t[k]) => e[k] = e[k - 1] /\ e[k] >= 1
          /\ t[k].op = "putc" => /\ k > 1 /\ Writes(t[k - 1])
                                 /\ ColourOf(t[k - 1]) = t[k].glyph.want
      BY <3>1 DEF Nested, m
    <3> QED BY <3>1, <3>2, <3>3
  <2> QED BY <2>1, <2>2
<1>5. Nested(w, f)
  BY <1>1, <1>2, <1>3, <1>4 DEF Nested
<1> QED BY <1>5 DEF f, n, m

\* Two codes of one record, one after the other.
LEMMA OfRecordJoin ==
  ASSUME NEW s, NEW t, NEW w, NEW rec, s \in Seq(Instr), t \in Seq(Instr),
         OfRecord(s, rec), OfRecord(t, rec), IsJoin(w, s, t)
  PROVE  OfRecord(w, rec)
<1> SUFFICES ASSUME NEW l \in 1 .. Len(w), w[l].op = "putc" PROVE w[l].glyph.rec = rec
  BY DEF OfRecord
<1>1. CASE l <= Len(s)
  <2>1. l \in 1 .. Len(s)
    BY <1>1 DEF IsJoin
  <2> QED BY <2>1 DEF IsJoin, OfRecord
<1>2. CASE ~(l <= Len(s))
  <2>1. l - Len(s) \in 1 .. Len(t) /\ l = Len(s) + (l - Len(s))
    BY <1>2 DEF IsJoin
  <2>2. w[l] = t[l - Len(s)]
    BY <2>1 DEF IsJoin
  <2> QED BY <2>1, <2>2 DEF OfRecord
<1> QED BY <1>1, <1>2

\* What follows decides how a code ends.
LEMMA EndsJoin ==
  ASSUME NEW s, NEW t, NEW w, s \in Seq(Instr), t \in Seq(Instr), EndsLine(t), IsJoin(w, s, t)
  PROVE  EndsLine(w)
<1> DEFINE n == Len(s)
           m == Len(t)
<1>1. PICK k \in 1 .. m : /\ t[k].op = "putc" /\ t[k].glyph.ch = "newline"
                          /\ \A l \in k + 1 .. m : t[l].op # "putc"
  BY DEF EndsLine
<1>2. n \in Nat /\ m \in Nat /\ Len(w) = n + m /\ \A l \in 1 .. m : w[n + l] = t[l]
  BY DEF IsJoin
<1> HIDE DEF n, m
<1>3. n + k \in 1 .. Len(w) /\ w[n + k] = t[k]
  BY <1>2
<1>4. ASSUME NEW l \in n + k + 1 .. Len(w) PROVE w[l].op # "putc"
  <2>1. l - n \in k + 1 .. m /\ l - n \in 1 .. m /\ l = n + (l - n)
    BY <1>2
  <2>2. w[l] = t[l - n]
    BY <1>2, <2>1
  <2> QED BY <1>1, <2>1, <2>2
<1> QED BY <1>1, <1>3, <1>4 DEF EndsLine
\* A text without tabs.
Text == Seq(Chars \ {"tab"})

Putcs(text, color, rec) == [i \in DOMAIN text |-> [op |-> "putc", glyph |-> Glyphs(text, color, rec)[i]]]

\* The characters of a text, in one colour and of one record.
LEMMA PutcsAre ==
  ASSUME NEW color \in Colours, NEW text \in Text, NEW rec \in Writers \X Nat, rec # <<"junk", 0>>
  PROVE  LET p == Putcs(text, color, rec) IN
         /\ p \in Seq(Instr) /\ Len(p) = Len(text)
         /\ \A i \in 1 .. Len(text) : /\ p[i].op = "putc" /\ p[i].glyph.ch = text[i]
                                      /\ p[i].glyph.want = color /\ p[i].glyph.rec = rec
<1> DEFINE p == Putcs(text, color, rec)
           n == Len(text)
<1>1. n \in Nat /\ DOMAIN text = 1 .. n /\ \A i \in 1 .. n : text[i] \in Chars \ {"tab"}
  BY DEF Text
<1>2. ASSUME NEW i \in 1 .. n
      PROVE  /\ p[i] \in Instr /\ p[i].op = "putc" /\ p[i].glyph.ch = text[i]
             /\ p[i].glyph.want = color /\ p[i].glyph.rec = rec
  <2> DEFINE g == [ch |-> text[i], want |-> color, rec |-> rec]
  <2>1. g \in TextGlyph /\ g.ch = text[i] /\ g.want = color /\ g.rec = rec
    BY <1>1 DEF TextGlyph, Glyph
  <2>2. p[i] = [op |-> "putc", glyph |-> g]
    BY <1>1 DEF Putcs, Glyphs
  <2> HIDE DEF g
  <2> QED BY <2>1, <2>2 DEF Instr
<1>3. p \in [1 .. n -> Instr]
  <2>1. p = [i \in 1 .. n |-> p[i]]
    BY <1>1 DEF Putcs
  <2> HIDE DEF p
  <2> QED BY <1>2, <2>1
<1> HIDE DEF p
<1>4. p \in Seq(Instr) /\ Len(p) = n
  BY <1>1, <1>3
<1> QED BY <1>2, <1>4 DEF p

\* A printf is a record of its own, in one scope of the lock.
LEMMA Printf ==
  ASSUME NEW color \in Colours, NEW text \in Text, NEW rec \in Writers \X Nat, rec # <<"junk", 0>>
  PROVE  LET c == tty_printf(color, text, rec) IN
         /\ c \in Seq(Instr) /\ \E d : Block(c, d, rec)
         /\ Len(text) > 0 /\ text[Len(text)] = "newline" => EndsLine(c)
<1> DEFINE p == Putcs(text, color, rec)
           n == Len(text)
           b == <<[op |-> "lock", calm |-> TRUE], [op |-> "color", color |-> color]>>
           c == tty_printf(color, text, rec)
           d == [l \in 0 .. n + 3 |-> IF l = 0 \/ l = n + 3 THEN 0 ELSE 1]
<1>1. /\ p \in Seq(Instr) /\ Len(p) = n /\ n \in Nat
      /\ \A i \in 1 .. n : /\ p[i].op = "putc" /\ p[i].glyph.ch = text[i]
                           /\ p[i].glyph.want = color /\ p[i].glyph.rec = rec
  <2>1. n \in Nat
    BY DEF Text
  <2> QED BY <2>1, PutcsAre
<1>2. b \in Seq(Instr) /\ Len(b) = 2 /\ b[1].op = "lock" /\ b[2].op = "color" /\ b[2].color = color
  <2>1. [op |-> "lock", calm |-> TRUE] \in Instr /\ [op |-> "color", color |-> color] \in Instr
    BY DEF Instr
  <2> QED BY <2>1
<1>3. Unlock \in Seq(Instr) /\ Len(Unlock) = 1 /\ Unlock[1].op = "unlock"
  <2>1. [op |-> "unlock"] \in Instr
    BY DEF Instr
  <2> QED BY <2>1 DEF Unlock
<1>4. c = (b \o p) \o Unlock
  BY DEF tty_printf, Putcs
<1> HIDE DEF p, b, c
<1>5. /\ c \in Seq(Instr) /\ Len(c) = n + 3
      /\ c[1] = b[1] /\ c[2] = b[2] /\ c[n + 3] = Unlock[1]
      /\ \A i \in 1 .. n : c[i + 2] = p[i]
  <2> DEFINE x == b \o p
  <2>1. x \in Seq(Instr) /\ Len(x) = n + 2 /\ x[1] = b[1] /\ x[2] = b[2]
        /\ \A i \in 1 .. n : x[i + 2] = p[i]
    <3>1. IsJoin(x, b, p)
      BY <1>1, <1>2, Joined
    <3> HIDE DEF x
    <3> QED BY <1>1, <1>2, <3>1 DEF IsJoin
  <2> HIDE DEF x
  <2>2. /\ c \in Seq(Instr) /\ Len(c) = n + 3 /\ c[n + 3] = Unlock[1]
        /\ \A i \in 1 .. n + 2 : c[i] = x[i]
    <3>1. IsJoin(c, x, Unlock)
      BY <1>3, <1>4, <2>1, Joined DEF x
    <3> QED BY <1>1, <1>3, <2>1, <3>1 DEF IsJoin
  <2> QED BY <1>1, <2>1, <2>2
<1>6. /\ c[1].op = "lock" /\ c[2].op = "color" /\ c[2].color = color /\ c[n + 3].op = "unlock"
      /\ \A l \in 3 .. n + 2 : /\ c[l].op = "putc" /\ c[l].glyph.ch = text[l - 2]
                               /\ c[l].glyph.want = color /\ c[l].glyph.rec = rec
  <2>1. ASSUME NEW l \in 3 .. n + 2 PROVE l - 2 \in 1 .. n /\ c[l] = p[l - 2]
    <3>1. l - 2 \in 1 .. n /\ (l - 2) + 2 = l
      BY <1>1
    <3>2. c[(l - 2) + 2] = p[l - 2]
      BY <1>5, <3>1
    <3> QED BY <3>1, <3>2
  <2> QED BY <1>1, <1>2, <1>3, <1>5, <2>1, SMTT(30)
<1>7. /\ d \in [0 .. n + 3 -> Nat] /\ d[0] = 0 /\ d[n + 3] = 0
      /\ \A l \in 1 .. n + 2 : d[l] = 1
  BY <1>1
<1> HIDE DEF d
<1>8. ASSUME NEW l \in 1 .. n + 3
      PROVE  /\ c[l].op = "lock" => d[l] = d[l - 1] + 1
             /\ c[l].op = "unlock" => d[l - 1] = d[l] + 1
             /\ Writes(c[l]) => d[l] = d[l - 1] /\ d[l] >= 1
             /\ c[l].op = "putc" => /\ l > 1 /\ Writes(c[l - 1])
                                    /\ ColourOf(c[l - 1]) = c[l].glyph.want
  <2>1. CASE l = 1
    BY <1>6, <1>7, <2>1, <1>1 DEF Writes
  <2>2. CASE l = 2
    <3>1. d[1] = 1 /\ d[2] = 1
      BY <1>1, <1>7
    <3> QED BY <1>6, <3>1, <2>2 DEF Writes
  <2>3. CASE l = n + 3
    <3>1. n + 2 \in 1 .. n + 2 /\ (n + 3) - 1 = n + 2
      BY <1>1
    <3>2. d[n + 2] = 1
      BY <1>7, <3>1
    <3> QED BY <1>6, <1>7, <2>3, <3>1, <3>2 DEF Writes
  <2>4. CASE l \in 3 .. n + 2
    <3>1. l \in 1 .. n + 2 /\ l - 1 \in 1 .. n + 2 /\ l > 1 /\ (l - 1 = 2 \/ l - 1 \in 3 .. n + 2)
      BY <2>4, <1>1
    <3>2. d[l] = 1 /\ d[l - 1] = 1
      BY <1>7, <3>1
    <3>3. c[l].op = "putc" /\ c[l].glyph.want = color
      BY <1>6, <2>4
    <3>4. Writes(c[l - 1]) /\ ColourOf(c[l - 1]) = color
      BY <1>6, <3>1 DEF Writes, ColourOf
    <3> QED BY <3>1, <3>2, <3>3, <3>4 DEF Writes
  <2> QED BY <1>1, <2>1, <2>2, <2>3, <2>4
<1>9. Nested(c, d)
  BY <1>5, <1>7, <1>8 DEF Nested
<1>10. OfRecord(c, rec)
  <2>1. \A l \in 1 .. n + 3 : l = 1 \/ l = 2 \/ l = n + 3 \/ l \in 3 .. n + 2
    BY <1>1
  <2> QED BY <1>5, <1>6, <2>1 DEF OfRecord
<1>11. Block(c, d, rec)
  BY <1>1, <1>5, <1>7, <1>9, <1>10 DEF Block
<1>12. ASSUME n > 0, text[n] = "newline" PROVE EndsLine(c)
  <2>1. n + 2 \in 3 .. n + 2 /\ (n + 2) - 2 = n /\ n + 2 \in 1 .. Len(c)
    BY <1>1, <1>5, <1>12
  <2>2. c[n + 2].op = "putc" /\ c[n + 2].glyph.ch = "newline"
    BY <1>6, <1>12, <2>1
  <2>3. \A l \in (n + 2) + 1 .. Len(c) : l = n + 3
    BY <1>1, <1>5
  <2> QED BY <1>6, <2>1, <2>2, <2>3 DEF EndsLine
<1> QED BY <1>5, <1>11, <1>12 DEF c

\* A scope of the lock around a code.
LEMMA Wrap ==
  ASSUME NEW c, NEW d, NEW rec, Nested(c, d), OfRecord(c, rec)
  PROVE  LET w == (Lock \o c) \o Unlock IN
         /\ w \in Seq(Instr) /\ \E e : Block(w, e, rec)
         /\ EndsLine(c) => EndsLine(w)
<1> DEFINE n == Len(c)
           w == (Lock \o c) \o Unlock
           e == [l \in 0 .. n + 2 |-> IF l = 0 \/ l = n + 2 THEN 0 ELSE d[l - 1] + 1]
<1>1. /\ c \in Seq(Instr) /\ n \in Nat /\ d \in [0 .. n -> Nat] /\ d[0] = 0 /\ d[n] = 0
  BY DEF Nested
<1>2. Lock \in Seq(Instr) /\ Len(Lock) = 1 /\ Lock[1].op = "lock"
  <2>1. [op |-> "lock", calm |-> FALSE] \in Instr
    BY DEF Instr
  <2> QED BY <2>1 DEF Lock
<1>3. Unlock \in Seq(Instr) /\ Len(Unlock) = 1 /\ Unlock[1].op = "unlock"
  <2>1. [op |-> "unlock"] \in Instr
    BY DEF Instr
  <2> QED BY <2>1 DEF Unlock
<1>4. /\ w \in Seq(Instr) /\ Len(w) = n + 2
      /\ w[1].op = "lock" /\ w[n + 2].op = "unlock"
      /\ \A l \in 1 .. n : w[l + 1] = c[l]
  <2> DEFINE x == Lock \o c
  <2>1. x \in Seq(Instr) /\ Len(x) = n + 1 /\ x[1] = Lock[1]
        /\ \A i \in 1 .. n : x[i + 1] = c[i]
    <3>1. IsJoin(x, Lock, c)
      BY <1>1, <1>2, Joined
    <3> HIDE DEF x, n, w, e
    <3>2. Len(c) = n
      BY DEF n
    <3>3. /\ x \in Seq(Instr) /\ Len(x) = Len(Lock) + Len(c)
          /\ \A i \in 1 .. Len(Lock) : x[i] = Lock[i]
          /\ \A i \in 1 .. Len(c) : x[Len(Lock) + i] = c[i]
      BY ONLY <3>1 DEF IsJoin
    <3>4. Len(x) = n + 1
      BY ONLY <1>1, <1>2, <3>2, <3>3
    <3>5. x[1] = Lock[1]
      BY ONLY <1>2, <3>3
    <3>6. ASSUME NEW i \in 1 .. n PROVE x[i + 1] = c[i]
      BY ONLY <1>1, <1>2, <3>2, <3>3, <3>6
    <3> QED BY <3>3, <3>4, <3>5, <3>6
  <2>2. w = x \o Unlock
    OBVIOUS
  <2> HIDE DEF x, w
  <2>3. /\ w \in Seq(Instr) /\ Len(w) = n + 2 /\ w[n + 2] = Unlock[1]
        /\ \A i \in 1 .. n + 1 : w[i] = x[i]
    <3>1. IsJoin(w, x, Unlock)
      BY <1>3, <2>1, <2>2, Joined
    <3> HIDE DEF n
    <3> QED BY <1>1, <1>3, <2>1, <3>1 DEF IsJoin
  <2> QED BY <1>1, <1>2, <1>3, <2>1, <2>3
<1> HIDE DEF w
<1>5. e \in [0 .. n + 2 -> Nat] /\ e[0] = 0 /\ e[n + 2] = 0 /\ \A l \in 0 .. n : e[l + 1] = d[l] + 1
  <2>1. ASSUME NEW l \in 0 .. n + 2, l # 0, l # n + 2 PROVE d[l - 1] \in Nat
    <3>1. l - 1 \in 0 .. n
      BY <1>1, <2>1
    <3> QED BY <1>1, <3>1
  <2>2. e \in [0 .. n + 2 -> Nat]
    BY <2>1
  <2>3. ASSUME NEW l \in 0 .. n PROVE e[l + 1] = d[l] + 1
    <3>1. l + 1 \in 0 .. n + 2 /\ l + 1 # 0 /\ l + 1 # n + 2 /\ (l + 1) - 1 = l
      BY <1>1
    <3> QED BY <3>1
  <2> QED BY <1>1, <2>2, <2>3
<1> HIDE DEF e, n
<1>6. ASSUME NEW l \in 1 .. n + 2
      PROVE  /\ w[l].op = "lock" => e[l] = e[l - 1] + 1
             /\ w[l].op = "unlock" => e[l - 1] = e[l] + 1
             /\ Writes(w[l]) => e[l] = e[l - 1] /\ e[l] >= 1
             /\ w[l].op = "putc" => /\ l > 1 /\ Writes(w[l - 1])
                                    /\ ColourOf(w[l - 1]) = w[l].glyph.want
  <2>1. CASE l = 1
    <3>1. e[0 + 1] = d[0] + 1
      BY <1>1, <1>5
    <3> QED BY <1>1, <1>4, <1>5, <2>1, <3>1 DEF Writes
  <2>2. CASE l = n + 2
    <3>1. e[n + 1] = d[n] + 1 /\ (n + 2) - 1 = n + 1
      BY <1>1, <1>5
    <3> QED BY <1>1, <1>4, <1>5, <2>2, <3>1 DEF Writes
  <2>3. CASE l # 1 /\ l # n + 2
    <3> DEFINE k == l - 1
    <3>1. k \in 1 .. n /\ k \in 0 .. n /\ k - 1 \in 0 .. n /\ l = k + 1 /\ l - 1 = (k - 1) + 1
          /\ (k > 1 => k - 1 \in 1 .. n) /\ l > 1 /\ d[k] \in Nat /\ d[k - 1] \in Nat
      BY <1>1, <2>3
    <3> HIDE DEF k
    <3>2. w[l] = c[k] /\ e[l] = d[k] + 1 /\ e[l - 1] = d[k - 1] + 1
          /\ (k > 1 => w[l - 1] = c[k - 1])
      BY <1>4, <1>5, <3>1
    <3>3. /\ c[k].op = "lock" => d[k] = d[k - 1] + 1
          /\ c[k].op = "unlock" => d[k - 1] = d[k] + 1
          /\ Writes(c[k]) => d[k] = d[k - 1] /\ d[k] >= 1
          /\ c[k].op = "putc" => /\ k > 1 /\ Writes(c[k - 1])
                                 /\ ColourOf(c[k - 1]) = c[k].glyph.want
      BY <3>1 DEF Nested, n
    <3> QED BY <3>1, <3>2, <3>3
  <2> QED BY <2>1, <2>2, <2>3
<1>7. Nested(w, e)
  BY <1>4, <1>5, <1>6 DEF Nested
<1>8. OfRecord(w, rec)
  <2> SUFFICES ASSUME NEW l \in 1 .. n + 2, w[l].op = "putc" PROVE w[l].glyph.rec = rec
    BY <1>4 DEF OfRecord
  <2>1. l # 1 /\ l # n + 2
    BY <1>4
  <2>2. l - 1 \in 1 .. n /\ l = (l - 1) + 1
    BY <1>1, <2>1
  <2>3. w[l] = c[l - 1]
    BY <1>4, <2>2
  <2> QED BY <2>2, <2>3 DEF OfRecord, n
<1>9. \A l \in 1 .. Len(w) - 1 : e[l] >= 1
  <2> SUFFICES ASSUME NEW l \in 1 .. n + 1 PROVE e[l] >= 1
    BY <1>1, <1>4
  <2>1. l - 1 \in 0 .. n /\ l = (l - 1) + 1 /\ d[l - 1] \in Nat
    BY <1>1
  <2>2. e[l] = d[l - 1] + 1
    BY <1>5, <2>1
  <2> QED BY <2>1, <2>2
<1>10. Block(w, e, rec)
  BY <1>7, <1>8, <1>9 DEF Block
<1>11. ASSUME EndsLine(c) PROVE EndsLine(w)
  <2>1. PICK k \in 1 .. n : /\ c[k].op = "putc" /\ c[k].glyph.ch = "newline"
                            /\ \A l \in k + 1 .. n : c[l].op # "putc"
    BY <1>11 DEF EndsLine, n
  <2>2. k + 1 \in 1 .. Len(w) /\ w[k + 1] = c[k]
    BY <1>1, <1>4
  <2>3. ASSUME NEW l \in (k + 1) + 1 .. Len(w) PROVE w[l].op # "putc"
    <3>1. CASE l = n + 2
      BY <1>4, <3>1
    <3>2. CASE l # n + 2
      <4>1. l - 1 \in k + 1 .. n /\ l - 1 \in 1 .. n /\ l = (l - 1) + 1
        BY <1>1, <1>4, <3>2
      <4>2. w[l] = c[l - 1]
        BY <1>4, <4>1
      <4> QED BY <2>1, <4>1, <4>2
    <3> QED BY <3>1, <3>2
  <2> QED BY <2>1, <2>2, <2>3 DEF EndsLine
<1> QED BY <1>4, <1>10, <1>11 DEF w

\* sys_logf is one record in one scope of the lock.
LEMMA Logf ==
  ASSUME NEW color \in Colours, NEW name \in Text, NEW text \in Text,
         NEW rec \in Writers \X Nat, rec # <<"junk", 0>>
  PROVE  LET c == sys_logf(color, name, text, rec) IN
         /\ c \in Seq(Instr) /\ \E d : Block(c, d, rec)
         /\ Len(text) > 0 /\ text[Len(text)] = "newline" => EndsLine(c)
<1> DEFINE p == tty_printf(CON_COLOR_BROWN, name, rec)
           q == tty_printf(color, text, rec)
           c == sys_logf(color, name, text, rec)
<1>1. CON_COLOR_BROWN \in Colours
  BY DEF CON_COLOR_BROWN, Colours
<1>2. /\ p \in Seq(Instr) /\ \E d : Block(p, d, rec)
      /\ q \in Seq(Instr) /\ \E d : Block(q, d, rec)
      /\ Len(text) > 0 /\ text[Len(text)] = "newline" => EndsLine(q)
  BY <1>1, Printf
<1>3. c = ((Lock \o p) \o q) \o Unlock
  BY DEF sys_logf
<1> HIDE DEF p, q, c
<1>4. Lock \in Seq(Instr)
  <2>1. [op |-> "lock", calm |-> FALSE] \in Instr
    BY DEF Instr
  <2> QED BY <2>1 DEF Lock
<1>5. c = (Lock \o (p \o q)) \o Unlock
  BY <1>2, <1>3, <1>4, JoinAssociates
<1> DEFINE w == p \o q
<1>6. IsJoin(w, p, q)
  BY <1>2, Joined
<1> HIDE DEF w
<1>7. PICK d : Block(p, d, rec)
  BY <1>2
<1>8. PICK e : Block(q, e, rec)
  BY <1>2
<1>9. Nested(w, After(Len(p), d, Len(q), e)) /\ OfRecord(w, rec)
  BY <1>2, <1>6, <1>7, <1>8, NestedJoin, OfRecordJoin DEF Block
<1>10. EndsLine(q) => EndsLine(w)
  BY <1>2, <1>6, EndsJoin
<1>11. /\ c \in Seq(Instr) /\ \E f : Block(c, f, rec)
       /\ EndsLine(w) => EndsLine(c)
  BY <1>5, <1>9, Wrap DEF w
<1> QED BY <1>2, <1>10, <1>11 DEF c

\* The records of a code are those of t with numbers from lo to hi.
Tagged(code, t, lo, hi) ==
  \A l \in 1 .. Len(code) : code[l].op = "putc" => \E i \in lo .. hi : code[l].glyph.rec = <<t, i>>

\* Between two characters of one record the code keeps the lock and writes no
\* other record.
HeldWithin(code, d) ==
  \A j, k \in 1 .. Len(code) :
    /\ j < k /\ code[j].op = "putc" /\ code[k].op = "putc" /\ code[j].glyph.rec = code[k].glyph.rec
    => \A l \in j .. k - 1 :
         d[l] >= 1 /\ (code[l].op = "putc" => code[l].glyph.rec = code[k].glyph.rec)

Prints(code, d, t, lo, hi) == Nested(code, d) /\ HeldWithin(code, d) /\ Tagged(code, t, lo, hi)

\* A code of one record is the program of a writer of that record only.
LEMMA BlockPrints ==
  ASSUME NEW c, NEW d, NEW t, NEW i \in Nat, Block(c, d, <<t, i>>)
  PROVE  Prints(c, d, t, i, i)
<1>1. HeldWithin(c, d)
  <2> SUFFICES ASSUME NEW j \in 1 .. Len(c), NEW k \in 1 .. Len(c), j < k, c[k].op = "putc",
                      NEW l \in j .. k - 1
               PROVE  d[l] >= 1 /\ (c[l].op = "putc" => c[l].glyph.rec = c[k].glyph.rec)
    BY DEF HeldWithin
  <2>1. Len(c) \in Nat
    BY DEF Block, Nested
  <2>2. l \in 1 .. Len(c) - 1 /\ l \in 1 .. Len(c)
    BY <2>1
  <2> QED BY <2>2 DEF Block, OfRecord
<1>2. Tagged(c, t, i, i)
  BY DEF Tagged, Block, OfRecord
<1> QED BY <1>1, <1>2 DEF Prints, Block

\* The depths of the join of two codes, for codes.
LEMMA AfterAt ==
  ASSUME NEW r, NEW s, NEW d, NEW e, Len(r) \in Nat, Len(s) \in Nat,
         d \in [0 .. Len(r) -> Nat], e \in [0 .. Len(s) -> Nat], d[Len(r)] = 0, e[0] = 0
  PROVE  /\ \A l \in 0 .. Len(r) : After(Len(r), d, Len(s), e)[l] = d[l]
         /\ \A l \in 0 .. Len(s) : After(Len(r), d, Len(s), e)[Len(r) + l] = e[l]
<1> DEFINE n == Len(r)
           m == Len(s)
<1> HIDE DEF n, m
<1>1. n \in Nat /\ m \in Nat /\ d \in [0 .. n -> Nat] /\ e \in [0 .. m -> Nat] /\ d[n] = 0 /\ e[0] = 0
  BY DEF n, m
<1>2. \A l \in 0 .. n : After(n, d, m, e)[l] = d[l]
  BY <1>1, AfterIs, SMTT(30)
<1>3. \A l \in 0 .. m : After(n, d, m, e)[n + l] = e[l]
  BY <1>1, AfterIs, ZenonT(40)
<1> QED BY <1>2, <1>3 DEF n, m

\* Programs of consecutive records, one after the other.
LEMMA PrintsJoin ==
  ASSUME NEW r, NEW s, NEW w, NEW d, NEW e, NEW t, NEW lo, NEW mid, NEW hi,
         lo \in Nat, mid \in Nat, hi \in Nat,
         lo <= mid, mid < hi,
         Prints(r, d, t, lo, mid), Prints(s, e, t, mid + 1, hi), IsJoin(w, r, s)
  PROVE  Prints(w, After(Len(r), d, Len(s), e), t, lo, hi)
<1> DEFINE n == Len(r)
           m == Len(s)
           f == After(n, d, m, e)
<1>1. /\ n \in Nat /\ m \in Nat /\ d \in [0 .. n -> Nat] /\ e \in [0 .. m -> Nat]
      /\ d[n] = 0 /\ e[0] = 0
      /\ w \in Seq(Instr) /\ Len(w) = n + m
      /\ \A l \in 1 .. n : w[l] = r[l]
      /\ \A l \in 1 .. m : w[n + l] = s[l]
  BY DEF Prints, Nested, IsJoin
<1>2. /\ \A l \in 0 .. n : f[l] = d[l]
      /\ \A l \in 0 .. m : f[n + l] = e[l]
  <2>1. /\ Len(r) \in Nat /\ Len(s) \in Nat
        /\ d \in [0 .. Len(r) -> Nat] /\ e \in [0 .. Len(s) -> Nat]
        /\ d[Len(r)] = 0 /\ e[0] = 0
    BY <1>1
  <2>2. /\ \A l \in 0 .. Len(r) : After(Len(r), d, Len(s), e)[l] = d[l]
        /\ \A l \in 0 .. Len(s) : After(Len(r), d, Len(s), e)[Len(r) + l] = e[l]
    BY ONLY <2>1, AfterAt
  <2> QED BY <2>2
<1>3. Nested(w, f)
  BY NestedJoin DEF Prints
<1> HIDE DEF n, m, f
<1>4. ASSUME NEW l \in 1 .. n + m, l > n PROVE l - n \in 1 .. m /\ l = n + (l - n) /\ w[l] = s[l - n] /\ f[l] = e[l - n]
  <2>1. l - n \in 1 .. m /\ l - n \in 0 .. m /\ l = n + (l - n)
    BY <1>1, <1>4
  <2> QED BY <1>1, <1>2, <2>1
<1>5. ASSUME NEW l \in 1 .. n + m, w[l].op = "putc"
      PROVE  /\ l <= n => \E i \in lo .. mid : w[l].glyph.rec = <<t, i>>
             /\ l > n => \E i \in mid + 1 .. hi : w[l].glyph.rec = <<t, i>>
  <2>1. CASE l <= n
    <3>1. l \in 1 .. n /\ w[l] = r[l]
      BY <1>1, <2>1
    <3>2. \E i \in lo .. mid : r[l].glyph.rec = <<t, i>>
      BY <1>5, <3>1 DEF Prints, Tagged, n
    <3> QED BY <1>1, <2>1, <3>1, <3>2
  <2>2. CASE l > n
    <3>1. l - n \in 1 .. m /\ w[l] = s[l - n]
      BY <1>4, <2>2
    <3>2. \E i \in mid + 1 .. hi : s[l - n].glyph.rec = <<t, i>>
      BY <1>5, <3>1 DEF Prints, Tagged, m
    <3>3. ~(l <= n)
      BY <1>1, <2>2
    <3> QED BY <3>1, <3>2, <3>3
  <2> QED BY <1>1, <2>1, <2>2
<1>6. Tagged(w, t, lo, hi)
  <2> SUFFICES ASSUME NEW l \in 1 .. n + m, w[l].op = "putc"
               PROVE  \E i \in lo .. hi : w[l].glyph.rec = <<t, i>>
    BY <1>1 DEF Tagged
  <2>1. CASE l <= n
    <3>1. PICK i \in lo .. mid : w[l].glyph.rec = <<t, i>>
      BY <1>5, <2>1
    <3>2. i \in lo .. hi
      OBVIOUS
    <3> QED BY <3>1, <3>2
  <2>2. CASE l > n
    <3>1. PICK i \in mid + 1 .. hi : w[l].glyph.rec = <<t, i>>
      BY <1>5, <2>2
    <3>2. i \in lo .. hi
      OBVIOUS
    <3> QED BY <3>1, <3>2
  <2> QED BY <1>1, <2>1, <2>2, SMTT(30)
<1>7. ASSUME NEW j \in 1 .. n + m, NEW k \in 1 .. n + m, j < k, w[j].op = "putc", w[k].op = "putc",
             w[j].glyph.rec = w[k].glyph.rec, NEW l \in j .. k - 1
      PROVE  f[l] >= 1 /\ (w[l].op = "putc" => w[l].glyph.rec = w[k].glyph.rec)
  <2>1. CASE k <= n
    <3>1. j \in 1 .. n /\ k \in 1 .. n /\ l \in 1 .. n /\ l \in 0 .. n
      BY <1>1, <1>7, <2>1
    <3>2. w[j] = r[j] /\ w[k] = r[k] /\ w[l] = r[l] /\ f[l] = d[l]
      BY <1>1, <1>2, <3>1
    <3> QED BY <1>7, <3>1, <3>2 DEF Prints, HeldWithin, n
  <2>2. CASE j > n
    <3>1. k > n /\ l > n /\ l \in 1 .. n + m
      BY <1>1, <1>7, <2>2, SMTT(30)
    <3> DEFINE a == j - n
               b == k - n
               c == l - n
    <3>2. a \in 1 .. m /\ b \in 1 .. m /\ c \in 1 .. m /\ w[j] = s[a] /\ w[k] = s[b] /\ w[l] = s[c] /\ f[l] = e[c]
      BY <1>4, <2>2, <3>1
    <3>3. a < b /\ c \in a .. b - 1
      BY <1>1, <1>7, <2>2, <3>1
    <3> HIDE DEF a, b, c
    <3> QED BY <1>7, <3>2, <3>3 DEF Prints, HeldWithin, m
  <2>3. CASE j <= n /\ k > n
    <3>1. PICK i \in lo .. mid : w[j].glyph.rec = <<t, i>>
      BY <1>5, <1>7, <2>3
    <3>2. PICK i2 \in mid + 1 .. hi : w[k].glyph.rec = <<t, i2>>
      BY <1>5, <1>7, <2>3
    <3>3. <<t, i>> = <<t, i2>>
      BY <1>7, <3>1, <3>2
    <3> QED BY <3>3
  <2> QED BY <1>1, <2>1, <2>2, <2>3
<1>8. HeldWithin(w, f)
  BY <1>1, <1>7 DEF HeldWithin
<1>9. Prints(w, f, t, lo, hi)
  BY <1>3, <1>6, <1>8 DEF Prints
<1> QED BY <1>9 DEF f, n, m

\* Two codes one after the other.
LEMMA FlattenTwo ==
  ASSUME NEW s, NEW i1, NEW i2, s = <<i1, i2>>
  PROVE  FlattenSeq(s) = i1 \o i2
<1> DEFINE Is(h) == h = [i \in 1 .. 2 |-> IF i = 1 THEN s[i] ELSE h[i - 1] \o s[i]]
           h == CHOOSE k : Is(k)
           f == [i \in 1 .. 2 |-> IF i = 1 THEN i1 ELSE i1 \o i2]
<1>1. Len(s) = 2 /\ s[1] = i1 /\ s[2] = i2
  OBVIOUS
<1>2. FlattenSeq(s) = h[2]
  BY <1>1 DEF FlattenSeq
<1>3. Is(f)
  <2>1. f[1] = i1
    OBVIOUS
  <2>2. ASSUME NEW i \in 1 .. 2
        PROVE  (IF i = 1 THEN i1 ELSE i1 \o i2) = (IF i = 1 THEN s[i] ELSE f[i - 1] \o s[i])
    <3>1. i = 1 \/ (i = 2 /\ i - 1 = 1)
      OBVIOUS
    <3> QED BY <1>1, <2>1, <3>1
  <2> QED BY <2>2
<1>4. Is(h)
  <2> HIDE DEF Is, f
  <2> QED BY <1>3
<1> HIDE DEF h
<1>5. h[1] = s[1]
  BY <1>4
<1>6. h[2] = h[1] \o s[2]
  <2>1. 2 \in 1 .. 2 /\ 2 # 1 /\ 2 - 1 = 1
    OBVIOUS
  <2>2. h[2] = IF 2 = 1 THEN s[2] ELSE h[2 - 1] \o s[2]
    BY <1>4, <2>1
  <2> QED BY <2>1, <2>2
<1> QED BY <1>1, <1>2, <1>5, <1>6

\* pci_pretty_print is one record.
LEMMA PrettyPrint ==
  ASSUME NEW name \in Text, NEW i1 \in Text, NEW i2 \in Text, NEW rec \in Writers \X Nat,
         rec # <<"junk", 0>>, Len(i2) > 0, i2[Len(i2)] = "newline"
  PROVE  LET c == pci_pretty_print(name, <<i1, i2>>, rec) IN
         (\E d : Block(c, d, rec)) /\ EndsLine(c)
<1> DEFINE p == sys_logf(CON_COLOR_MAGENTA, name, i1, rec)
           q == sys_logf(CON_COLOR_MAGENTA, name, i2, rec)
           c == pci_pretty_print(name, <<i1, i2>>, rec)
           w == p \o q
<1>1. CON_COLOR_MAGENTA \in Colours
  BY DEF CON_COLOR_MAGENTA, Colours
<1>2. p \in Seq(Instr) /\ \E d : Block(p, d, rec)
  BY <1>1, Logf
<1>3. q \in Seq(Instr) /\ (\E d : Block(q, d, rec)) /\ EndsLine(q)
  BY <1>1, Logf
<1>4. c = (Lock \o w) \o Unlock
  <2> DEFINE s == [i \in DOMAIN <<i1, i2>> |-> sys_logf(CON_COLOR_MAGENTA, name, <<i1, i2>>[i], rec)]
  <2>1. s = <<p, q>>
    OBVIOUS
  <2>2. c = (Lock \o FlattenSeq(s)) \o Unlock
    BY DEF pci_pretty_print
  <2> HIDE DEF s, p, q
  <2>3. FlattenSeq(s) = p \o q
    BY <2>1, FlattenTwo
  <2> QED BY <2>2, <2>3
<1>5. PICK d : Block(p, d, rec)
  BY <1>2
<1>6. PICK e : Block(q, e, rec)
  BY <1>3
<1> HIDE DEF p, q, c
<1>7. IsJoin(w, p, q)
  BY <1>2, <1>3, Joined
<1> HIDE DEF w
<1>8. Nested(w, After(Len(p), d, Len(q), e)) /\ OfRecord(w, rec) /\ EndsLine(w)
  BY <1>2, <1>3, <1>5, <1>6, <1>7, NestedJoin, OfRecordJoin, EndsJoin DEF Block
<1>9. (\E f : Block(c, f, rec)) /\ EndsLine(c)
  BY <1>4, <1>8, Wrap
<1> QED BY <1>9 DEF c

\* thread_panic is five records.
LEMMA PanicPrints ==
  ASSUME NEW name \in Text, NEW message \in Text, NEW t \in Writers \ {"junk"}
  PROVE  LET c == thread_panic(name, message, t) IN
         (\E d : Prints(c, d, t, 1, 5)) /\ EndsLine(c)
<1> DEFINE p1 == tty_printf(CON_COLOR_BROWN, name, <<t, 1>>)
           p2 == tty_printf(CON_COLOR_RED, <<"!", "newline">>, <<t, 2>>)
           p3 == tty_printf(CON_COLOR_RED, message, <<t, 3>>)
           p4 == tty_printf(CON_COLOR_RED, <<"newline">>, <<t, 4>>)
           p5 == tty_printf(CON_COLOR_WHITE, <<"k", "newline">>, <<t, 5>>)
           j2 == p1 \o p2
           j3 == j2 \o p3
           j4 == j3 \o p4
           j5 == j4 \o p5
<1>1. /\ CON_COLOR_BROWN \in Colours /\ CON_COLOR_RED \in Colours /\ CON_COLOR_WHITE \in Colours
      /\ <<"!", "newline">> \in Text /\ <<"newline">> \in Text /\ <<"k", "newline">> \in Text
  BY DEF CON_COLOR_BROWN, CON_COLOR_RED, CON_COLOR_WHITE, Colours, Text, Chars
<1>2. \A i \in 1 .. 5 : <<t, i>> \in Writers \X Nat /\ <<t, i>> # <<"junk", 0>>
  OBVIOUS
<1>3. /\ p1 \in Seq(Instr) /\ \E d : Block(p1, d, <<t, 1>>)
      /\ p2 \in Seq(Instr) /\ \E d : Block(p2, d, <<t, 2>>)
      /\ p3 \in Seq(Instr) /\ \E d : Block(p3, d, <<t, 3>>)
      /\ p4 \in Seq(Instr) /\ \E d : Block(p4, d, <<t, 4>>)
      /\ p5 \in Seq(Instr) /\ \E d : Block(p5, d, <<t, 5>>)
  BY <1>1, <1>2, Printf
<1>4. EndsLine(p5)
  <2>1. Len(<<"k", "newline">>) > 0 /\ <<"k", "newline">>[Len(<<"k", "newline">>)] = "newline"
    OBVIOUS
  <2> QED BY <1>1, <1>2, <2>1, Printf
<1>5. thread_panic(name, message, t) = j5
  BY DEF thread_panic
<1> HIDE DEF p1, p2, p3, p4, p5
<1>6. /\ \E d : Prints(p1, d, t, 1, 1)
      /\ \E d : Prints(p2, d, t, 2, 2)
      /\ \E d : Prints(p3, d, t, 3, 3)
      /\ \E d : Prints(p4, d, t, 4, 4)
      /\ \E d : Prints(p5, d, t, 5, 5)
  BY <1>3, BlockPrints
<1>7. j2 \in Seq(Instr) /\ IsJoin(j2, p1, p2)
  BY <1>3, Joined
<1> HIDE DEF j2
<1>8. j3 \in Seq(Instr) /\ IsJoin(j3, j2, p3)
  BY <1>3, <1>7, Joined
<1> HIDE DEF j3
<1>9. j4 \in Seq(Instr) /\ IsJoin(j4, j3, p4)
  BY <1>3, <1>8, Joined
<1> HIDE DEF j4
<1>10. j5 \in Seq(Instr) /\ IsJoin(j5, j4, p5)
  BY <1>3, <1>9, Joined
<1> HIDE DEF j5
<1>11. \E d : Prints(j2, d, t, 1, 2)
  <2>1. PICK d, e : Prints(p1, d, t, 1, 1) /\ Prints(p2, e, t, 1 + 1, 2)
    BY <1>6
  <2>2. Prints(j2, After(Len(p1), d, Len(p2), e), t, 1, 2)
    BY <1>7, <2>1, PrintsJoin
  <2> QED BY <2>2
<1>12. \E d : Prints(j3, d, t, 1, 3)
  <2>1. PICK d, e : Prints(j2, d, t, 1, 2) /\ Prints(p3, e, t, 2 + 1, 3)
    BY <1>6, <1>11
  <2>2. Prints(j3, After(Len(j2), d, Len(p3), e), t, 1, 3)
    BY <1>8, <2>1, PrintsJoin
  <2> QED BY <2>2
<1>13. \E d : Prints(j4, d, t, 1, 4)
  <2>1. PICK d, e : Prints(j3, d, t, 1, 3) /\ Prints(p4, e, t, 3 + 1, 4)
    BY <1>6, <1>12
  <2>2. Prints(j4, After(Len(j3), d, Len(p4), e), t, 1, 4)
    BY <1>9, <2>1, PrintsJoin
  <2> QED BY <2>2
<1>14. \E d : Prints(j5, d, t, 1, 5)
  <2>1. PICK d, e : Prints(j4, d, t, 1, 4) /\ Prints(p5, e, t, 4 + 1, 5)
    BY <1>6, <1>13
  <2>2. Prints(j5, After(Len(j4), d, Len(p5), e), t, 1, 5)
    BY <1>10, <2>1, PrintsJoin
  <2> QED BY <2>2
<1>15. EndsLine(j5)
  BY <1>3, <1>4, <1>9, <1>10, EndsJoin
<1> QED BY <1>5, <1>14, <1>15

\* What a thread prints, and the scopes of the lock it is in.
ProgramOf(t, pages) ==
  CASE t = "kidle" -> sys_logf(CON_COLOR_CYAN, <<"I">>, <<"i", "newline">>, <<"kidle", 1>>)
    [] t = "syscore" -> sys_logf(CON_COLOR_CYAN, <<"S">>, <<"a", "b", "c", "newline">>, <<"syscore", 1>>)
    [] t = "pcihub" ->
         IF pages THEN pci_pretty_print(<<"P">>, << <<"d", "newline">>, <<"e", "newline">> >>, <<"pcihub", 1>>)
         ELSE thread_panic(<<"P">>, <<"p">>, "pcihub")

DepthOf(t, pages) == CHOOSE d : Prints(ProgramOf(t, pages), d, t, 1, 5)

\* A program of one record is one of up to five.
LEMMA Tags ==
  ASSUME NEW c, NEW d, NEW t, Prints(c, d, t, 1, 1)
  PROVE  Prints(c, d, t, 1, 5)
<1>1. 1 .. 1 \subseteq 1 .. 5
  OBVIOUS
<1> QED BY <1>1 DEF Prints, Tagged

\* What every thread executes nests its scopes, holds the lock over a record and
\* ends its last line.
LEMMA Programs ==
  ASSUME NEW t \in Printer, NEW pages \in BOOLEAN
  PROVE  /\ Prints(ProgramOf(t, pages), DepthOf(t, pages), t, 1, 5)
         /\ EndsLine(ProgramOf(t, pages))
<1> DEFINE c == ProgramOf(t, pages)
<1>1. /\ \A x \in {"I", "S", "P", "p"} : <<x>> \in Text
      /\ \A x \in {"i", "d", "e"} :
           LET s == <<x, "newline">> IN s \in Text /\ Len(s) > 0 /\ s[Len(s)] = "newline"
      /\ LET s == <<"a", "b", "c", "newline">> IN s \in Text /\ Len(s) > 0 /\ s[Len(s)] = "newline"
  BY DEF Text, Chars
<1>2. /\ <<"kidle", 1>> \in Writers \X Nat /\ <<"kidle", 1>> # <<"junk", 0>>
      /\ <<"syscore", 1>> \in Writers \X Nat /\ <<"syscore", 1>> # <<"junk", 0>>
      /\ <<"pcihub", 1>> \in Writers \X Nat /\ <<"pcihub", 1>> # <<"junk", 0>>
  BY DEF Writers
<1>3. CON_COLOR_CYAN \in Colours
  BY DEF CON_COLOR_CYAN, Colours
<1>4. (\E d : Prints(c, d, t, 1, 5)) /\ EndsLine(c)
  <2>1. CASE t = "kidle"
    <3> DEFINE s == <<"i", "newline">>
    <3>1. c = sys_logf(CON_COLOR_CYAN, <<"I">>, s, <<"kidle", 1>>)
      BY <2>1 DEF ProgramOf
    <3>2. s \in Text /\ Len(s) > 0 /\ s[Len(s)] = "newline" /\ <<"I">> \in Text
      BY <1>1
    <3> HIDE DEF s, c
    <3>3. (\E d : Block(c, d, <<"kidle", 1>>)) /\ EndsLine(c)
      BY <1>2, <1>3, <3>1, <3>2, Logf
    <3> QED BY <2>1, <3>3, BlockPrints, Tags
  <2>2. CASE t = "syscore"
    <3> DEFINE s == <<"a", "b", "c", "newline">>
    <3>1. c = sys_logf(CON_COLOR_CYAN, <<"S">>, s, <<"syscore", 1>>)
      BY <2>2 DEF ProgramOf
    <3>2. s \in Text /\ Len(s) > 0 /\ s[Len(s)] = "newline" /\ <<"S">> \in Text
      BY <1>1
    <3> HIDE DEF s, c
    <3>3. (\E d : Block(c, d, <<"syscore", 1>>)) /\ EndsLine(c)
      BY <1>2, <1>3, <3>1, <3>2, Logf
    <3> QED BY <2>2, <3>3, BlockPrints, Tags
  <2>3. CASE t = "pcihub" /\ pages
    <3> DEFINE i1 == <<"d", "newline">>
               i2 == <<"e", "newline">>
    <3>1. c = pci_pretty_print(<<"P">>, <<i1, i2>>, <<"pcihub", 1>>)
      BY <2>3 DEF ProgramOf
    <3>2. i1 \in Text /\ i2 \in Text /\ Len(i2) > 0 /\ i2[Len(i2)] = "newline" /\ <<"P">> \in Text
      BY <1>1
    <3> HIDE DEF i1, i2, c
    <3>3. (\E d : Block(c, d, <<"pcihub", 1>>)) /\ EndsLine(c)
      BY <1>2, <3>1, <3>2, PrettyPrint
    <3> QED BY <2>3, <3>3, BlockPrints, Tags
  <2>4. CASE t = "pcihub" /\ ~pages
    <3>1. c = thread_panic(<<"P">>, <<"p">>, "pcihub")
      BY <2>4 DEF ProgramOf
    <3>2. "pcihub" \in Writers \ {"junk"} /\ <<"P">> \in Text /\ <<"p">> \in Text
      BY <1>1 DEF Writers
    <3> HIDE DEF c
    <3> QED BY <2>4, <3>1, <3>2, PanicPrints
  <2> QED BY <2>1, <2>2, <2>3, <2>4, PrinterAssumption
<1> QED BY <1>4 DEF DepthOf
\* A character fits the colour of the console.
TakesColour(i, o) == i.op = "putc" => o.text_color = i.glyph.want

\* What an instruction does to the terminals.
LEMMA BootPrintKeeps ==
  ASSUME NEW o, OutInv(o), ~o.g_panic, o.log # NULL_TTY, NEW i \in Instr, TakesColour(i, o)
  PROVE  LET u == BootPrint(o, i) IN
         /\ OutInv(u) /\ ~u.g_panic /\ u.log = o.log
         /\ Writes(i) => u.text_color = ColourOf(i)
         /\ i.op = "putc" => /\ i.glyph \in TextGlyph /\ Stream(u) = Append(Stream(o), i.glyph)
                             /\ i.glyph.ch = "newline" => u.buffer = << >>
         /\ i.op # "putc" => Stream(u) = Stream(o) /\ u.buffer \in {<< >>, o.buffer}
<1>1. CASE i.op = "color"
  <2>1. i.color \in Colours
    BY <1>1 DEF Instr
  <2>2. BootPrint(o, i) = SetColor(o, o.log, i.color)
    BY <1>1 DEF BootPrint
  <2> QED BY <1>1, <2>1, <2>2, SetColorKeeps DEF Writes, ColourOf
<1>2. CASE i.op = "putc"
  <2>1. i.glyph \in TextGlyph /\ i.glyph.want = o.text_color
    BY <1>2 DEF Instr, TakesColour
  <2>2. BootPrint(o, i) = gp_putc(o, o.log, i.glyph)
    BY <1>2 DEF BootPrint
  <2> QED BY <1>2, <2>1, <2>2, PutcPrints DEF Writes, ColourOf
<1>3. CASE i.op \in {"lock", "unlock"}
  <2>1. BootPrint(o, i) = o
    BY <1>3 DEF BootPrint
  <2> QED BY <1>3, <2>1 DEF Writes
<1>4. i.op \in {"lock", "unlock", "color", "putc"}
  BY DEF Instr
<1> QED BY <1>1, <1>2, <1>3, <1>4

\* u is s and characters of the record rec.
Follows(s, u, rec) ==
  /\ Len(s) <= Len(u)
  /\ \A i \in 1 .. Len(s) : u[i] = s[i]
  /\ \A i \in Len(s) + 1 .. Len(u) : u[i].rec = rec

\* One more character of the record that follows.
LEMMA FollowsOn ==
  ASSUME NEW s \in Seq(Glyph), NEW u \in Seq(Glyph), NEW g \in Glyph, NEW rec,
         Follows(s, u, rec), g.rec = rec
  PROVE  Follows(s, Append(u, g), rec)
<1>1. Len(Append(u, g)) = Len(u) + 1 /\ Append(u, g)[Len(u) + 1] = g
      /\ \A i \in 1 .. Len(u) : Append(u, g)[i] = u[i]
  OBVIOUS
<1>2. Len(s) \in Nat /\ Len(u) \in Nat
  OBVIOUS
<1> DEFINE w == Append(u, g)
<1> HIDE DEF w
<1>3. Len(w) = Len(u) + 1 /\ w[Len(u) + 1] = g /\ \A i \in 1 .. Len(u) : w[i] = u[i]
  BY <1>1 DEF w
<1>4. ASSUME NEW i \in Len(s) + 1 .. Len(w) PROVE w[i].rec = rec
  <2>1. i = Len(u) + 1 \/ (i \in Len(s) + 1 .. Len(u) /\ i \in 1 .. Len(u))
    BY <1>2, <1>3
  <2> QED BY <1>3, <2>1 DEF Follows
<1>5. Follows(s, w, rec)
  BY <1>2, <1>3, <1>4 DEF Follows
<1> QED BY <1>5 DEF w

\* A line the boot thread logs.
LEMMA BootPrintsKeep ==
  ASSUME NEW o, OutInv(o), ~o.g_panic, o.log # NULL_TTY,
         NEW color \in Colours, NEW text \in Text, Len(text) > 0, text[Len(text)] = "newline",
         NEW rec \in Writers \X Nat, rec # <<"junk", 0>>
  PROVE  LET u == BootPrints(o, color, text, rec) IN
         /\ OutInv(u) /\ ~u.g_panic /\ u.log = o.log /\ u.buffer = << >>
         /\ Follows(Stream(o), Stream(u), rec)
<1> DEFINE code == sys_logf(color, <<"B">>, text, rec)
           n == Len(code)
           Good == {u \in Out : OutInv(u) /\ ~u.g_panic /\ u.log = o.log}
           step == [iu \in Instr \X Good |-> IF TakesColour(iu[1], iu[2]) THEN BootPrint(iu[2], iu[1]) ELSE iu[2]]
           Is(h) == h = [i \in 0 .. n |-> IF i = 0 THEN o ELSE BootPrint(h[i - 1], code[i])]
<1>1. /\ code \in Seq(Instr) /\ EndsLine(code) /\ OfRecord(code, rec)
      /\ \E d : Nested(code, d)
  <2>1. <<"B">> \in Text
    BY DEF Text, Chars
  <2>2. code \in Seq(Instr) /\ (\E d : Block(code, d, rec)) /\ EndsLine(code)
    BY <2>1, Logf
  <2> QED BY <2>2 DEF Block
<1>2. BootPrints(o, color, text, rec) = (CHOOSE h : Is(h))[n]
  BY DEF BootPrints
<1> HIDE DEF code
<1>3. n \in Nat /\ o \in Good
  BY <1>1 DEF OutInv
<1>4. ASSUME NEW i \in Instr, NEW u \in Good, TakesColour(i, u) PROVE BootPrint(u, i) \in Good
  <2>1. OutInv(u) /\ ~u.g_panic /\ u.log = o.log
    OBVIOUS
  <2>2. OutInv(BootPrint(u, i)) /\ ~BootPrint(u, i).g_panic /\ BootPrint(u, i).log = o.log
    BY <1>4, <2>1, BootPrintKeeps
  <2> QED BY <2>2 DEF OutInv
<1>5. step \in [Instr \X Good -> Good]
  <2> HIDE DEF Good
  <2> QED BY <1>4
<1>6. PICK f \in [0 .. n -> Good] : RunOf(f, code, o, step)
  <2> HIDE DEF Good, step
  <2> QED BY <1>1, <1>3, <1>5, RunExists
<1>7. f[0] = o /\ \A i \in 1 .. n : f[i] = step[<<code[i], f[i - 1]>>]
  BY <1>6 DEF RunOf
<1>8. ASSUME NEW i \in 0 .. n PROVE f[i] \in Good /\ OutInv(f[i]) /\ ~f[i].g_panic /\ f[i].log # NULL_TTY /\ f[i].log = o.log
  <2>1. f[i] \in Good
    OBVIOUS
  <2> QED BY <2>1
<1>9. ASSUME NEW i \in 1 .. n PROVE i - 1 \in 0 .. n /\ i \in 0 .. n /\ code[i] \in Instr
  BY <1>1
<1> DEFINE T == {k \in Nat : k \in 1 .. n => f[k] = BootPrint(f[k - 1], code[k]) /\ TakesColour(code[k], f[k - 1])}
<1>10. 0 \in T
  OBVIOUS
<1>11. ASSUME NEW k \in Nat, k \in T PROVE k + 1 \in T
  <2> SUFFICES ASSUME k + 1 \in 1 .. n
               PROVE  f[k + 1] = BootPrint(f[k], code[k + 1]) /\ TakesColour(code[k + 1], f[k])
    OBVIOUS
  <2>1. k \in 0 .. n /\ (k + 1) - 1 = k /\ code[k + 1] \in Instr
    BY <1>9
  <2>2. TakesColour(code[k + 1], f[k])
    <3> SUFFICES ASSUME code[k + 1].op = "putc" PROVE f[k].text_color = code[k + 1].glyph.want
      BY DEF TakesColour
    <3>1. k >= 1 /\ Writes(code[k]) /\ ColourOf(code[k]) = code[k + 1].glyph.want
      <4>1. PICK d : Nested(code, d)
        BY <1>1
      <4>2. k + 1 > 1 /\ Writes(code[(k + 1) - 1]) /\ ColourOf(code[(k + 1) - 1]) = code[k + 1].glyph.want
        BY <4>1 DEF Nested
      <4> QED BY <2>1, <4>2
    <3>2. k \in 1 .. n
      BY <2>1, <3>1
    <3>3. f[k] = BootPrint(f[k - 1], code[k]) /\ TakesColour(code[k], f[k - 1])
      BY <1>11, <3>2
    <3>4. code[k] \in Instr /\ OutInv(f[k - 1]) /\ ~f[k - 1].g_panic /\ f[k - 1].log # NULL_TTY
      BY <1>8, <1>9, <3>2
    <3>5. f[k].text_color = ColourOf(code[k])
      BY <3>1, <3>3, <3>4, BootPrintKeeps
    <3> QED BY <3>1, <3>5
  <2>3. f[k + 1] = step[<<code[k + 1], f[k]>>]
    BY <1>7, <2>1
  <2>4. step[<<code[k + 1], f[k]>>] = BootPrint(f[k], code[k + 1])
    <3>1. f[k] \in Good
      BY <1>8, <2>1
    <3> HIDE DEF Good
    <3> QED BY <2>1, <2>2, <3>1
  <2> QED BY <2>2, <2>3, <2>4
<1>12. Nat \subseteq T
  <2> HIDE DEF T
  <2> QED BY <1>10, <1>11, Induct
<1>13. ASSUME NEW i \in 1 .. n
       PROVE  /\ f[i] = BootPrint(f[i - 1], code[i]) /\ TakesColour(code[i], f[i - 1])
  BY <1>3, <1>12
<1> HIDE DEF T, step
<1>14. Is(f)
  <2>1. \A i \in 0 .. n : f[i] = IF i = 0 THEN o ELSE BootPrint(f[i - 1], code[i])
    BY <1>3, <1>7, <1>13
  <2>2. f = [i \in 0 .. n |-> f[i]]
    OBVIOUS
  <2> QED BY <2>1, <2>2
<1> DEFINE h == CHOOSE k : Is(k)
<1>15. Is(h)
  <2> HIDE DEF Is
  <2> QED BY <1>14
<1> HIDE DEF h
<1> DEFINE V == {k \in Nat : k <= n => h[k] = f[k]}
<1>16. 0 \in V
  BY <1>3, <1>7, <1>15
<1>17. ASSUME NEW k \in Nat, k \in V PROVE k + 1 \in V
  <2> SUFFICES ASSUME k + 1 <= n PROVE h[k + 1] = f[k + 1]
    OBVIOUS
  <2>1. k + 1 \in 1 .. n /\ k + 1 \in 0 .. n /\ k + 1 # 0 /\ (k + 1) - 1 = k /\ h[k] = f[k]
    BY <1>3, <1>17
  <2>2. h[k + 1] = BootPrint(h[(k + 1) - 1], code[k + 1])
    BY <1>15, <2>1
  <2>3. f[k + 1] = BootPrint(f[(k + 1) - 1], code[k + 1])
    BY <1>13, <2>1
  <2> QED BY <2>1, <2>2, <2>3
<1>18. Nat \subseteq V
  <2> HIDE DEF V
  <2> QED BY <1>16, <1>17, Induct
<1>19. BootPrints(o, color, text, rec) = f[n]
  BY <1>2, <1>3, <1>18 DEF h
<1> HIDE DEF V
<1>20. ASSUME NEW i \in 1 .. n
       PROVE  /\ code[i].op = "putc" => /\ code[i].glyph \in Glyph /\ code[i].glyph.rec = rec
                                        /\ Stream(f[i]) = Append(Stream(f[i - 1]), code[i].glyph)
                                        /\ code[i].glyph.ch = "newline" => f[i].buffer = << >>
              /\ code[i].op # "putc" => /\ Stream(f[i]) = Stream(f[i - 1])
                                        /\ f[i].buffer \in {<< >>, f[i - 1].buffer}
  <2>1. code[i] \in Instr /\ OutInv(f[i - 1]) /\ ~f[i - 1].g_panic /\ f[i - 1].log # NULL_TTY
    BY <1>8, <1>9
  <2>2. f[i] = BootPrint(f[i - 1], code[i]) /\ TakesColour(code[i], f[i - 1])
    BY <1>13
  <2>3. /\ code[i].op = "putc" => /\ code[i].glyph \in TextGlyph
                                  /\ Stream(f[i]) = Append(Stream(f[i - 1]), code[i].glyph)
                                  /\ code[i].glyph.ch = "newline" => f[i].buffer = << >>
        /\ code[i].op # "putc" => /\ Stream(f[i]) = Stream(f[i - 1])
                                  /\ f[i].buffer \in {<< >>, f[i - 1].buffer}
    BY <2>1, <2>2, BootPrintKeeps
  <2>4. code[i].op = "putc" => code[i].glyph.rec = rec
    BY <1>1 DEF OfRecord
  <2> QED BY <2>3, <2>4 DEF TextGlyph
<1> DEFINE U == {k \in Nat : k <= n => Follows(Stream(o), Stream(f[k]), rec)}
<1>21. 0 \in U
  <2>1. Stream(o) \in Seq(Glyph)
    BY StreamIn
  <2>2. Follows(Stream(o), Stream(o), rec)
    BY <2>1 DEF Follows
  <2> QED BY <1>7, <2>2
<1>22. ASSUME NEW k \in Nat, k \in U PROVE k + 1 \in U
  <2> SUFFICES ASSUME k + 1 <= n PROVE Follows(Stream(o), Stream(f[k + 1]), rec)
    OBVIOUS
  <2>1. k + 1 \in 1 .. n /\ (k + 1) - 1 = k /\ Follows(Stream(o), Stream(f[k]), rec) /\ k \in 0 .. n
    BY <1>3, <1>22
  <2>2. Stream(o) \in Seq(Glyph) /\ Stream(f[k]) \in Seq(Glyph)
    BY <1>8, <2>1, StreamIn
  <2>3. CASE code[k + 1].op = "putc"
    BY <1>20, <2>1, <2>2, <2>3, FollowsOn
  <2>4. CASE code[k + 1].op # "putc"
    BY <1>20, <2>1, <2>4
  <2> QED BY <2>3, <2>4
<1>23. Nat \subseteq U
  <2> HIDE DEF U
  <2> QED BY <1>21, <1>22, Induct
<1>24. PICK m \in 1 .. n : /\ code[m].op = "putc" /\ code[m].glyph.ch = "newline"
                           /\ \A l \in m + 1 .. n : code[l].op # "putc"
  BY <1>1 DEF EndsLine
<1> DEFINE W == {k \in Nat : k \in m .. n => f[k].buffer = << >>}
<1>25. 0 \in W
  OBVIOUS
<1>26. ASSUME NEW k \in Nat, k \in W PROVE k + 1 \in W
  <2> SUFFICES ASSUME k + 1 \in m .. n PROVE f[k + 1].buffer = << >>
    OBVIOUS
  <2>1. k + 1 \in 1 .. n /\ (k + 1) - 1 = k
    BY <1>3
  <2>2. CASE k + 1 = m
    BY <1>20, <1>24, <2>1, <2>2
  <2>3. CASE k + 1 # m
    <3>1. k \in m .. n /\ k + 1 \in m + 1 .. n
      BY <1>3, <2>3
    <3>2. f[k].buffer = << >> /\ code[k + 1].op # "putc"
      BY <1>24, <1>26, <3>1
    <3> QED BY <1>20, <2>1, <3>2
  <2> QED BY <2>2, <2>3
<1>27. Nat \subseteq W
  <2> HIDE DEF W
  <2> QED BY <1>25, <1>26, Induct
<1>28. n \in 0 .. n /\ n \in m .. n
  BY <1>3
<1>29. Follows(Stream(o), Stream(f[n]), rec) /\ f[n].buffer = << >>
  BY <1>3, <1>23, <1>27, <1>28
<1>30. OutInv(f[n]) /\ ~f[n].g_panic /\ f[n].log = o.log
  BY <1>8, <1>28
<1> QED BY <1>19, <1>29, <1>30
-----------------------------------------------------------------------------
(* What the threads have printed.                                          *)

\* No record goes on after another one.
Contiguous(s) ==
  \A i, j, k \in 1 .. Len(s) : i < j /\ j < k /\ s[i].rec = s[k].rec => s[j].rec = s[i].rec

\* One more character of the last record, or of a new one.
LEMMA ContiguousOn ==
  ASSUME NEW s \in Seq(Glyph), NEW g \in Glyph, Contiguous(s),
         \A i \in 1 .. Len(s) : s[i].rec = g.rec => s[Len(s)].rec = g.rec
  PROVE  Contiguous(Append(s, g))
<1> DEFINE w == Append(s, g)
           n == Len(s)
<1>1. n \in Nat /\ Len(w) = n + 1 /\ w[n + 1] = g /\ \A i \in 1 .. n : w[i] = s[i]
  OBVIOUS
<1> HIDE DEF w
<1> SUFFICES ASSUME NEW i \in 1 .. n + 1, NEW j \in 1 .. n + 1, NEW k \in 1 .. n + 1,
                    i < j, j < k, w[i].rec = w[k].rec
             PROVE  w[j].rec = w[i].rec
  BY <1>1 DEF Contiguous, w
<1>2. i \in 1 .. n /\ j \in 1 .. n /\ w[i] = s[i] /\ w[j] = s[j]
  BY <1>1
<1>3. CASE k = n + 1
  <2>1. s[i].rec = g.rec /\ s[n].rec = g.rec /\ n \in 1 .. n
    BY <1>1, <1>2, <1>3
  <2>2. CASE j = n
    BY <1>2, <2>1, <2>2
  <2>3. CASE j # n
    <3>1. j < n
      BY <1>2, <2>3
    <3>2. s[j].rec = s[i].rec
      BY <1>2, <2>1, <3>1 DEF Contiguous
    <3> QED BY <1>2, <3>2
  <2> QED BY <2>2, <2>3
<1>4. CASE k # n + 1
  <2>1. k \in 1 .. n /\ w[k] = s[k]
    BY <1>1, <1>4
  <2>2. s[j].rec = s[i].rec
    BY <1>2, <2>1 DEF Contiguous
  <2> QED BY <1>2, <2>2
<1> QED BY <1>3, <1>4

\* Characters that are all of one record, new to what was shown.
LEMMA ContiguousAfter ==
  ASSUME NEW s \in Seq(Glyph), NEW u \in Seq(Glyph), NEW rec, Contiguous(s), Follows(s, u, rec),
         \A i \in 1 .. Len(s) : s[i].rec # rec
  PROVE  Contiguous(u)
<1> DEFINE n == Len(s)
           m == Len(u)
<1>1. n \in Nat /\ m \in Nat /\ n <= m
  BY DEF Follows
<1>2. /\ \A i \in 1 .. n : u[i] = s[i] /\ u[i].rec # rec
      /\ \A i \in n + 1 .. m : u[i].rec = rec
  BY DEF Follows
<1> SUFFICES ASSUME NEW i \in 1 .. m, NEW j \in 1 .. m, NEW k \in 1 .. m,
                    i < j, j < k, u[i].rec = u[k].rec
             PROVE  u[j].rec = u[i].rec
  BY DEF Contiguous
<1>3. Contiguous(s)
  OBVIOUS
<1> HIDE DEF m
<1>4. CASE k <= n
  <2>1. i \in 1 .. n /\ j \in 1 .. n /\ k \in 1 .. n
    BY <1>1, <1>4
  <2>2. s[j].rec = s[i].rec
    BY <1>2, <1>3, <2>1 DEF Contiguous
  <2> QED BY <1>2, <2>1, <2>2
<1>5. CASE k > n
  <2> HIDE DEF n
  <2>1. u[i].rec = rec
    BY <1>1, <1>2, <1>5
  <2>2. ~(i <= n)
    BY <1>1, <1>2, <2>1
  <2> QED BY <1>1, <1>2, <2>1, <2>2, SMTT(30)
<1> QED BY <1>1, <1>4, <1>5

\* What was shown first is contiguous when all of it is.
LEMMA ContiguousPrefix ==
  ASSUME NEW s \in Seq(Glyph), NEW r \in Seq(Glyph), Contiguous(s \o r)
  PROVE  Contiguous(s)
<1> DEFINE u == s \o r
           n == Len(s)
<1>1. n \in Nat /\ Len(u) >= n /\ Len(u) \in Nat /\ \A i \in 1 .. n : u[i] = s[i] /\ i \in 1 .. Len(u)
  OBVIOUS
<1> SUFFICES ASSUME NEW i \in 1 .. n, NEW j \in 1 .. n, NEW k \in 1 .. n,
                    i < j, j < k, s[i].rec = s[k].rec
             PROVE  s[j].rec = s[i].rec
  BY DEF Contiguous
<1> HIDE DEF n, u
<1>2. Contiguous(u)
  BY DEF u
<1>3. u[i] = s[i] /\ u[j] = s[j] /\ u[k] = s[k] /\ i \in 1 .. Len(u) /\ j \in 1 .. Len(u) /\ k \in 1 .. Len(u)
  BY <1>1
<1>4. u[j].rec = u[i].rec
  BY <1>2, <1>3 DEF Contiguous
<1> QED BY <1>3, <1>4

\* The instruction l of thread t writes a character.
IsPutc(t, l, pages) == ProgramOf(t, pages)[l].op = "putc"
GlyphOf(t, l, pages) == ProgramOf(t, pages)[l].glyph

\* The thread that owns the mutex is the one with open scopes, the first of
\* which took it; each has as many as it has entered.
Locks(own, ln, sc, pages) ==
  /\ ln \in [Printer -> Nat] /\ own \in Printer \cup {Nobody}
  /\ sc \in [Printer -> Seq({"locked", "nested"})]
  /\ \A t \in Printer :
       /\ ln[t] <= Len(ProgramOf(t, pages))
       /\ Len(sc[t]) = DepthOf(t, pages)[ln[t]]
       /\ own = t <=> sc[t] # << >>
       /\ \A i \in 1 .. Len(sc[t]) : sc[t][i] = "locked" <=> i = 1

\* The console has the colour of the text its owner is in.
Coloured(o, ln, pages) ==
  \A t \in Printer :
    ln[t] >= 1 /\ Writes(ProgramOf(t, pages)[ln[t]]) =>
      o.text_color = ColourOf(ProgramOf(t, pages)[ln[t]])

\* What was printed is what the boot thread or a thread wrote; a record that is
\* not complete is the last; what is buffered has its newline still to come.
Written(o, ln, pages) ==
  LET s == Stream(o) IN
  /\ Contiguous(s)
  /\ \A i \in 1 .. Len(s) :
       \/ s[i].rec \in {<<"boot", 1>>, <<"boot", 2>>}
       \/ \E t \in Printer : \E l \in 1 .. ln[t] :
            IsPutc(t, l, pages) /\ GlyphOf(t, l, pages).rec = s[i].rec
  /\ \A t \in Printer : \A j \in 1 .. ln[t] : \A k \in ln[t] + 1 .. Len(ProgramOf(t, pages)) :
       /\ IsPutc(t, j, pages) /\ IsPutc(t, k, pages)
       /\ GlyphOf(t, j, pages).rec = GlyphOf(t, k, pages).rec
       => Len(s) > 0 /\ s[Len(s)].rec = GlyphOf(t, j, pages).rec
  /\ \A t \in Printer : \A l \in 1 .. ln[t] :
       IsPutc(t, l, pages) => \E j \in 1 .. Len(s) : s[j] = GlyphOf(t, l, pages)
  /\ o.buffer # << >> =>
       \E t \in Printer : \E l \in ln[t] + 1 .. Len(ProgramOf(t, pages)) :
         IsPutc(t, l, pages) /\ GlyphOf(t, l, pages).ch = "newline"

\* A step of t that writes no character.
LEMMA WrittenQuiet ==
  ASSUME NEW o, NEW u, NEW ln \in [Printer -> Nat], NEW pages, NEW t \in Printer, Written(o, ln, pages),
         ~IsPutc(t, ln[t] + 1, pages), Stream(u) = Stream(o), u.buffer \in {<< >>, o.buffer}
  PROVE  Written(u, [ln EXCEPT ![t] = @ + 1], pages)
<1> DEFINE m == [ln EXCEPT ![t] = @ + 1]
           s == Stream(o)
<1>1. /\ \A q \in Printer : m[q] \in Nat /\ ln[q] \in Nat
      /\ \A q \in Printer : q # t => m[q] = ln[q]
      /\ m[t] = ln[t] + 1
  OBVIOUS
<1> HIDE DEF m
<1>2. ASSUME NEW q \in Printer, NEW l \in 1 .. m[q], IsPutc(q, l, pages) PROVE l \in 1 .. ln[q]
  <2>1. CASE q = t
    <3>1. l # ln[t] + 1
      BY <1>2, <2>1
    <3> QED BY <1>1, <2>1, <3>1
  <2>2. CASE q # t
    BY <1>1, <2>2
  <2> QED BY <2>1, <2>2
<1>3. ASSUME NEW q \in Printer, NEW l \in Nat PROVE l >= m[q] + 1 => l >= ln[q] + 1
  BY <1>1
<1>4. Contiguous(s)
  BY DEF Written
<1>5. ASSUME NEW i \in 1 .. Len(s), s[i].rec \notin {<<"boot", 1>>, <<"boot", 2>>}
      PROVE  \E q \in Printer : \E l \in 1 .. m[q] : IsPutc(q, l, pages) /\ GlyphOf(q, l, pages).rec = s[i].rec
  <2>1. PICK q \in Printer : \E l \in 1 .. ln[q] : IsPutc(q, l, pages) /\ GlyphOf(q, l, pages).rec = s[i].rec
    BY <1>5 DEF Written
  <2>2. PICK l \in 1 .. ln[q] : IsPutc(q, l, pages) /\ GlyphOf(q, l, pages).rec = s[i].rec
    BY <2>1
  <2>3. l \in 1 .. m[q]
    BY <1>1
  <2> QED BY <2>2, <2>3
<1>6. ASSUME NEW q \in Printer, NEW j \in 1 .. m[q], NEW k \in m[q] + 1 .. Len(ProgramOf(q, pages)),
             IsPutc(q, j, pages), IsPutc(q, k, pages), GlyphOf(q, j, pages).rec = GlyphOf(q, k, pages).rec
      PROVE  Len(s) > 0 /\ s[Len(s)].rec = GlyphOf(q, j, pages).rec
  <2>1. j \in 1 .. ln[q] /\ k \in ln[q] + 1 .. Len(ProgramOf(q, pages))
    BY <1>1, <1>2, <1>6
  <2> QED BY <1>6, <2>1 DEF Written
<1>7. ASSUME NEW q \in Printer, NEW l \in 1 .. m[q], IsPutc(q, l, pages)
      PROVE  \E j \in 1 .. Len(s) : s[j] = GlyphOf(q, l, pages)
  <2>1. l \in 1 .. ln[q]
    BY <1>2, <1>7
  <2> QED BY <1>7, <2>1 DEF Written
<1>8. ASSUME u.buffer # << >>
      PROVE  \E q \in Printer : \E l \in m[q] + 1 .. Len(ProgramOf(q, pages)) :
               IsPutc(q, l, pages) /\ GlyphOf(q, l, pages).ch = "newline"
  <2>1. PICK q \in Printer : \E l \in ln[q] + 1 .. Len(ProgramOf(q, pages)) :
               IsPutc(q, l, pages) /\ GlyphOf(q, l, pages).ch = "newline"
    BY <1>8 DEF Written
  <2>2. PICK l \in ln[q] + 1 .. Len(ProgramOf(q, pages)) :
               IsPutc(q, l, pages) /\ GlyphOf(q, l, pages).ch = "newline"
    BY <2>1
  <2>3. l \in m[q] + 1 .. Len(ProgramOf(q, pages))
    <3>1. ~(q = t /\ l = ln[t] + 1)
      BY <2>2
    <3> QED BY <1>1, <3>1
  <2> QED BY <2>2, <2>3
<1>9. Written(u, m, pages)
  BY <1>4, <1>5, <1>6, <1>7, <1>8, SMTT(30) DEF Written
<1> QED BY <1>9 DEF m

\* Thread t writes a character: from o and ln to u and m.
Puts(o, u, ln, m, t, pages) ==
  /\ ln \in [Printer -> Nat] /\ m = [ln EXCEPT ![t] = @ + 1]
  /\ ln[t] + 1 \in 1 .. Len(ProgramOf(t, pages))
  /\ \A q \in Printer : ln[q] <= Len(ProgramOf(q, pages))
  /\ IsPutc(t, ln[t] + 1, pages)
  /\ Stream(u) = Append(Stream(o), GlyphOf(t, ln[t] + 1, pages))
  /\ GlyphOf(t, ln[t] + 1, pages).ch = "newline" => u.buffer = << >>
  /\ \A q \in Printer : q # t => DepthOf(q, pages)[ln[q]] = 0

\* The owner of the mutex writes a character.
LEMMA WrittenPutc ==
  ASSUME NEW o, NEW u, NEW ln, NEW m, NEW pages, pages \in BOOLEAN, NEW t, t \in Printer,
         OutInv(o), Written(o, ln, pages), Puts(o, u, ln, m, t, pages)
  PROVE  Written(u, m, pages)
<1>1. /\ ln \in [Printer -> Nat] /\ m = [ln EXCEPT ![t] = @ + 1]
      /\ ln[t] + 1 \in 1 .. Len(ProgramOf(t, pages)) /\ IsPutc(t, ln[t] + 1, pages)
      /\ Stream(u) = Append(Stream(o), GlyphOf(t, ln[t] + 1, pages))
      /\ GlyphOf(t, ln[t] + 1, pages).ch = "newline" => u.buffer = << >>
      /\ \A q \in Printer : /\ ln[q] <= Len(ProgramOf(q, pages))
                             /\ q # t => DepthOf(q, pages)[ln[q]] = 0
  BY DEF Puts
<1>2. \A q \in Printer : ln[q] <= Len(ProgramOf(q, pages))
  BY DEF Puts
<1> DEFINE s == Stream(o)
           l0 == ln[t] + 1
           g == GlyphOf(t, l0, pages)
           w == Stream(u)
           len(q) == Len(ProgramOf(q, pages))
<1>3. /\ \A q \in Printer : m[q] \in Nat /\ ln[q] \in Nat
      /\ \A q \in Printer : q # t => m[q] = ln[q]
      /\ m[t] = l0 /\ l0 = ln[t] + 1
  BY <1>1
<1>4. \A q \in Printer : /\ ProgramOf(q, pages) \in Seq(Instr)
                         /\ HeldWithin(ProgramOf(q, pages), DepthOf(q, pages))
                         /\ Tagged(ProgramOf(q, pages), q, 1, 5)
                         /\ EndsLine(ProgramOf(q, pages))
                         /\ len(q) \in Nat
  BY Programs DEF Prints, Nested
<1>5. l0 \in 1 .. len(t) /\ IsPutc(t, l0, pages)
  BY <1>1
<1>6. g \in Glyph
  <2>1. ProgramOf(t, pages)[l0] \in Instr
    BY <1>4, <1>5
  <2>2. ProgramOf(t, pages)[l0].glyph \in TextGlyph
    BY <1>5, <2>1 DEF Instr, IsPutc
  <2> QED BY <2>2 DEF TextGlyph, GlyphOf
<1>7. s \in Seq(Glyph)
  BY StreamIn
<1>8. ASSUME NEW q \in Printer, NEW l \in 1 .. len(q), IsPutc(q, l, pages)
      PROVE  \E i \in 1 .. 5 : GlyphOf(q, l, pages).rec = <<q, i>>
  BY <1>4, <1>8 DEF Tagged, IsPutc, GlyphOf
<1>9. \A q \in Printer : q # "boot"
  BY PrinterAssumption
<1>10. w = Append(s, g)
  BY <1>1
<1> HIDE DEF s, w, g, l0
<1>11. /\ Len(s) \in Nat /\ Len(w) = Len(s) + 1 /\ w[Len(s) + 1] = g
      /\ \A i \in 1 .. Len(s) : w[i] = s[i]
  BY <1>6, <1>7, <1>10
<1>12. ASSUME NEW i \in 1 .. Len(s), s[i].rec = g.rec PROVE s[Len(s)].rec = g.rec
  <2>1. PICK a \in 1 .. 5 : g.rec = <<t, a>>
    BY <1>5, <1>8 DEF g
  <2>2. s[i].rec \notin {<<"boot", 1>>, <<"boot", 2>>}
    BY <1>9, <1>12, <2>1
  <2>3. PICK q \in Printer : \E l \in 1 .. ln[q] : IsPutc(q, l, pages) /\ GlyphOf(q, l, pages).rec = s[i].rec
    BY <2>2 DEF Written, s
  <2>4. PICK l \in 1 .. ln[q] : IsPutc(q, l, pages) /\ GlyphOf(q, l, pages).rec = s[i].rec
    BY <2>3
  <2>5. l \in 1 .. len(q)
    <3>1. ln[q] <= len(q)
      BY <1>2
    <3>2. ln[q] \in Nat /\ len(q) \in Nat
      BY <1>3, <1>4
    <3> QED BY <3>1, <3>2
  <2>6. PICK b \in 1 .. 5 : GlyphOf(q, l, pages).rec = <<q, b>>
    BY <1>8, <2>4, <2>5
  <2>7. <<q, b>> = <<t, a>>
    BY <1>12, <2>1, <2>4, <2>6
  <2>8. q = t
    BY <2>7
  <2>9. l \in 1 .. ln[t] /\ IsPutc(t, l, pages) /\ GlyphOf(t, l, pages).rec = g.rec
    BY <1>12, <2>4, <2>8
  <2>10. l0 \in ln[t] + 1 .. len(t) /\ IsPutc(t, l0, pages) /\ GlyphOf(t, l0, pages).rec = g.rec
    BY <1>3, <1>5 DEF g
  <2>11. s[Len(s)].rec = GlyphOf(t, l, pages).rec
    BY <2>9, <2>10 DEF Written, s
  <2> QED BY <2>9, <2>11
<1>13. Contiguous(w)
  <2>1. Contiguous(s)
    BY DEF Written, s
  <2> QED BY <1>6, <1>7, <1>10, <1>12, <2>1, ContiguousOn
<1>14. l0 \in 1 .. m[t]
  BY <1>3
<1>15. ASSUME NEW i \in 1 .. Len(w), w[i].rec \notin {<<"boot", 1>>, <<"boot", 2>>}
       PROVE  \E q \in Printer : \E l \in 1 .. m[q] : IsPutc(q, l, pages) /\ GlyphOf(q, l, pages).rec = w[i].rec
  <2>1. CASE i = Len(s) + 1
    BY <1>5, <1>11, <1>14, <2>1 DEF g
  <2>2. CASE i # Len(s) + 1
    <3>1. i \in 1 .. Len(s) /\ w[i] = s[i]
      BY <1>11, <2>2
    <3>2. PICK q \in Printer : \E l \in 1 .. ln[q] : IsPutc(q, l, pages) /\ GlyphOf(q, l, pages).rec = s[i].rec
      BY <1>15, <3>1 DEF Written, s
    <3>3. PICK l \in 1 .. ln[q] : IsPutc(q, l, pages) /\ GlyphOf(q, l, pages).rec = s[i].rec
      BY <3>2
    <3>4. l \in 1 .. m[q]
      BY <1>3
    <3> QED BY <3>1, <3>3, <3>4
  <2> QED BY <2>1, <2>2
<1>16. ASSUME NEW q \in Printer, NEW j \in 1 .. m[q], NEW k \in m[q] + 1 .. len(q),
              IsPutc(q, j, pages), IsPutc(q, k, pages), GlyphOf(q, j, pages).rec = GlyphOf(q, k, pages).rec
       PROVE  Len(w) > 0 /\ w[Len(w)].rec = GlyphOf(q, j, pages).rec
  <2>0. HeldWithin(ProgramOf(q, pages), DepthOf(q, pages))
    BY <1>4
  <2>1. CASE q = t
    <3>1. CASE j = l0
      BY <1>11, <2>1, <3>1 DEF g
    <3>2. CASE j # l0
      <4>1. j \in 1 .. len(t) /\ k \in 1 .. len(t) /\ j < k /\ l0 \in j .. k - 1
        BY <1>3, <1>4, <1>5, <2>1, <3>2
      <4>2. ProgramOf(t, pages)[l0].glyph.rec = ProgramOf(t, pages)[k].glyph.rec
        BY <1>5, <1>16, <2>0, <2>1, <4>1 DEF HeldWithin, IsPutc, GlyphOf
      <4>3. g.rec = GlyphOf(t, k, pages).rec
        BY <4>2 DEF g, GlyphOf
      <4> QED BY <1>11, <1>16, <2>1, <4>3
    <3> QED BY <3>1, <3>2
  <2>2. CASE q # t
    <3>1. m[q] = ln[q] /\ DepthOf(q, pages)[ln[q]] = 0 /\ ln[q] <= len(q)
      BY <1>1, <1>3, <2>2
    <3>2. j \in 1 .. len(q) /\ k \in 1 .. len(q) /\ j < k /\ ln[q] \in j .. k - 1
      BY <1>3, <1>4, <3>1
    <3>3. DepthOf(q, pages)[ln[q]] >= 1
      BY <1>16, <2>0, <3>2 DEF HeldWithin, IsPutc, GlyphOf
    <3> QED BY <3>1, <3>3
  <2> QED BY <2>1, <2>2
<1>17. ASSUME NEW q \in Printer, NEW l \in 1 .. m[q], IsPutc(q, l, pages)
       PROVE  \E j \in 1 .. Len(w) : w[j] = GlyphOf(q, l, pages)
  <2>1. CASE q = t /\ l = l0
    <3>1. Len(s) + 1 \in 1 .. Len(w)
      BY <1>11
    <3> QED BY <1>11, <2>1, <3>1 DEF g
  <2>2. CASE ~(q = t /\ l = l0)
    <3>1. l \in 1 .. ln[q]
      BY <1>3, <2>2
    <3>2. PICK j \in 1 .. Len(s) : s[j] = GlyphOf(q, l, pages)
      BY <1>17, <3>1 DEF Written, s
    <3>3. j \in 1 .. Len(w) /\ w[j] = s[j]
      BY <1>11
    <3> QED BY <3>2, <3>3
  <2> QED BY <2>1, <2>2
<1>18. ASSUME u.buffer # << >>
       PROVE  \E q \in Printer : \E l \in m[q] + 1 .. len(q) :
                IsPutc(q, l, pages) /\ GlyphOf(q, l, pages).ch = "newline"
  <2>1. g.ch # "newline"
    BY <1>1, <1>18 DEF g, l0
  <2>2. EndsLine(ProgramOf(t, pages))
    BY <1>4
  <2>3. PICK k \in 1 .. len(t) : /\ IsPutc(t, k, pages) /\ GlyphOf(t, k, pages).ch = "newline"
                                 /\ \A l \in k + 1 .. len(t) : ~IsPutc(t, l, pages)
    BY <2>2 DEF EndsLine, IsPutc, GlyphOf
  <2>4. l0 # k
    BY <2>1, <2>3 DEF g
  <2>5. ~(l0 > k)
    <3>1. l0 > k => l0 \in k + 1 .. len(t)
      BY <1>4, <1>5
    <3> QED BY <1>5, <2>3, <3>1
  <2>6. k \in m[t] + 1 .. len(t)
    BY <1>3, <1>4, <1>5, <2>4, <2>5
  <2> QED BY <2>3, <2>6
<1> QED BY <1>13, <1>15, <1>16, <1>17, <1>18 DEF Written, w

\* Entering and leaving a scope, and what is done in it.
LEMMA LocksEnter ==
  ASSUME NEW own, NEW ln, NEW sc, NEW pages \in BOOLEAN, NEW t \in Printer, Locks(own, ln, sc, pages),
         ln[t] + 1 \in 1 .. Len(ProgramOf(t, pages)), ProgramOf(t, pages)[ln[t] + 1].op = "lock",
         own \in {t, Nobody}
  PROVE  Locks(t, [ln EXCEPT ![t] = @ + 1],
               [sc EXCEPT ![t] = Append(@, IF own = t THEN "nested" ELSE "locked")], pages)
<1> DEFINE x == IF own = t THEN "nested" ELSE "locked"
           b == Append(sc[t], x)
           m == [ln EXCEPT ![t] = @ + 1]
           r == [sc EXCEPT ![t] = Append(@, x)]
<1>1. /\ ln \in [Printer -> Nat] /\ sc \in [Printer -> Seq({"locked", "nested"})]
      /\ \A q \in Printer :
           /\ ln[q] <= Len(ProgramOf(q, pages))
           /\ Len(sc[q]) = DepthOf(q, pages)[ln[q]]
           /\ own = q <=> sc[q] # << >>
           /\ \A i \in 1 .. Len(sc[q]) : sc[q][i] = "locked" <=> i = 1
  BY DEF Locks
<1>2. Nested(ProgramOf(t, pages), DepthOf(t, pages))
  BY Programs DEF Prints
<1>3. DepthOf(t, pages)[ln[t] + 1] = DepthOf(t, pages)[ln[t]] + 1
  <2>1. (ln[t] + 1) - 1 = ln[t]
    BY <1>1
  <2> QED BY <1>2, <2>1 DEF Nested
<1>4. x \in {"locked", "nested"} /\ sc[t] \in Seq({"locked", "nested"}) /\ (sc[t] # << >> => Len(sc[t]) >= 1)
      /\ (sc[t] = << >> => Len(sc[t]) = 0)
  BY <1>1
<1>5. x = "locked" <=> sc[t] = << >>
  BY <1>1
<1> HIDE DEF x
<1> DEFINE a == sc[t]
<1>6. /\ b \in Seq({"locked", "nested"}) /\ Len(b) = Len(a) + 1 /\ b # << >> /\ b[Len(a) + 1] = x
      /\ \A i \in 1 .. Len(a) : b[i] = a[i]
  <2>1. a \in Seq({"locked", "nested"}) /\ b = Append(a, x)
    BY <1>4
  <2> HIDE DEF a, b
  <2>2. b \in Seq({"locked", "nested"}) /\ Len(b) = Len(a) + 1 /\ b[Len(a) + 1] = x
        /\ \A i \in 1 .. Len(a) : b[i] = a[i]
    BY <1>4, <2>1
  <2>3. Len(a) \in Nat
    BY <2>1
  <2>4. b # << >>
    BY <2>2, <2>3
  <2> QED BY <2>2, <2>4
<1>7. r = [sc EXCEPT ![t] = b]
  OBVIOUS
<1> HIDE DEF b
<1>8. /\ r \in [Printer -> Seq({"locked", "nested"})] /\ r[t] = b
      /\ \A q \in Printer : q # t => r[q] = sc[q]
  BY <1>1, <1>6, <1>7
<1>9. /\ m \in [Printer -> Nat] /\ m[t] = ln[t] + 1
      /\ \A q \in Printer : q # t => m[q] = ln[q]
  BY <1>1
<1> HIDE DEF r, m
<1>10. ASSUME NEW q \in Printer
       PROVE  /\ m[q] <= Len(ProgramOf(q, pages))
              /\ Len(r[q]) = DepthOf(q, pages)[m[q]]
              /\ t = q <=> r[q] # << >>
              /\ \A i \in 1 .. Len(r[q]) : r[q][i] = "locked" <=> i = 1
  <2>1. CASE q = t
    <3>1. \A i \in 1 .. Len(b) : b[i] = "locked" <=> i = 1
      <4> SUFFICES ASSUME NEW i \in 1 .. Len(b) PROVE b[i] = "locked" <=> i = 1
        OBVIOUS
      <4>1. CASE i = Len(sc[t]) + 1
        BY <1>4, <1>5, <1>6, <4>1
      <4>2. CASE i # Len(sc[t]) + 1
        <5>1. i \in 1 .. Len(sc[t])
          BY <1>4, <1>6, <4>2
        <5>2. sc[t][i] = "locked" <=> i = 1
          BY <1>1, <5>1
        <5> QED BY <1>6, <5>1, <5>2
      <4> QED BY <4>1, <4>2
    <3>2. ln[t] + 1 <= Len(ProgramOf(t, pages))
      BY <1>2 DEF Nested
    <3> QED BY <1>1, <1>3, <1>6, <1>8, <1>9, <2>1, <3>1, <3>2
  <2>2. CASE q # t
    <3>1. own # q
      <4>1. q # Nobody
        BY PrinterAssumption DEF Nobody
      <4> QED BY <2>2, <4>1
    <3> QED BY <1>1, <1>8, <1>9, <2>2, <3>1
  <2> QED BY <2>1, <2>2
<1>11. Locks(t, m, r, pages)
  BY <1>8, <1>9, <1>10 DEF Locks
<1> QED BY <1>11 DEF m, r, x

\* Leaving a scope: the outermost gives the mutex up.
LEMMA LocksLeave ==
  ASSUME NEW own, NEW ln, NEW sc, NEW pages \in BOOLEAN, NEW t \in Printer, Locks(own, ln, sc, pages),
         ln[t] + 1 \in 1 .. Len(ProgramOf(t, pages)), ProgramOf(t, pages)[ln[t] + 1].op = "unlock"
  PROVE  Locks(IF Last(sc[t]) = "nested" THEN own ELSE Nobody, [ln EXCEPT ![t] = @ + 1],
               [sc EXCEPT ![t] = Front(@)], pages)
<1> DEFINE new == IF Last(sc[t]) = "nested" THEN own ELSE Nobody
           n == Len(sc[t])
           b == Front(sc[t])
           m == [ln EXCEPT ![t] = @ + 1]
           r == [sc EXCEPT ![t] = Front(@)]
<1>1. /\ ln \in [Printer -> Nat] /\ sc \in [Printer -> Seq({"locked", "nested"})]
      /\ \A q \in Printer :
           /\ ln[q] <= Len(ProgramOf(q, pages))
           /\ Len(sc[q]) = DepthOf(q, pages)[ln[q]]
           /\ own = q <=> sc[q] # << >>
           /\ \A i \in 1 .. Len(sc[q]) : sc[q][i] = "locked" <=> i = 1
  BY DEF Locks
<1>2. Nested(ProgramOf(t, pages), DepthOf(t, pages))
  BY Programs DEF Prints
<1>3. n = DepthOf(t, pages)[ln[t] + 1] + 1 /\ DepthOf(t, pages)[ln[t] + 1] \in Nat
      /\ ln[t] + 1 <= Len(ProgramOf(t, pages))
  <2>1. (ln[t] + 1) - 1 = ln[t] /\ ln[t] + 1 \in 0 .. Len(ProgramOf(t, pages))
    BY <1>1, <1>2 DEF Nested
  <2> QED BY <1>1, <1>2, <2>1 DEF Nested
<1>4. n \in Nat \ {0} /\ sc[t] \in Seq({"locked", "nested"}) /\ sc[t] # << >> /\ own = t
  BY <1>1, <1>3
<1>5. /\ b \in Seq({"locked", "nested"}) /\ Len(b) = n - 1 /\ (b # << >> <=> n # 1)
      /\ \A i \in 1 .. n - 1 : b[i] = sc[t][i]
  <2>1. b = SubSeq(sc[t], 1, n - 1)
    BY DEF Front
  <2>2. /\ b \in Seq({"locked", "nested"}) /\ Len(b) = n - 1
        /\ \A i \in 1 .. n - 1 : b[i] = sc[t][i]
    <3> DEFINE a == sc[t]
    <3>1. a \in Seq({"locked", "nested"}) /\ n = Len(a) /\ b = SubSeq(a, 1, n - 1)
      BY <1>4, <2>1
    <3> HIDE DEF a, b, n
    <3>2. /\ b \in Seq({"locked", "nested"}) /\ Len(b) = n - 1
          /\ \A i \in 1 .. n - 1 : b[i] = a[i]
      BY <1>4, <3>1
    <3> QED BY <3>2 DEF a
  <2> HIDE DEF b, n
  <2>3. b # << >> <=> n # 1
    BY <1>4, <2>2
  <2> QED BY <2>2, <2>3
<1>6. new = IF n = 1 THEN Nobody ELSE t
  <2>1. Last(sc[t]) = sc[t][n] /\ n \in 1 .. n
    BY <1>4 DEF Last
  <2>2. sc[t][n] \in {"locked", "nested"}
    BY <1>4, <2>1
  <2>3. sc[t][n] = "locked" <=> n = 1
    BY <1>1, <2>1
  <2> QED BY <1>4, <2>1, <2>2, <2>3
<1>7. r = [sc EXCEPT ![t] = b]
  OBVIOUS
<1> HIDE DEF b, new
<1>8. /\ r \in [Printer -> Seq({"locked", "nested"})] /\ r[t] = b
      /\ \A q \in Printer : q # t => r[q] = sc[q]
  BY <1>1, <1>5, <1>7
<1>9. /\ m \in [Printer -> Nat] /\ m[t] = ln[t] + 1
      /\ \A q \in Printer : q # t => m[q] = ln[q]
  BY <1>1
<1> HIDE DEF r, m
<1>10. \A q \in Printer : q # Nobody
  BY PrinterAssumption DEF Nobody
<1>11. ASSUME NEW q \in Printer
       PROVE  /\ m[q] <= Len(ProgramOf(q, pages))
              /\ Len(r[q]) = DepthOf(q, pages)[m[q]]
              /\ new = q <=> r[q] # << >>
              /\ \A i \in 1 .. Len(r[q]) : r[q][i] = "locked" <=> i = 1
  <2>1. CASE q = t
    <3>1. Len(b) = DepthOf(t, pages)[ln[t] + 1]
      BY <1>3, <1>4, <1>5
    <3>2. new = t <=> b # << >>
      BY <1>5, <1>6, <1>10
    <3>3. \A i \in 1 .. Len(b) : b[i] = "locked" <=> i = 1
      <4> SUFFICES ASSUME NEW i \in 1 .. Len(b) PROVE b[i] = "locked" <=> i = 1
        OBVIOUS
      <4>1. i \in 1 .. n - 1 /\ i \in 1 .. Len(sc[t])
        BY <1>4, <1>5
      <4>2. sc[t][i] = "locked" <=> i = 1
        BY <1>1, <4>1
      <4> QED BY <1>5, <4>1, <4>2
    <3> QED BY <1>3, <1>8, <1>9, <2>1, <3>1, <3>2, <3>3
  <2>2. CASE q # t
    <3>1. new # q /\ own # q
      BY <1>4, <1>6, <1>10, <2>2
    <3> QED BY <1>1, <1>8, <1>9, <2>2, <3>1
  <2> QED BY <2>1, <2>2
<1>12. new \in Printer \cup {Nobody}
  BY <1>6
<1>13. Locks(new, m, r, pages)
  BY <1>8, <1>9, <1>11, <1>12 DEF Locks
<1> QED BY <1>13 DEF m, r, new

\* Writing moves the position, and only the owner of the mutex writes.
LEMMA LocksWrite ==
  ASSUME NEW own, NEW ln, NEW sc, NEW pages \in BOOLEAN, NEW t \in Printer, Locks(own, ln, sc, pages),
         ln[t] + 1 \in 1 .. Len(ProgramOf(t, pages)), Writes(ProgramOf(t, pages)[ln[t] + 1])
  PROVE  /\ Locks(own, [ln EXCEPT ![t] = @ + 1], sc, pages)
         /\ own = t
         /\ \A q \in Printer : q # t => DepthOf(q, pages)[ln[q]] = 0
<1> DEFINE m == [ln EXCEPT ![t] = @ + 1]
<1>1. /\ ln \in [Printer -> Nat] /\ sc \in [Printer -> Seq({"locked", "nested"})]
      /\ own \in Printer \cup {Nobody}
      /\ \A q \in Printer :
           /\ ln[q] <= Len(ProgramOf(q, pages))
           /\ Len(sc[q]) = DepthOf(q, pages)[ln[q]]
           /\ own = q <=> sc[q] # << >>
           /\ \A i \in 1 .. Len(sc[q]) : sc[q][i] = "locked" <=> i = 1
  BY DEF Locks
<1>2. Nested(ProgramOf(t, pages), DepthOf(t, pages))
  BY Programs DEF Prints
<1>3. DepthOf(t, pages)[ln[t] + 1] = DepthOf(t, pages)[ln[t]] /\ DepthOf(t, pages)[ln[t]] >= 1
      /\ ln[t] + 1 <= Len(ProgramOf(t, pages))
  <2>1. (ln[t] + 1) - 1 = ln[t] /\ ln[t] + 1 <= Len(ProgramOf(t, pages))
    BY <1>1, <1>2 DEF Nested
  <2>2. /\ DepthOf(t, pages)[ln[t] + 1] = DepthOf(t, pages)[(ln[t] + 1) - 1]
        /\ DepthOf(t, pages)[ln[t] + 1] >= 1
    BY <1>2 DEF Nested
  <2> QED BY <2>1, <2>2
<1>4. own = t
  <2>1. Len(sc[t]) >= 1
    BY <1>1, <1>3
  <2>2. sc[t] # << >>
    BY <2>1
  <2> QED BY <1>1, <2>2
<1>5. \A q \in Printer : q # t => sc[q] = << >> /\ Len(sc[q]) = 0
  BY <1>1, <1>4
<1>6. /\ m \in [Printer -> Nat] /\ m[t] = ln[t] + 1
      /\ \A q \in Printer : q # t => m[q] = ln[q]
  BY <1>1
<1> HIDE DEF m
<1>7. \A q \in Printer : m[q] <= Len(ProgramOf(q, pages)) /\ DepthOf(q, pages)[m[q]] = DepthOf(q, pages)[ln[q]]
  BY <1>1, <1>3, <1>6
<1>8. Locks(own, m, sc, pages)
  BY <1>1, <1>6, <1>7 DEF Locks
<1> QED BY <1>1, <1>4, <1>5, <1>8 DEF m
-----------------------------------------------------------------------------
(* A panic.                                                                *)

PanicGlyph == {g \in Glyph : g.want = CON_COLOR_RED /\ g.rec = <<"panic", 0>>}
PanicInstr == [op : {"panic"}] \cup [op : {"putc"}, glyph : PanicGlyph]

\* Two codes of a panic, one after the other.
LEMMA PanicJoin ==
  ASSUME NEW s \in Seq(PanicInstr), NEW r \in Seq(PanicInstr), Len(s) = 1
  PROVE  s \o r \in Seq(PanicInstr) /\ Len(s \o r) >= 1 /\ (s \o r)[1] = s[1]
OBVIOUS

\* The code that writes one text of a panic.
LEMMA PanicText ==
  ASSUME NEW text \in Seq(Chars)
  PROVE  LET c == tty_panic_printf(text) IN
         c \in Seq(PanicInstr) /\ Len(c) >= 1 /\ c[1].op = "panic"
<1> DEFINE n == Len(text)
           gs == Glyphs(text, CON_COLOR_RED, <<"panic", 0>>)
           p == [i \in DOMAIN text |-> [op |-> "putc", glyph |-> gs[i]]]
           b == <<[op |-> "panic"]>>
           c == tty_panic_printf(text)
<1>1. n \in Nat /\ DOMAIN text = 1 .. n /\ \A i \in 1 .. n : text[i] \in Chars
  OBVIOUS
<1>2. CON_COLOR_RED \in Colours /\ <<"panic", 0>> \in Writers \X Nat
  BY DEF CON_COLOR_RED, Colours, Writers
<1>3. ASSUME NEW i \in 1 .. n PROVE p[i] \in PanicInstr
  <2> DEFINE g == [ch |-> text[i], want |-> CON_COLOR_RED, rec |-> <<"panic", 0>>]
  <2>1. g \in Glyph /\ g.want = CON_COLOR_RED /\ g.rec = <<"panic", 0>>
    BY <1>1, <1>2 DEF Glyph
  <2>2. p[i] = [op |-> "putc", glyph |-> g]
    BY <1>1 DEF Glyphs
  <2> HIDE DEF g
  <2>3. g \in PanicGlyph
    BY <2>1 DEF PanicGlyph
  <2> QED BY <2>2, <2>3 DEF PanicInstr
<1>4. p \in Seq(PanicInstr)
  <2>1. p = [i \in 1 .. n |-> p[i]]
    BY <1>1
  <2> HIDE DEF p
  <2> QED BY <1>1, <1>3, <2>1
<1>5. b \in Seq(PanicInstr) /\ Len(b) = 1
  <2>1. [op |-> "panic"] \in PanicInstr
    BY DEF PanicInstr
  <2> QED BY <2>1
<1>6. b[1].op = "panic"
  OBVIOUS
<1>7. c = b \o p
  BY DEF tty_panic_printf
<1> HIDE DEF p, b
<1> HIDE DEF c, gs, n
<1>8. c \in Seq(PanicInstr) /\ Len(c) >= 1 /\ c[1] = b[1]
  BY ONLY <1>4, <1>5, <1>7, PanicJoin
<1> QED BY <1>6, <1>8 DEF c

\* The code of a panic starts by setting g_panic.
LEMMA PanicCodeIs == PanicCode \in Seq(PanicInstr) /\ Len(PanicCode) >= 1 /\ PanicCode[1].op = "panic"
<1> DEFINE t1 == <<"K", "newline">>
           t2 == <<"tab", "M">>
           t3 == <<"newline">>
           c1 == tty_panic_printf(t1)
           c2 == tty_panic_printf(t2)
           c3 == tty_panic_printf(t3)
<1>1. t1 \in Seq(Chars) /\ t2 \in Seq(Chars) /\ t3 \in Seq(Chars)
  BY DEF Chars
<1>2. PanicCode = (c1 \o c2) \o c3
  BY DEF PanicCode
<1> HIDE DEF t1, t2, t3
<1>3. /\ c1 \in Seq(PanicInstr) /\ Len(c1) >= 1 /\ c1[1].op = "panic"
      /\ c2 \in Seq(PanicInstr) /\ c3 \in Seq(PanicInstr)
  BY <1>1, PanicText
<1> HIDE DEF c1, c2, c3
<1>4. c1 \o c2 \in Seq(PanicInstr) /\ Len(c1 \o c2) >= 1 /\ (c1 \o c2)[1] = c1[1]
  BY <1>3
<1> QED BY <1>2, <1>3, <1>4

SaidGlyph(i) == IF PanicCode[i].op = "putc" THEN PanicCode[i].glyph ELSE Space

\* What the panic has said grows by the characters it writes.
LEMMA SaidIs ==
  /\ Said(0) = << >>
  /\ \A k \in 0 .. Len(PanicCode) - 1 :
       /\ Said(k) \in Seq(Glyph)
       /\ Said(k + 1) = IF PanicCode[k + 1].op = "putc" THEN Kept(Said(k), PanicCode[k + 1].glyph) ELSE Said(k)
<1> DEFINE n == Len(PanicCode)
           p(k) == [i \in 1 .. k |-> SaidGlyph(i)]
<1>1. \A k : Said(k) = Records(p(k))
  BY DEF Said, SaidGlyph
<1>2. n \in Nat
  BY PanicCodeIs
<1>3. Space \in Shown /\ ~Recorded(Space)
  BY DEF Shown, Recorded
<1>4. ASSUME NEW i \in 1 .. n
      PROVE  /\ SaidGlyph(i) \in Shown
             /\ PanicCode[i].op = "putc" => SaidGlyph(i) = PanicCode[i].glyph
             /\ PanicCode[i].op # "putc" => SaidGlyph(i) = Space
  <2>1. PanicCode[i] \in PanicInstr
    BY PanicCodeIs
  <2> QED BY <1>3, <2>1 DEF SaidGlyph, PanicInstr, PanicGlyph, Shown
<1>5. Said(0) = << >>
  <2>1. p(0) = << >>
    OBVIOUS
  <2> HIDE DEF p
  <2> QED BY <1>1, <2>1, RecordsAre
<1>6. ASSUME NEW k \in 0 .. n - 1
      PROVE  /\ Said(k) \in Seq(Glyph)
             /\ Said(k + 1) = IF PanicCode[k + 1].op = "putc" THEN Kept(Said(k), PanicCode[k + 1].glyph) ELSE Said(k)
  <2> DEFINE g == SaidGlyph(k + 1)
  <2>1. k \in Nat /\ k + 1 \in 1 .. n
    BY <1>2
  <2>2. g \in Shown
    BY <1>4, <2>1
  <2>3. p(k) \in Seq(Shown) /\ Len(p(k)) = k /\ \A i \in 1 .. k : p(k)[i] = SaidGlyph(i)
    <3>1. \A i \in 1 .. k : SaidGlyph(i) \in Shown
      BY <1>4, <2>1
    <3> QED BY <2>1, <3>1
  <2>4. p(k + 1) \in Seq(Shown) /\ Len(p(k + 1)) = k + 1 /\ \A i \in 1 .. k + 1 : p(k + 1)[i] = SaidGlyph(i)
    <3>1. \A i \in 1 .. k + 1 : SaidGlyph(i) \in Shown
      BY <1>4, <2>1
    <3> QED BY <2>1, <3>1
  <2> HIDE DEF p
  <2>5. p(k + 1) = Append(p(k), g)
    <3> HIDE DEF g
    <3>1. /\ Append(p(k), g) \in Seq(Shown) /\ Len(Append(p(k), g)) = k + 1
          /\ Append(p(k), g)[k + 1] = g
          /\ \A i \in 1 .. k : Append(p(k), g)[i] = p(k)[i]
      BY <2>1, <2>2, <2>3
    <3>2. p(k + 1)[k + 1] = g
      BY <2>1, <2>4 DEF g
    <3> QED BY <2>1, <2>3, <2>4, <3>1, <3>2
  <2> HIDE DEF g
  <2>6. Records(p(k)) \in Seq(Glyph) /\ Records(p(k + 1)) = Kept(Records(p(k)), g)
    BY <2>2, <2>3, <2>5, RecordsAre DEF Kept
  <2>7. CASE PanicCode[k + 1].op = "putc"
    BY <1>1, <1>4, <2>1, <2>6, <2>7 DEF g
  <2>8. CASE PanicCode[k + 1].op # "putc"
    BY <1>1, <1>3, <1>4, <2>1, <2>6, <2>8 DEF g, Kept
  <2> QED BY <2>7, <2>8
<1> QED BY <1>5, <1>6

\* It is a sequence of characters at every position.
LEMMA SaidAlways == \A k \in 0 .. Len(PanicCode) : Said(k) \in Seq(Glyph)
<1> SUFFICES ASSUME NEW k \in 0 .. Len(PanicCode) PROVE Said(k) \in Seq(Glyph)
  OBVIOUS
<1>1. Len(PanicCode) \in Nat /\ Len(PanicCode) >= 1
  BY PanicCodeIs
<1>2. CASE k < Len(PanicCode)
  <2>1. k \in 0 .. Len(PanicCode) - 1
    BY <1>1, <1>2
  <2> QED BY <2>1, SaidIs
<1>3. CASE k = Len(PanicCode)
  <2> DEFINE p == k - 1
  <2>1. p \in 0 .. Len(PanicCode) - 1 /\ p + 1 = k /\ p + 1 \in 1 .. Len(PanicCode)
    BY <1>1, <1>3
  <2> HIDE DEF p
  <2>2. Said(p) \in Seq(Glyph)
        /\ Said(p + 1) = IF PanicCode[p + 1].op = "putc" THEN Kept(Said(p), PanicCode[p + 1].glyph) ELSE Said(p)
    BY <2>1, SaidIs
  <2>3. PanicCode[p + 1] \in PanicInstr
    BY <2>1, PanicCodeIs
  <2>4. PanicCode[p + 1].op = "putc" => PanicCode[p + 1].glyph \in Glyph
    BY <2>3 DEF PanicInstr, PanicGlyph
  <2>5. PanicCode[p + 1].op = "putc" => Append(Said(p), PanicCode[p + 1].glyph) \in Seq(Glyph)
    BY <2>2, <2>4
  <2>6. Said(p + 1) \in Seq(Glyph)
    BY <2>2, <2>5 DEF Kept
  <2> QED BY <2>1, <2>6
<1> QED BY <1>1, <1>2, <1>3

\* After the first k - 1 instructions of the panic: what was shown before it,
\* and the message so far.
PanicShown(o, k) ==
  LET r == Records(o.vga.shown) IN
  /\ Contiguous(r)
  /\ \A i, j \in 1 .. Len(r) : i < j /\ r[i].rec = <<"panic", 0>> => r[j].rec = <<"panic", 0>>
  /\ \E q \in Seq(Glyph) : r = q \o Said(k - 1)

\* The first step of a panic.
LEMMA PanicBegins ==
  ASSUME NEW o, OutInv(o), Contiguous(Stream(o)),
         \A i \in 1 .. Len(Stream(o)) : Stream(o)[i].rec # <<"panic", 0>>
  PROVE  PanicShown(o, 1)
<1> DEFINE r == Records(o.vga.shown)
           b == Records(o.buffer)
<1>1. r \in Seq(Glyph) /\ b \in Seq(Glyph) /\ Stream(o) = r \o b
  BY StreamIn DEF Stream
<1> HIDE DEF r, b
<1>2. Contiguous(r)
  BY <1>1, ContiguousPrefix
<1>3. \A i \in 1 .. Len(r) : r[i].rec # <<"panic", 0>>
  <2>1. \A i \in 1 .. Len(r) : i \in 1 .. Len(r \o b) /\ (r \o b)[i] = r[i]
    BY <1>1
  <2> QED BY <1>1, <2>1
<1>4. r = r \o Said(1 - 1)
  BY <1>1, SaidIs
<1> QED BY <1>1, <1>2, <1>3, <1>4 DEF PanicShown, r

\* Every later one.
LEMMA PanicGoesOn ==
  ASSUME NEW o, OutInv(o), NEW k \in 1 .. Len(PanicCode), PanicShown(o, k), k > 1 => o.g_panic, NEW tty
  PROVE  LET i == PanicCode[k]
             u == IF i.op = "panic" THEN [o EXCEPT !.g_panic = TRUE] ELSE gp_putc(o, tty, i.glyph) IN
         OutInv(u) /\ u.g_panic /\ PanicShown(u, k + 1)
<1> DEFINE i == PanicCode[k]
           u == IF i.op = "panic" THEN [o EXCEPT !.g_panic = TRUE] ELSE gp_putc(o, tty, i.glyph)
           r == Records(o.vga.shown)
<1>1. i \in PanicInstr /\ k \in Nat /\ k - 1 \in 0 .. Len(PanicCode) - 1 /\ (k - 1) + 1 = k /\ (k + 1) - 1 = k
  BY PanicCodeIs
<1>2. Said(k - 1) \in Seq(Glyph) /\ Said(k) = IF i.op = "putc" THEN Kept(Said(k - 1), i.glyph) ELSE Said(k - 1)
  BY <1>1, SaidIs
<1>3. r \in Seq(Glyph)
  BY StreamIn
<1>4. CASE i.op = "panic"
  <2>1. u = [o EXCEPT !.g_panic = TRUE]
    BY <1>4
  <2>2. u \in Out /\ u.g_panic /\ u.vga = o.vga /\ u.buffer = o.buffer /\ u.log = o.log
    BY <2>1 DEF OutInv, Out
  <2> HIDE DEF u
  <2>3. OutInv(u)
    BY <2>2 DEF OutInv
  <2>4. Said((k + 1) - 1) = Said(k - 1)
    BY <1>1, <1>2, <1>4
  <2>5. PanicShown(u, k + 1)
    BY <2>2, <2>4 DEF PanicShown
  <2> QED BY <2>2, <2>3, <2>5 DEF u
<1>5. CASE i.op = "putc"
  <2> DEFINE g == i.glyph
             w == Records(u.vga.shown)
  <2>1. g \in Glyph /\ g.want = CON_COLOR_RED /\ g.rec = <<"panic", 0>>
    BY <1>1, <1>5 DEF PanicInstr, PanicGlyph
  <2>2. o.g_panic
    <3>1. k # 1
      BY <1>5, PanicCodeIs
    <3> QED BY <1>1, <3>1
  <2>3. u = gp_putc(o, tty, g)
    BY <1>5
  <2> HIDE DEF u, g
  <2>4. OutInv(u) /\ u.g_panic /\ w = Kept(r, g)
    BY <2>1, <2>2, <2>3, PutcPanics
  <2>5. Said((k + 1) - 1) = Kept(Said(k - 1), g)
    BY <1>1, <1>2, <1>5 DEF g
  <2>6. PICK q \in Seq(Glyph) : r = q \o Said(k - 1)
    BY DEF PanicShown
  <2>7. w = q \o Said((k + 1) - 1)
    <3>1. CASE Recorded(g)
      <4>1. Append(q \o Said(k - 1), g) = q \o Append(Said(k - 1), g)
        BY <1>2, <2>1, AppendsLast
      <4> QED BY <2>4, <2>5, <2>6, <3>1, <4>1 DEF Kept
    <3>2. CASE ~Recorded(g)
      BY <2>4, <2>5, <2>6, <3>2 DEF Kept
    <3> QED BY <3>1, <3>2
  <2> HIDE DEF w, r
  <2>8. Contiguous(r) /\ \A a, b \in 1 .. Len(r) : a < b /\ r[a].rec = <<"panic", 0>> => r[b].rec = <<"panic", 0>>
    BY DEF PanicShown, r
  <2>9. Contiguous(w) /\ \A a, b \in 1 .. Len(w) : a < b /\ w[a].rec = <<"panic", 0>> => w[b].rec = <<"panic", 0>>
    <3>1. CASE ~Recorded(g)
      BY <2>4, <2>8, <3>1 DEF Kept
    <3>2. CASE Recorded(g)
      <4>1. w = Append(r, g)
        BY <2>4, <3>2 DEF Kept
      <4>2. Len(r) \in Nat /\ Len(w) = Len(r) + 1 /\ w[Len(r) + 1] = g /\ \A a \in 1 .. Len(r) : w[a] = r[a]
        BY <1>3, <2>1, <4>1
      <4>3. ASSUME NEW a \in 1 .. Len(r), r[a].rec = g.rec PROVE r[Len(r)].rec = g.rec
        <5>1. a = Len(r) \/ a < Len(r)
          BY <4>2
        <5>2. Len(r) \in 1 .. Len(r)
          BY <4>2
        <5> QED BY <2>1, <2>8, <4>3, <5>1, <5>2
      <4>4. Contiguous(w)
        BY <1>3, <2>1, <2>8, <4>1, <4>3, ContiguousOn
      <4>5. ASSUME NEW a \in 1 .. Len(w), NEW b \in 1 .. Len(w), a < b, w[a].rec = <<"panic", 0>>
            PROVE  w[b].rec = <<"panic", 0>>
        <5>1. CASE b = Len(r) + 1
          BY <2>1, <4>2, <5>1
        <5>2. CASE b # Len(r) + 1
          <6>1. a \in 1 .. Len(r) /\ b \in 1 .. Len(r)
            BY <4>2, <4>5, <5>2, SMTT(30)
          <6> QED BY <2>8, <4>2, <4>5, <6>1
        <5> QED BY <5>1, <5>2
      <4> QED BY <4>4, <4>5
    <3> QED BY <3>1, <3>2
  <2>10. PanicShown(u, k + 1)
    BY <2>7, <2>9 DEF PanicShown, w
  <2> QED BY <2>4, <2>10 DEF u
<1>6. i.op \in {"panic", "putc"}
  BY <1>1 DEF PanicInstr
<1> QED BY <1>4, <1>5, <1>6
-----------------------------------------------------------------------------
(* What is on the screen at every step.                                    *)

\* Until the threads run the boot thread is alone with the terminals.
BootAlone ==
  /\ owner = Nobody /\ line = [t \in Printer |-> 0] /\ tty_scopes = [t \in Printer |-> << >>]
  /\ out.buffer = << >> /\ Contiguous(Stream(out))
  /\ \A i \in 1 .. Len(Stream(out)) : Stream(out)[i].rec \in {<<"boot", 1>>, <<"boot", 2>>}
  /\ k_at # "handoff" => \A i \in 1 .. Len(Stream(out)) : Stream(out)[i].rec = <<"boot", 1>>
  /\ k_at = "handoff" => out.log = "tty1"

ThreadsPrint ==
  /\ out.log = "tty1"
  /\ Locks(owner, line, tty_scopes, granted)
  /\ Coloured(out, line, granted)
  /\ Written(out, line, granted)

PrintInv ==
  /\ OutInv(out) /\ granted \in BOOLEAN
  /\ kpanic \in 0 .. Len(PanicCode) + 1
  /\ kpanic > 0 => ~interrupts /\ PanicShown(out, kpanic)
  /\ kpanic > 1 => out.g_panic
  /\ kpanic = 0 => /\ ~out.g_panic
                   /\ k_at # "threads" => BootAlone
                   /\ k_at = "threads" => ThreadsPrint

\* The part of the state the invariant is about.
printed == <<out, owner, line, tty_scopes, k_at, kpanic, granted>>

\* The invariant holds before the kernel starts.
LEMMA PrintInitially == StartInit => PrintInv
<1> SUFFICES ASSUME StartInit PROVE PrintInv
  OBVIOUS
<1>1. /\ out = NoOutput /\ owner = Nobody /\ line = [t \in Printer |-> 0]
      /\ tty_scopes = [t \in Printer |-> << >>] /\ k_at = "cpu" /\ kpanic = 0 /\ granted = TRUE
  BY DEF StartInit, PrintInit
<1>2. /\ OutInv(out) /\ ~out.g_panic /\ out.buffer = << >> /\ Stream(out) = << >>
  BY <1>1, NoOutputYet
<1>3. Len(Stream(out)) = 0
  BY <1>2
<1>4. BootAlone
  BY <1>1, <1>2, <1>3 DEF BootAlone, Contiguous
<1> QED BY <1>1, <1>2, <1>4, PanicCodeIs DEF PrintInv

\* It speaks of the printers, the output and where the kernel is, and of no more.
LEMMA PrintUnchanged ==
  ASSUME PrintInv, UNCHANGED printed, interrupts' = interrupts \/ kpanic = 0
  PROVE  PrintInv'
<1>1. /\ out' = out /\ owner' = owner /\ line' = line /\ tty_scopes' = tty_scopes /\ k_at' = k_at
      /\ kpanic' = kpanic /\ granted' = granted
  BY DEF printed
<1>2. BootAlone => BootAlone'
  BY <1>1 DEF BootAlone
<1>3. ThreadsPrint => ThreadsPrint'
  BY <1>1 DEF ThreadsPrint
<1> QED BY <1>1, <1>2, <1>3 DEF PrintInv

\* The boot thread goes on without printing.
LEMMA BootQuiet ==
  ASSUME PrintInv, kpanic = 0, k_at \notin {"threads", "handoff"}, k_at' \notin {"threads", "handoff"},
         UNCHANGED <<out, printVars, kpanic, granted>>
  PROVE  PrintInv'
<1>1. /\ out' = out /\ owner' = owner /\ line' = line /\ tty_scopes' = tty_scopes
      /\ kpanic' = kpanic /\ granted' = granted
  BY DEF printVars
<1>2. BootAlone /\ k_at # "handoff" /\ k_at' # "handoff"
  BY DEF PrintInv
<1>3. BootAlone'
  BY <1>1, <1>2 DEF BootAlone
<1> QED BY <1>1, <1>3 DEF PrintInv

\* Before a panic the records are contiguous, whichever part of the start runs.
LEMMA NoPanicYet ==
  ASSUME PrintInv, kpanic = 0
  PROVE  /\ Contiguous(Stream(out))
         /\ \A i \in 1 .. Len(Stream(out)) : Stream(out)[i].rec # <<"panic", 0>>
<1>1. <<"boot", 1>> # <<"panic", 0>> /\ <<"boot", 2>> # <<"panic", 0>>
  OBVIOUS
<1>2. CASE k_at # "threads"
  BY <1>1, <1>2 DEF PrintInv, BootAlone
<1>3. CASE k_at = "threads"
  <2>1. Written(out, line, granted) /\ granted \in BOOLEAN /\ Locks(owner, line, tty_scopes, granted)
    BY <1>3 DEF PrintInv, ThreadsPrint
  <2>2. Contiguous(Stream(out))
    BY <2>1 DEF Written
  <2>3. ASSUME NEW i \in 1 .. Len(Stream(out)), Stream(out)[i].rec = <<"panic", 0>> PROVE FALSE
    <3>1. Stream(out)[i].rec \notin {<<"boot", 1>>, <<"boot", 2>>}
      BY <1>1, <2>3
    <3>2. PICK t \in Printer : \E l \in 1 .. line[t] :
             IsPutc(t, l, granted) /\ GlyphOf(t, l, granted).rec = Stream(out)[i].rec
      BY <2>1, <3>1 DEF Written
    <3>3. PICK l \in 1 .. line[t] :
             IsPutc(t, l, granted) /\ GlyphOf(t, l, granted).rec = Stream(out)[i].rec
      BY <3>2
    <3>4. l \in 1 .. Len(ProgramOf(t, granted))
      <4>1. line[t] <= Len(ProgramOf(t, granted)) /\ line[t] \in Nat /\ Len(ProgramOf(t, granted)) \in Nat
        BY <2>1, Programs DEF Locks, Prints, Nested
      <4> QED BY <4>1
    <3>5. Tagged(ProgramOf(t, granted), t, 1, 5)
      BY <2>1, Programs DEF Prints
    <3>6. PICK a \in 1 .. 5 : GlyphOf(t, l, granted).rec = <<t, a>>
      BY <3>3, <3>4, <3>5 DEF Tagged, IsPutc, GlyphOf
    <3>7. <<t, a>> = <<"panic", 0>>
      BY <2>3, <3>3, <3>6
    <3>8. a = 0
      BY <3>7
    <3> QED BY <3>8
  <2> QED BY <2>2, <2>3
<1> QED BY <1>2, <1>3

\* A panic that begins.
LEMMA PrintPanic ==
  ASSUME PrintInv, kpanic = 0, kpanic' = 1, interrupts' = FALSE, out' = out, granted' = granted
  PROVE  PrintInv'
<1>1. OutInv(out) /\ granted \in BOOLEAN
  BY DEF PrintInv
<1>2. PanicShown(out, 1)
  BY <1>1, NoPanicYet, PanicBegins
<1>3. 1 \in 0 .. Len(PanicCode) + 1
  BY PanicCodeIs
<1> QED BY <1>1, <1>2, <1>3 DEF PrintInv

\* A step of a panic.
LEMMA PrintPanicStep == ASSUME PrintInv, PanicStep PROVE PrintInv'
<1>1. /\ OutInv(out) /\ granted \in BOOLEAN /\ kpanic \in 1 .. Len(PanicCode)
      /\ ~interrupts /\ PanicShown(out, kpanic) /\ (kpanic > 1 => out.g_panic)
  <2>1. Len(PanicCode) \in Nat /\ DOMAIN PanicCode = 1 .. Len(PanicCode)
    BY PanicCodeIs
  <2>2. kpanic \in 1 .. Len(PanicCode)
    BY <2>1 DEF PanicStep
  <2> QED BY <2>1, <2>2 DEF PrintInv
<1>2. /\ out' = IF PanicCode[kpanic].op = "panic" THEN [out EXCEPT !.g_panic = TRUE]
                ELSE gp_putc(out, NULL_TTY, PanicCode[kpanic].glyph)
      /\ kpanic' = kpanic + 1 /\ interrupts' = interrupts /\ granted' = granted
  BY DEF PanicStep, irqVars
<1>3. OutInv(out') /\ out'.g_panic /\ PanicShown(out', kpanic + 1)
  BY <1>1, <1>2, PanicGoesOn
<1>4. kpanic + 1 \in 0 .. Len(PanicCode) + 1 /\ kpanic + 1 > 0 /\ kpanic + 1 # 0
  BY <1>1, PanicCodeIs
<1> QED BY <1>1, <1>2, <1>3, <1>4 DEF PrintInv

\* The console is set up.
LEMMA PrintConsole == ASSUME PrintInv, BootConsole PROVE PrintInv'
<1> DEFINE o == logging_set_tty(tty_clear(initialize_console_manager(out)), "tty0")
           u == BootPrints(o, CON_COLOR_CYAN, <<"s", "newline">>, <<"boot", 1>>)
           text == <<"s", "newline">>
<1>1. /\ k_at = "console" /\ kpanic = 0 /\ out' = u /\ k_at' = "memory"
      /\ owner' = owner /\ line' = line /\ tty_scopes' = tty_scopes
      /\ kpanic' = kpanic /\ granted' = granted
  BY DEF BootConsole, BootRuns, BootGoes, printVars
<1>2. OutInv(out) /\ ~out.g_panic /\ BootAlone /\ granted \in BOOLEAN
  BY <1>1 DEF PrintInv
<1>3. OutInv(o) /\ ~o.g_panic /\ o.log = "tty0" /\ o.buffer = << >> /\ Stream(o) = << >>
  BY <1>2, ConsoleCleared DEF BootAlone
<1>4. /\ text \in Text /\ Len(text) > 0 /\ text[Len(text)] = "newline" /\ CON_COLOR_CYAN \in Colours
      /\ <<"boot", 1>> \in Writers \X Nat /\ <<"boot", 1>> # <<"junk", 0>> /\ "tty0" # NULL_TTY
  BY DEF Text, Chars, CON_COLOR_CYAN, Colours, Writers, NULL_TTY
<1>5. u = BootPrints(o, CON_COLOR_CYAN, text, <<"boot", 1>>)
  OBVIOUS
<1> HIDE DEF o, u, text
<1>6. OutInv(u) /\ ~u.g_panic /\ u.buffer = << >> /\ Follows(Stream(o), Stream(u), <<"boot", 1>>)
  BY <1>3, <1>4, <1>5, BootPrintsKeep
<1>7. Stream(o) \in Seq(Glyph) /\ Stream(u) \in Seq(Glyph) /\ Len(Stream(o)) = 0
  BY <1>3, <1>6, StreamIn
<1>8. \A i \in 1 .. Len(Stream(u)) : Stream(u)[i].rec = <<"boot", 1>>
  BY <1>6, <1>7 DEF Follows
<1>9. Contiguous(Stream(u))
  BY <1>7, <1>8 DEF Contiguous
<1>10. BootAlone'
  BY <1>1, <1>2, <1>6, <1>8, <1>9 DEF BootAlone
<1> QED BY <1>1, <1>2, <1>6, <1>10 DEF PrintInv

\* tty1 is set up and what the boot thread prints before the threads is printed.
LEMMA PrintTty1 == ASSUME PrintInv, BootTty1 PROVE PrintInv'
<1> DEFINE text == <<"m", "newline">>
<1>1. PICK position \in StalePositions :
        out' = BootPrints(logging_set_tty(construct_tty(out, position), "tty1"),
                          CON_COLOR_CYAN, <<"m", "newline">>, <<"boot", 2>>)
  BY DEF BootTty1
<1> DEFINE o == logging_set_tty(construct_tty(out, position), "tty1")
           u == out'
<1>2. /\ k_at = "tty1" /\ kpanic = 0 /\ k_at' = "handoff"
      /\ owner' = owner /\ line' = line /\ tty_scopes' = tty_scopes
      /\ kpanic' = kpanic /\ granted' = granted
  BY DEF BootTty1, BootRuns, BootGoes, printVars
<1>3. OutInv(out) /\ ~out.g_panic /\ BootAlone /\ granted \in BOOLEAN /\ position \in Nat
  BY <1>2, BufferAssumption DEF PrintInv
<1>4. OutInv(o) /\ ~o.g_panic /\ o.log = "tty1" /\ Stream(o) = Stream(out)
  BY <1>3, Tty1Made DEF BootAlone
<1>5. /\ text \in Text /\ Len(text) > 0 /\ text[Len(text)] = "newline" /\ CON_COLOR_CYAN \in Colours
      /\ <<"boot", 2>> \in Writers \X Nat /\ <<"boot", 2>> # <<"junk", 0>> /\ "tty1" # NULL_TTY
  BY DEF Text, Chars, CON_COLOR_CYAN, Colours, Writers, NULL_TTY
<1>6. u = BootPrints(o, CON_COLOR_CYAN, text, <<"boot", 2>>)
  BY <1>1
<1> HIDE DEF o, u, text
<1>7. OutInv(u) /\ ~u.g_panic /\ u.log = "tty1" /\ u.buffer = << >> /\ Follows(Stream(o), Stream(u), <<"boot", 2>>)
  BY <1>4, <1>5, <1>6, BootPrintsKeep
<1>8. Stream(o) \in Seq(Glyph) /\ Stream(u) \in Seq(Glyph)
  BY <1>4, <1>7, StreamIn
<1>9. /\ Contiguous(Stream(o))
      /\ \A i \in 1 .. Len(Stream(o)) : Stream(o)[i].rec = <<"boot", 1>> /\ Stream(o)[i].rec # <<"boot", 2>>
  BY <1>2, <1>3, <1>4 DEF BootAlone
<1>10. Contiguous(Stream(u))
  BY <1>7, <1>8, <1>9, ContiguousAfter
<1>11. ASSUME NEW i \in 1 .. Len(Stream(u)) PROVE Stream(u)[i].rec \in {<<"boot", 1>>, <<"boot", 2>>}
  <2>1. i \in 1 .. Len(Stream(o)) \/ i \in Len(Stream(o)) + 1 .. Len(Stream(u))
    BY <1>8
  <2> QED BY <1>7, <1>9, <2>1 DEF Follows
<1>12. BootAlone'
  BY <1>2, <1>3, <1>7, <1>10, <1>11 DEF BootAlone, u
<1> QED BY <1>2, <1>3, <1>7, <1>12 DEF PrintInv, u

\* The threads start.
LEMMA PrintHandoff == ASSUME PrintInv, BootHandoff PROVE PrintInv'
<1>1. /\ k_at = "handoff" /\ kpanic = 0 /\ k_at' = "threads" /\ out' = out
      /\ owner' = owner /\ line' = line /\ tty_scopes' = tty_scopes
      /\ kpanic' = kpanic /\ granted' \in BOOLEAN
  BY DEF BootHandoff, BootRuns, printVars
<1>2. OutInv(out) /\ ~out.g_panic /\ BootAlone
  BY <1>1 DEF PrintInv
<1>3. /\ owner = Nobody /\ line = [t \in Printer |-> 0] /\ tty_scopes = [t \in Printer |-> << >>]
      /\ out.buffer = << >> /\ Contiguous(Stream(out)) /\ out.log = "tty1"
      /\ \A i \in 1 .. Len(Stream(out)) : Stream(out)[i].rec \in {<<"boot", 1>>, <<"boot", 2>>}
  BY <1>1, <1>2 DEF BootAlone
<1>4. \A t \in Printer : /\ DepthOf(t, granted')[0] = 0 /\ Len(ProgramOf(t, granted')) \in Nat
                         /\ t # Nobody
  BY <1>1, Programs, PrinterAssumption DEF Prints, Nested, Nobody
<1>5. << >> \in Seq({"locked", "nested"}) /\ Len(<< >>) = 0
  OBVIOUS
<1>6. Locks(owner, line, tty_scopes, granted')
  BY <1>3, <1>4, <1>5 DEF Locks
<1>7. Coloured(out, line, granted')
  BY <1>3 DEF Coloured
<1>8. Written(out, line, granted')
  BY <1>3 DEF Written
<1>9. ThreadsPrint'
  BY <1>1, <1>3, <1>6, <1>7, <1>8 DEF ThreadsPrint
<1> QED BY <1>1, <1>2, <1>9 DEF PrintInv

\* A thread takes a step: it locks, unlocks or writes.
LEMMA PrintThread == ASSUME PrintInv, k_at = "threads", ThreadPrints PROVE PrintInv'
<1>1. PICK t \in Printer : ThreadRuns(t) /\ Execute(t, Instruction(t))
  BY DEF ThreadPrints
<1>2. t \in Printer
  OBVIOUS
<1> DEFINE c == ProgramOf(t, granted)
           l == line[t] + 1
           i == c[l]
<1>3. /\ k_at' = k_at /\ kpanic' = kpanic /\ granted' = granted
      /\ Program(t) = c /\ Instruction(t) = i
  BY DEF ThreadPrints, Program, ProgramOf, Instruction
<1>4. /\ kpanic = 0 /\ line[t] # Len(c)
  <2>1. kpanic = 0 \/ interrupts
    BY <1>1 DEF ThreadRuns
  <2>2. kpanic \in Nat
    BY PanicCodeIs DEF PrintInv
  <2>3. kpanic > 0 => ~interrupts
    BY DEF PrintInv
  <2> QED BY <1>1, <1>3, <2>1, <2>2, <2>3 DEF ThreadRuns, Ended
<1>5. /\ OutInv(out) /\ ~out.g_panic /\ granted \in BOOLEAN /\ ThreadsPrint
  BY <1>4 DEF PrintInv
<1>6. /\ out.log = "tty1" /\ Locks(owner, line, tty_scopes, granted)
      /\ Coloured(out, line, granted) /\ Written(out, line, granted)
  BY <1>5 DEF ThreadsPrint
<1>7. Nested(c, DepthOf(t, granted))
  BY <1>5, Programs DEF Prints
<1>8. /\ line \in [Printer -> Nat] /\ l \in 1 .. Len(c) /\ i \in Instr /\ (l - 1) = line[t]
      /\ \A q \in Printer : line[q] <= Len(ProgramOf(q, granted))
  <2>1. c \in Seq(Instr) /\ Len(c) \in Nat
    BY <1>7 DEF Nested
  <2>2. line \in [Printer -> Nat] /\ line[t] <= Len(c)
    BY <1>6 DEF Locks
  <2>3. l \in 1 .. Len(c)
    BY <1>4, <2>1, <2>2
  <2>4. \A q \in Printer : line[q] <= Len(ProgramOf(q, granted))
    BY <1>6 DEF Locks
  <2> QED BY <2>1, <2>2, <2>3, <2>4
<1> DEFINE m == [line EXCEPT ![t] = @ + 1]
<1>9. m[t] = l /\ \A q \in Printer : q # t => m[q] = line[q]
  BY <1>8
<1>10. IsPutc(t, line[t] + 1, granted) <=> i.op = "putc"
  BY DEF IsPutc
<1> HIDE DEF c, i, m
<1>11. Execute(t, i)
  BY <1>1, <1>3
\* A step that writes nothing.
<1>12. ASSUME NEW u, OutInv(u), ~u.g_panic, u.log = "tty1", ~Writes(i), u = out
       PROVE  Coloured(u, m, granted) /\ Written(u, m, granted)
  <2>1. Coloured(u, m, granted)
    <3> SUFFICES ASSUME NEW q \in Printer, m[q] >= 1, Writes(ProgramOf(q, granted)[m[q]])
                 PROVE  u.text_color = ColourOf(ProgramOf(q, granted)[m[q]])
      BY DEF Coloured
    <3>1. q # t
      BY <1>9, <1>12 DEF i, c
    <3> QED BY <1>6, <1>9, <1>12, <3>1 DEF Coloured
  <2>2. ~IsPutc(t, line[t] + 1, granted)
    BY <1>10, <1>12 DEF Writes
  <2>3. Written(u, m, granted)
    BY <1>6, <1>8, <1>12, <2>2, WrittenQuiet DEF m
  <2> QED BY <2>1, <2>3
\* A step that writes a character.
<1>13. ASSUME NEW w, Puts(out, w, line, m, t, granted) PROVE Written(w, m, granted)
  BY ONLY <1>2, <1>5, <1>6, <1>13, WrittenPutc
<1>14. CASE i.op = "lock"
  <2>1. LockTerminal(t, i.calm)
    BY <1>11, <1>14 DEF Execute
  <2>2. out' = out
    BY <1>5, <2>1 DEF LockTerminal, OutInv, Out
  <2>3. CASE owner \in {t, Nobody}
    <3>1. /\ owner' = t /\ line' = m
          /\ tty_scopes' = [tty_scopes EXCEPT ![t] = Append(@, IF owner = t THEN "nested" ELSE "locked")]
      BY <2>1, <2>3 DEF LockTerminal, m
    <3>2. Locks(owner', line', tty_scopes', granted)
      <4>1. /\ line[t] + 1 \in 1 .. Len(ProgramOf(t, granted))
            /\ ProgramOf(t, granted)[line[t] + 1].op = "lock"
        BY <1>8, <1>14 DEF i, c
      <4>2. Locks(t, [line EXCEPT ![t] = @ + 1],
                  [tty_scopes EXCEPT ![t] = Append(@, IF owner = t THEN "nested" ELSE "locked")], granted)
        BY ONLY <1>2, <1>5, <1>6, <2>3, <4>1, LocksEnter
      <4> QED BY <3>1, <4>2 DEF m
    <3>3. Coloured(out, m, granted) /\ Written(out, m, granted)
      BY <1>5, <1>6, <1>12, <1>14 DEF Writes
    <3>4. ThreadsPrint'
      BY <1>3, <1>6, <2>2, <3>1, <3>2, <3>3 DEF ThreadsPrint
    <3> QED BY <1>3, <1>4, <1>5, <2>2, <3>4 DEF PrintInv
  <2>4. CASE owner \notin {t, Nobody}
    <3>1. UNCHANGED <<owner, tty_scopes, line>>
      BY <2>1, <2>4 DEF LockTerminal
    <3>2. UNCHANGED printed
      BY <1>3, <2>2, <3>1 DEF printed
    <3> QED BY <1>4, <3>2, PrintUnchanged
  <2> QED BY <2>3, <2>4
<1>15. CASE i.op = "unlock"
  <2>1. UnlockTerminal(t)
    BY <1>11, <1>15 DEF Execute
  <2>2. /\ owner' = (IF Last(tty_scopes[t]) = "nested" THEN owner ELSE Nobody) /\ line' = m
        /\ tty_scopes' = [tty_scopes EXCEPT ![t] = Front(@)] /\ out' = out
    BY <2>1 DEF UnlockTerminal, m
  <2>3. Locks(owner', line', tty_scopes', granted)
    <3>1. /\ line[t] + 1 \in 1 .. Len(ProgramOf(t, granted))
          /\ ProgramOf(t, granted)[line[t] + 1].op = "unlock"
      BY <1>8, <1>15 DEF i, c
    <3>2. Locks(IF Last(tty_scopes[t]) = "nested" THEN owner ELSE Nobody, [line EXCEPT ![t] = @ + 1],
                [tty_scopes EXCEPT ![t] = Front(@)], granted)
      BY ONLY <1>2, <1>5, <1>6, <3>1, LocksLeave
    <3> QED BY <2>2, <3>2 DEF m
  <2>4. Coloured(out, m, granted) /\ Written(out, m, granted)
    BY <1>5, <1>6, <1>12, <1>15 DEF Writes
  <2>5. ThreadsPrint'
    BY <1>3, <1>6, <2>2, <2>3, <2>4 DEF ThreadsPrint
  <2> QED BY <1>3, <1>4, <1>5, <2>2, <2>5 DEF PrintInv
<1>16. CASE Writes(i)
  <2>1. Emit(t, BootPrint(out, i))
    <3>1. i.op = "color" \/ i.op = "putc"
      BY <1>16 DEF Writes
    <3> QED BY <1>6, <1>11, <3>1 DEF Execute, BootPrint
  <2>2. /\ out' = BootPrint(out, i) /\ line' = m /\ owner' = owner /\ tty_scopes' = tty_scopes
    BY <2>1 DEF Emit, m
  <2>3. /\ Locks(owner, m, tty_scopes, granted) /\ owner = t
        /\ \A q \in Printer : q # t => DepthOf(q, granted)[line[q]] = 0
    <3>1. /\ line[t] + 1 \in 1 .. Len(ProgramOf(t, granted))
          /\ Writes(ProgramOf(t, granted)[line[t] + 1])
      BY <1>8, <1>16 DEF i, c
    <3>2. /\ Locks(owner, [line EXCEPT ![t] = @ + 1], tty_scopes, granted) /\ owner = t
          /\ \A q \in Printer : q # t => DepthOf(q, granted)[line[q]] = 0
      BY ONLY <1>2, <1>5, <1>6, <3>1, LocksWrite
    <3> QED BY <3>2 DEF m
  <2>4. TakesColour(i, out)
    <3> SUFFICES ASSUME i.op = "putc" PROVE out.text_color = i.glyph.want
      BY DEF TakesColour
    <3>1. l > 1 /\ Writes(c[l - 1]) /\ ColourOf(c[l - 1]) = i.glyph.want
      BY <1>7, <1>8 DEF Nested, i
    <3>2. line[t] >= 1 /\ Writes(c[line[t]]) /\ ColourOf(c[line[t]]) = i.glyph.want
      BY <1>8, <3>1
    <3> QED BY <1>6, <3>2 DEF Coloured, c
  <2> DEFINE u == BootPrint(out, i)
  <2>5. out.log # NULL_TTY
    BY <1>6 DEF NULL_TTY
  <2>6. /\ OutInv(u) /\ ~u.g_panic /\ u.log = "tty1" /\ u.text_color = ColourOf(i)
        /\ i.op = "putc" => /\ Stream(u) = Append(Stream(out), i.glyph)
                            /\ i.glyph.ch = "newline" => u.buffer = << >>
        /\ i.op # "putc" => Stream(u) = Stream(out) /\ u.buffer \in {<< >>, out.buffer}
    BY <1>5, <1>6, <1>8, <1>16, <2>4, <2>5, BootPrintKeeps
  <2> HIDE DEF u
  <2>7. Coloured(u, m, granted)
    <3> SUFFICES ASSUME NEW q \in Printer, m[q] >= 1, Writes(ProgramOf(q, granted)[m[q]])
                 PROVE  u.text_color = ColourOf(ProgramOf(q, granted)[m[q]])
      BY DEF Coloured
    <3>1. CASE q = t
      BY <1>9, <2>6, <3>1 DEF i, c
    <3>2. CASE q # t
      <4>1. m[q] = line[q] /\ DepthOf(q, granted)[line[q]] = 0
        BY <1>9, <2>3, <3>2
      <4>2. Nested(ProgramOf(q, granted), DepthOf(q, granted))
        BY <1>5, Programs DEF Prints
      <4>3. line[q] \in 1 .. Len(ProgramOf(q, granted))
        BY <1>8, <4>1, <4>2 DEF Nested
      <4>4. DepthOf(q, granted)[line[q]] >= 1
        BY <4>1, <4>2, <4>3 DEF Nested
      <4> QED BY <4>1, <4>4
    <3> QED BY <3>1, <3>2
  <2>8. Written(u, m, granted)
    <3>1. CASE i.op = "putc"
      <4>1. GlyphOf(t, line[t] + 1, granted) = i.glyph /\ IsPutc(t, line[t] + 1, granted)
        BY <1>10, <3>1 DEF GlyphOf, i, c
      <4>2. /\ Stream(u) = Append(Stream(out), GlyphOf(t, line[t] + 1, granted))
            /\ GlyphOf(t, line[t] + 1, granted).ch = "newline" => u.buffer = << >>
        BY <2>6, <3>1, <4>1
      <4>3. line[t] + 1 \in 1 .. Len(ProgramOf(t, granted))
        BY <1>8 DEF c
      <4>4. line \in [Printer -> Nat] /\ m = [line EXCEPT ![t] = @ + 1]
        BY <1>8 DEF m
      <4>5. /\ \A q \in Printer : line[q] <= Len(ProgramOf(q, granted))
            /\ \A q \in Printer : q # t => DepthOf(q, granted)[line[q]] = 0
        BY <1>8, <2>3
      <4>6. Puts(out, u, line, m, t, granted)
        BY <4>1, <4>2, <4>3, <4>4, <4>5 DEF Puts
      <4> QED BY <1>13, <4>6
    <3>2. CASE i.op # "putc"
      <4>1. ~IsPutc(t, line[t] + 1, granted)
        BY <1>10, <3>2
      <4> QED BY <1>6, <1>8, <2>6, <3>2, <4>1, WrittenQuiet DEF m
    <3> QED BY <3>1, <3>2
  <2>9. ThreadsPrint'
    BY <1>3, <2>2, <2>3, <2>6, <2>7, <2>8 DEF ThreadsPrint, u
  <2> QED BY <1>3, <1>4, <1>5, <2>2, <2>6, <2>9 DEF PrintInv, u
<1>17. i.op = "lock" \/ i.op = "unlock" \/ Writes(i)
  BY <1>8 DEF Instr, Writes
<1> QED BY <1>14, <1>15, <1>16, <1>17

\* Every step of the start keeps the invariant.
LEMMA PrintNext == ASSUME PrintInv, StartNext PROVE PrintInv'
<1>1. ASSUME BootThread PROVE PrintInv'
  <2>1. CASE BootCpu
    BY <2>1, BootQuiet DEF BootCpu, BootRuns, BootGoes
  <2>2. CASE BootTss
    BY <2>2, BootQuiet DEF BootTss, BootRuns, BootGoes
  <2>3. CASE BootConsole
    BY <2>3, PrintConsole
  <2>4. CASE BootMemory
    <3>1. CASE BootRuns("memory") /\ BootGoes("timer") /\ UNCHANGED <<irqVars, out>>
      BY <3>1, BootQuiet DEF BootRuns, BootGoes
    <3>2. CASE BootRuns("memory") /\ KernelPanic /\ UNCHANGED <<out, printVars, k_at, granted>>
      BY <3>2, PrintPanic DEF BootRuns, KernelPanic
    <3> QED BY <2>4, <3>1, <3>2 DEF BootMemory
  <2>5. CASE BootTimer
    BY <2>5, BootQuiet DEF BootTimer, BootRuns, BootGoes
  <2>6. CASE BootMultitasking
    BY <2>6, BootQuiet DEF BootMultitasking, BootRuns, BootGoes
  <2>7. CASE BootTty1
    BY <2>7, PrintTty1
  <2>8. CASE BootHandoff
    BY <2>8, PrintHandoff
  <2> QED BY <1>1, <2>1, <2>2, <2>3, <2>4, <2>5, <2>6, <2>7, <2>8 DEF BootThread
<1>2. ASSUME TimerRequest PROVE PrintInv'
  <2>1. UNCHANGED printed /\ interrupts' = interrupts
    BY <1>2 DEF TimerRequest, Request, printed, printVars
  <2> QED BY <2>1, PrintUnchanged
<1>3. ASSUME TakeInterrupt PROVE PrintInv'
  <2>1. kpanic = 0 /\ UNCHANGED <<out, printVars, k_at, granted>>
    BY <1>3 DEF TakeInterrupt
  <2>2. CASE UNCHANGED kpanic
    <3>1. UNCHANGED printed
      BY <2>1, <2>2 DEF printed, printVars
    <3> QED BY <2>1, <3>1, PrintUnchanged
  <2>3. CASE KernelPanic
    BY <2>1, <2>3, PrintPanic DEF KernelPanic
  <2> QED BY <1>3, <2>2, <2>3 DEF TakeInterrupt
<1>4. ASSUME ThreadPrints PROVE PrintInv'
  <2>1. k_at = "threads"
    BY <1>4 DEF ThreadPrints, ThreadRuns
  <2> QED BY <1>4, <2>1, PrintThread
<1>5. ASSUME ThreadUnlockPanics PROVE PrintInv'
  BY <1>5, PrintPanic DEF ThreadUnlockPanics, KernelPanic
<1>6. ASSUME Exception PROVE PrintInv'
  BY <1>6, PrintPanic DEF Exception, KernelPanic
<1>7. ASSUME PanicStep PROVE PrintInv'
  BY <1>7, PrintPanicStep
<1> QED BY <1>1, <1>2, <1>3, <1>4, <1>5, <1>6, <1>7 DEF StartNext

\* And so does a step that leaves the start alone.
LEMMA PrintStep == PrintInv /\ (StartNext \/ UNCHANGED startVars) => PrintInv'
<1>1. ASSUME PrintInv, UNCHANGED startVars PROVE PrintInv'
  <2>1. UNCHANGED printed /\ interrupts' = interrupts
    BY <1>1 DEF startVars, printed, printVars, irqVars
  <2> QED BY <1>1, <2>1, PrintUnchanged
<1> QED BY <1>1, PrintNext

\* So the invariant holds of every state.
LEMMA PrintAlways == ChainSpec => []PrintInv
<1>1. ChainInit => PrintInv
  BY PrintInitially DEF ChainInit
<1>2. ChainNext \/ UNCHANGED chainVars => StartNext \/ UNCHANGED startVars
  BY DEF ChainNext, LoaderStep, KernelStep, Over, chainVars
<1>3. PrintInv /\ [ChainNext]_chainVars => PrintInv'
  BY <1>2, PrintStep
<1> QED BY <1>1, <1>3, PTL DEF ChainSpec

\* Every character on the screen is in the colour its printf asked for.
THEOREM TextIsColoured == ChainSpec => []TextInItsColour
<1>1. PrintInv => TextInItsColour
  BY DEF PrintInv, OutInv, ScreenInv, CellsColoured, TextInItsColour
<1> QED BY <1>1, PrintAlways, PTL

\* The screen is the tail of what was written, for every size of the screen.
THEOREM ScreenIsTail == ChainSpec => []ScreenShowsTail
<1>1. PrintInv => ScreenShowsTail
  <2> SUFFICES ASSUME PrintInv PROVE ShowsTail(out.vga)
    BY DEF ScreenShowsTail
  <2> DEFINE v == out.vga
             lines == Lines(v.shown)
  <2>1. ShowsLines(v, lines)
    BY DEF PrintInv, OutInv, ScreenInv
  <2> HIDE DEF v, lines
  <2>2. /\ v.screenY = Len(lines) - Above(lines) - 1 /\ v.screenX = Len(Last(lines))
        /\ \A y \in Rows, x \in Columns : v.screen[y][x].glyph = GlyphAt(lines, Above(lines) + y + 1, x + 1)
    BY <2>1 DEF ShowsLines, CellsShow
  <2>3. lines = Lines(v.shown)
    BY DEF lines
  <2>4. ShowsTail(v)
    BY <2>2, <2>3 DEF ShowsTail, GlyphAt, Above
  <2> QED BY <2>4 DEF v
<1> QED BY <1>1, PrintAlways, PTL

\* The message of a panic is the last on the screen, and whole so far.
THEOREM PanicMessageIsLast == ChainSpec => []PanicIsLast
<1>1. PrintInv => PanicIsLast
  <2> SUFFICES ASSUME PrintInv, kpanic > 0
               PROVE  LET shown == Records(out.vga.shown)
                          said == Said(kpanic - 1)
                          n == Len(shown) - Len(said)
                      IN  n >= 0 /\ \A i \in DOMAIN said : shown[n + i] = said[i]
    BY DEF PanicIsLast
  <2> DEFINE shown == Records(out.vga.shown)
             said == Said(kpanic - 1)
  <2>1. PICK q \in Seq(Glyph) : shown = q \o said
    BY DEF PrintInv, PanicShown
  <2>2. said \in Seq(Glyph)
    <3>1. Len(PanicCode) \in Nat /\ kpanic \in 1 .. Len(PanicCode) + 1
      BY PanicCodeIs DEF PrintInv
    <3>2. \A k \in 0 .. Len(PanicCode) : Said(k) \in Seq(Glyph)
      BY SaidAlways
    <3>3. kpanic - 1 \in 0 .. Len(PanicCode)
      BY <3>1
    <3> QED BY <3>2, <3>3
  <2> HIDE DEF shown, said
  <2>3. Len(shown) - Len(said) = Len(q) /\ Len(q) >= 0 /\ DOMAIN said = 1 .. Len(said)
        /\ \A i \in 1 .. Len(said) : shown[Len(q) + i] = said[i]
    BY <2>1, <2>2
  <2> QED BY <2>3 DEF shown, said
<1> QED BY <1>1, PrintAlways, PTL

\* A record of the log comes out whole, and in the end everything has come out.
THEOREM RecordsAreWhole == ChainSpec => []RecordsWhole
<1>1. PrintInv => RecordsWhole
  <2> SUFFICES ASSUME PrintInv PROVE RecordsWhole
    OBVIOUS
  <2> DEFINE shown == Records(out.vga.shown)
             b == Records(out.buffer)
  <2>1. OutInv(out) /\ granted \in BOOLEAN /\ kpanic \in Nat
    BY PanicCodeIs DEF PrintInv
  <2>2. shown \in Seq(Glyph) /\ b \in Seq(Glyph) /\ Stream(out) = shown \o b
    BY <2>1, StreamIn DEF Stream
  <2>3. Contiguous(shown)
    <3>1. CASE kpanic = 0
      <4>1. Contiguous(shown \o b)
        BY <2>2, <3>1, NoPanicYet
      <4> HIDE DEF shown, b
      <4> QED BY <2>2, <4>1, ContiguousPrefix
    <3>2. CASE kpanic > 0
      BY <3>2 DEF PrintInv, PanicShown
    <3> QED BY <2>1, <3>1, <3>2
  <2>4. ASSUME NEW i \in 1 .. Len(shown) - 1, shown[i].rec # shown[i + 1].rec,
               NEW j \in i + 2 .. Len(shown), shown[j].rec = shown[i].rec
        PROVE  FALSE
    <3> HIDE DEF shown
    <3>1. Len(shown) \in Nat
      BY <2>2
    <3>2. i \in 1 .. Len(shown) /\ i + 1 \in 1 .. Len(shown) /\ j \in 1 .. Len(shown) /\ i < i + 1 /\ i + 1 < j
      BY <3>1
    <3>3. shown[i + 1].rec = shown[i].rec
      BY <2>3, <2>4, <3>2 DEF Contiguous
    <3> QED BY <2>4, <3>3
  <2>5. ASSUME k_at = "threads", kpanic = 0, \A t \in Printer : Ended(t)
        PROVE  /\ out.buffer = << >>
               /\ \A t \in Printer : \A i \in DOMAIN Program(t) :
                    Program(t)[i].op = "putc" =>
                      \E j \in DOMAIN shown : shown[j] = Program(t)[i].glyph
    <3>1. Written(out, line, granted)
      BY <2>5 DEF PrintInv, ThreadsPrint
    <3>2. \A t \in Printer : /\ Program(t) = ProgramOf(t, granted) /\ line[t] = Len(ProgramOf(t, granted))
                             /\ Len(ProgramOf(t, granted)) \in Nat
                             /\ DOMAIN ProgramOf(t, granted) = 1 .. Len(ProgramOf(t, granted))
      <4> SUFFICES ASSUME NEW t \in Printer
                   PROVE  /\ Program(t) = ProgramOf(t, granted) /\ line[t] = Len(ProgramOf(t, granted))
                          /\ Len(ProgramOf(t, granted)) \in Nat
                          /\ DOMAIN ProgramOf(t, granted) = 1 .. Len(ProgramOf(t, granted))
        OBVIOUS
      <4>1. Program(t) = ProgramOf(t, granted)
        BY DEF Program, ProgramOf
      <4>2. ProgramOf(t, granted) \in Seq(Instr)
        BY <2>1, Programs DEF Prints, Nested
      <4> QED BY <2>5, <4>1, <4>2 DEF Ended
    <3>3. out.buffer = << >>
      BY <3>1, <3>2 DEF Written
    <3>4. Stream(out) = shown
      <4>1. b = << >>
        BY <3>3, RecordsAre
      <4> HIDE DEF shown, b
      <4> QED BY <2>2, <4>1
    <3>5. ASSUME NEW t \in Printer, NEW i \in DOMAIN Program(t), Program(t)[i].op = "putc"
          PROVE  \E j \in DOMAIN shown : shown[j] = Program(t)[i].glyph
      <4>1. i \in 1 .. line[t] /\ IsPutc(t, i, granted) /\ GlyphOf(t, i, granted) = Program(t)[i].glyph
        BY <3>2, <3>5 DEF IsPutc, GlyphOf
      <4>2. PICK j \in 1 .. Len(Stream(out)) : Stream(out)[j] = GlyphOf(t, i, granted)
        BY <3>1, <4>1 DEF Written
      <4>3. j \in DOMAIN shown
        BY <2>2, <3>4
      <4> QED BY <3>4, <4>1, <4>2, <4>3
    <3> QED BY <3>3, <3>5
  <2> QED BY <2>4, <2>5 DEF RecordsWhole
<1> QED BY <1>1, PrintAlways, PTL
=============================================================================
