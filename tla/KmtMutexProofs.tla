--------------------------- MODULE KmtMutexProofs ---------------------------
(***************************************************************************)
(* The invariants of the mutexes and of the terminal scopes, for any       *)
(* number of threads, mutexes and nested scopes.  The steps they share     *)
(* with the scheduler are covered by StepDoes of module KmtSchedProofs:    *)
(* those keep IInv and move no thread into or out of IDLE_MUTEX.           *)
(***************************************************************************)
EXTENDS KmtMutex, KmtSchedProofs

MutexTypeOK ==
  /\ mutex \in [Mutex -> [used : BOOLEAN, owner : Thread \cup {Nobody},
                          waiting : Seq(Thread)]]
  /\ allocCount \in 0 .. MaxMutexes
  /\ scopes \in [Thread -> Seq(Scope)]

\* Only a mutex in use has an owner, and those not handed out yet are free:
\* what kmt_create_mutex resets is nobody's.
OwnedIsUsed ==
  /\ \A m \in Mutex : mutex[m].owner # Nobody => mutex[m].used
  /\ \A m \in Mutex : m >= allocCount => ~mutex[m].used

\* Inside the scope in which it locked a mutex, a thread opens only nested
\* scopes of it: the scope that releases the mutex is the one that locked it.
NestedInside ==
  \A t \in Thread : \A i, j \in DOMAIN scopes[t] :
    /\ i < j /\ scopes[t][i].how = "locked"
    /\ scopes[t][j].mutex = scopes[t][i].mutex
    => scopes[t][j].how = "nested"

\* Until it hands over, only the boot thread writes to a terminal.
BootWritesFirst == boot = "early" => \A t \in Thread : t # Boot => scopes[t] = << >>

LockInv == OwnedIsUsed /\ NestedInside /\ BootWritesFirst

\* The inductive invariant.
MutexInv ==
  /\ IInv /\ MutexTypeOK
  /\ Alive => LockInv
  /\ ScopesExclusive /\ WaitersBlocked

-----------------------------------------------------------------------------
(* Sequences and minima.                                                   *)

\* The smallest of a set of mutexes is one of them.
LEMMA LowestMutex ==
  ASSUME NEW S \in SUBSET Mutex, S # {}
  PROVE  Min(S) \in S
<1>1. S \subseteq Nat
  BY MutexAssumption DEF Mutex
<1>2. PICK m \in S : \A y \in S : ~ (<<y, m>> \in OpToRel(<, Nat))
  BY <1>1, NatLessThanWellFounded, WFMin
<1>3. \A y \in S : m <= y
  <2> SUFFICES ASSUME NEW y \in S, ~(m <= y) PROVE FALSE
    OBVIOUS
  <2>1. y < m /\ y \in Nat /\ m \in Nat
    BY <1>1
  <2>2. <<y, m>> \in OpToRel(<, Nat)
    BY <2>1 DEF OpToRel
  <2> QED BY <2>2, <1>2
<1> QED BY <1>3 DEF Min

\* Leaving the innermost scope.
LEMMA FrontOf ==
  ASSUME NEW S, NEW s \in Seq(S), s # << >>
  PROVE  /\ Front(s) \in Seq(S)
         /\ Len(s) \in Nat /\ DOMAIN s = 1 .. Len(s) /\ Len(s) \in DOMAIN s
         /\ Last(s) = s[Len(s)] /\ Last(s) \in S
         /\ DOMAIN Front(s) = 1 .. Len(s) - 1
         /\ \A i \in DOMAIN Front(s) : i \in DOMAIN s /\ Front(s)[i] = s[i]
<1>1. Len(s) \in Nat /\ DOMAIN s = 1 .. Len(s) /\ Len(s) > 0
  OBVIOUS
<1> DEFINE f == SubSeq(s, 1, Len(s) - 1)
<1>2. f \in Seq(S) /\ Len(f) = Len(s) - 1 /\ \A i \in 1 .. Len(s) - 1 : f[i] = s[i]
  BY <1>1
<1>3. Front(s) = f
  BY DEF Front
<1> HIDE DEF f
<1>4. DOMAIN f = 1 .. Len(s) - 1
  BY <1>2
<1>5. Last(s) = s[Len(s)] /\ s[Len(s)] \in S
  BY <1>1 DEF Last
<1> QED BY <1>1, <1>2, <1>3, <1>4, <1>5

-----------------------------------------------------------------------------
(* Opening and leaving a scope.                                            *)

LEMMA Enters ==
  ASSUME MutexTypeOK, NestedInside, Me \in Thread, NEW m \in Mutex,
         NEW how \in {"locked", "nested", "bypassed"}, EnterTty(m, how),
         how # "nested" => ~HasLocked(Me, m)
  PROVE  /\ scopes' \in [Thread -> Seq(Scope)] /\ NestedInside'
         /\ \A t \in Thread : t # Me => scopes'[t] = scopes[t]
         /\ \A t \in Thread, n \in Mutex :
              HasLocked(t, n)' <=> HasLocked(t, n) \/ (t = Me /\ n = m /\ how = "locked")
<1> DEFINE new == [mutex |-> m, how |-> how]
           s == scopes[Me]
           a == Append(s, new)
<1>1. new \in Scope /\ new.mutex = m /\ new.how = how
  BY DEF Scope
<1>2. scopes \in [Thread -> Seq(Scope)] /\ s \in Seq(Scope)
  BY DEF MutexTypeOK
<1>3. scopes' = [scopes EXCEPT ![Me] = a]
  BY <1>2 DEF EnterTty
<1>e. \A n \in Mutex, h \in {"locked", "nested", "bypassed"} :
        new = [mutex |-> n, how |-> h] <=> n = m /\ h = how
  OBVIOUS
<1> HIDE DEF new, s
<1>4. /\ a \in Seq(Scope) /\ Len(s) \in Nat /\ DOMAIN s = 1 .. Len(s)
      /\ DOMAIN a = 1 .. Len(s) + 1
      /\ \A i \in DOMAIN s : a[i] = s[i]
      /\ a[Len(s) + 1] = new
  BY <1>1, <1>2, AppendOf
<1> HIDE DEF a
<1>5. \A t \in Thread : scopes'[t] = IF t = Me THEN a ELSE scopes[t]
  BY <1>2, <1>3
<1>6. scopes' \in [Thread -> Seq(Scope)]
  BY <1>2, <1>3, <1>4
<1>7. NestedInside'
  <2> SUFFICES ASSUME NEW t \in Thread, NEW i \in DOMAIN scopes'[t], NEW j \in DOMAIN scopes'[t],
                      i < j, scopes'[t][i].how = "locked",
                      scopes'[t][j].mutex = scopes'[t][i].mutex
               PROVE  scopes'[t][j].how = "nested"
    BY DEF NestedInside
  <2>1. CASE t # Me
    BY <2>1, <1>5 DEF NestedInside
  <2>2. CASE t = Me /\ j # Len(s) + 1
    <3>1. i \in DOMAIN s /\ j \in DOMAIN s
      BY <2>2, <1>4, <1>5
    <3>2. scopes'[t][i] = scopes[t][i] /\ scopes'[t][j] = scopes[t][j]
      BY <2>2, <3>1, <1>4, <1>5 DEF s
    <3> QED BY <2>2, <3>1, <3>2 DEF NestedInside, s
  <2>3. CASE t = Me /\ j = Len(s) + 1
    <3>1. i \in DOMAIN s /\ scopes'[t][i] = s[i] /\ scopes'[t][j] = new
      BY <2>3, <1>4, <1>5
    <3>2. s[i] \in Scope
      BY <3>1, <1>2, <1>4
    <3>3. s[i] = [mutex |-> m, how |-> "locked"]
      BY <3>1, <3>2, <1>1 DEF Scope
    <3>4. HasLocked(Me, m)
      BY <3>1, <3>3 DEF HasLocked, s
    <3> QED BY <3>1, <3>4, <1>1
  <2> QED BY <2>1, <2>2, <2>3
<1>8. ASSUME NEW t \in Thread, NEW n \in Mutex
      PROVE  HasLocked(t, n)' <=> HasLocked(t, n) \/ (t = Me /\ n = m /\ how = "locked")
  <2> DEFINE L == [mutex |-> n, how |-> "locked"]
  <2>1. HasLocked(t, n)' <=> \E i \in DOMAIN scopes'[t] : scopes'[t][i] = L
    BY DEF HasLocked
  <2>2. HasLocked(t, n) <=> \E i \in DOMAIN scopes[t] : scopes[t][i] = L
    BY DEF HasLocked
  <2>3. new = L <=> n = m /\ how = "locked"
    BY <1>e
  <2> HIDE DEF L
  <2>4. CASE t # Me
    BY <2>1, <2>2, <2>4, <1>5
  <2>5. CASE t = Me
    <3>1. scopes'[t] = a /\ scopes[t] = s
      BY <2>5, <1>5 DEF s
    <3>2. (\E i \in DOMAIN a : a[i] = L) <=> (\E i \in DOMAIN s : s[i] = L) \/ new = L
      BY <1>4
    <3> QED BY <2>1, <2>2, <2>3, <2>5, <3>1, <3>2
  <2> QED BY <2>4, <2>5
<1> QED BY <1>5, <1>6, <1>7, <1>8

LEMMA Leaves ==
  ASSUME MutexTypeOK, NestedInside, Me \in Thread, scopes[Me] # << >>,
         scopes' = [scopes EXCEPT ![Me] = Front(@)]
  PROVE  LET s == Last(scopes[Me])
         IN  /\ s \in Scope
             /\ scopes' \in [Thread -> Seq(Scope)] /\ NestedInside'
             /\ \A t \in Thread : t # Me => scopes'[t] = scopes[t]
             /\ \A t \in Thread, n \in Mutex :
                  HasLocked(t, n)' <=>
                    HasLocked(t, n) /\ ~(t = Me /\ n = s.mutex /\ s.how = "locked")
             /\ s.how = "locked" => HasLocked(Me, s.mutex)
             /\ s.how = "bypassed" => ~HasLocked(Me, s.mutex)
<1> DEFINE q == scopes[Me]
           f == Front(q)
           s == Last(q)
           last == Len(q)
<1>1. scopes \in [Thread -> Seq(Scope)] /\ q \in Seq(Scope) /\ q # << >>
  BY DEF MutexTypeOK
<1>2. scopes' = [scopes EXCEPT ![Me] = f]
  OBVIOUS
<1> HIDE DEF q
<1>3. /\ f \in Seq(Scope)
      /\ last \in Nat /\ DOMAIN q = 1 .. last /\ last \in DOMAIN q
      /\ s = q[last] /\ s \in Scope
      /\ DOMAIN f = 1 .. last - 1
      /\ \A i \in DOMAIN f : i \in DOMAIN q /\ f[i] = q[i]
  BY <1>1, FrontOf
<1> HIDE DEF f, s, last
<1>4. \A t \in Thread : scopes'[t] = IF t = Me THEN f ELSE scopes[t]
  BY <1>1, <1>2
<1>5. scopes' \in [Thread -> Seq(Scope)]
  BY <1>1, <1>2, <1>3
<1>6. NestedInside'
  <2> SUFFICES ASSUME NEW t \in Thread, NEW i \in DOMAIN scopes'[t], NEW j \in DOMAIN scopes'[t],
                      i < j, scopes'[t][i].how = "locked",
                      scopes'[t][j].mutex = scopes'[t][i].mutex
               PROVE  scopes'[t][j].how = "nested"
    BY DEF NestedInside
  <2>1. CASE t # Me
    BY <2>1, <1>4 DEF NestedInside
  <2>2. CASE t = Me
    <3>1. i \in DOMAIN q /\ j \in DOMAIN q /\ scopes'[t][i] = q[i] /\ scopes'[t][j] = q[j]
      BY <2>2, <1>3, <1>4
    <3> QED BY <2>2, <3>1 DEF NestedInside, q
  <2> QED BY <2>1, <2>2
<1>7. \A i \in DOMAIN q : q[i] \in Scope
  BY <1>1
<1>8. s.how = "locked" => HasLocked(Me, s.mutex)
  <2>1. s.how = "locked" => s = [mutex |-> s.mutex, how |-> "locked"]
    BY <1>3 DEF Scope
  <2> QED BY <2>1, <1>3 DEF HasLocked, q
\* Below the innermost scope, none locked a mutex that it does not nest in.
<1>9. ASSUME NEW i \in DOMAIN f, f[i].how = "locked", f[i].mutex = s.mutex
      PROVE  s.how = "nested"
  <2>1. i \in DOMAIN q /\ last \in DOMAIN q /\ i < last /\ q[i] = f[i] /\ q[last] = s
    BY <1>3
  <2> QED BY <1>9, <2>1 DEF NestedInside, q
<1>10. s.how = "bypassed" => ~HasLocked(Me, s.mutex)
  <2> SUFFICES ASSUME s.how = "bypassed", HasLocked(Me, s.mutex) PROVE FALSE
    OBVIOUS
  <2>1. PICK i \in DOMAIN q : q[i] = [mutex |-> s.mutex, how |-> "locked"]
    BY DEF HasLocked, q
  <2>2. q[i].how = "locked" /\ q[i].mutex = s.mutex
    BY <2>1
  <2>3. i # last
    BY <2>2, <1>3
  <2>4. i \in DOMAIN f /\ f[i] = q[i]
    BY <2>3, <1>3
  <2> QED BY <2>2, <2>4, <1>9
<1>11. ASSUME NEW t \in Thread, NEW n \in Mutex
       PROVE  HasLocked(t, n)' <=>
                HasLocked(t, n) /\ ~(t = Me /\ n = s.mutex /\ s.how = "locked")
  <2> DEFINE L == [mutex |-> n, how |-> "locked"]
  <2>1. HasLocked(t, n)' <=> \E i \in DOMAIN scopes'[t] : scopes'[t][i] = L
    BY DEF HasLocked
  <2>2. HasLocked(t, n) <=> \E i \in DOMAIN scopes[t] : scopes[t][i] = L
    BY DEF HasLocked
  <2>3. s = L <=> n = s.mutex /\ s.how = "locked"
    BY <1>3 DEF Scope
  <2>4. L.how = "locked" /\ L.mutex = n
    OBVIOUS
  <2> HIDE DEF L
  <2>5. CASE t # Me
    BY <2>1, <2>2, <2>5, <1>4
  <2>6. CASE t = Me
    <3>1. scopes'[t] = f /\ scopes[t] = q
      BY <2>6, <1>4 DEF q
    <3>2. (\E i \in DOMAIN f : f[i] = L) => s # L
      BY <1>9, <2>3, <2>4
    <3>3. (\E i \in DOMAIN f : f[i] = L) => (\E i \in DOMAIN q : q[i] = L)
      BY <1>3
    <3>4. (\E i \in DOMAIN q : q[i] = L) /\ s # L => \E i \in DOMAIN f : f[i] = L
      <4> SUFFICES ASSUME NEW i \in DOMAIN q, q[i] = L, s # L PROVE i \in DOMAIN f /\ f[i] = L
        OBVIOUS
      <4>1. i # last
        BY <1>3
      <4>2. i \in DOMAIN f
        BY <4>1, <1>3
      <4> QED BY <4>2, <1>3
    <3> QED BY <2>1, <2>2, <2>3, <2>6, <3>1, <3>2, <3>3, <3>4
  <2> QED BY <2>5, <2>6
<1> QED BY <1>3, <1>4, <1>5, <1>6, <1>8, <1>10, <1>11 DEF s, q

-----------------------------------------------------------------------------
(* Every step keeps the invariant.                                         *)

MutexRecord == [used : BOOLEAN, owner : Thread \cup {Nobody}, waiting : Seq(Thread)]

\* The scheduler has stopped for good when it is not alive, and the boot
\* thread does not go back.
LEMMA NextAlive == Next => Alive /\ (boot' = "early" => boot = "early")
<1> SUFFICES ASSUME Next PROVE Alive /\ (boot' = "early" => boot = "early")
  OBVIOUS
<1>1. CASE BootStep
  BY <1>1 DEF BootStep, SpawnIdle, BootDies, ThreadRuns, Alive
<1>2. CASE ThreadStep
  BY <1>2 DEF ThreadStep, CreateThread, WakeupThread, Sleep, SleepUntil, Kill,
              OverridePriority, EnterScope, EndScope, IsWorker, IsThread, ThreadRuns, Alive
<1>3. CASE TickOnly \/ TimerInterrupt
  BY <1>3 DEF TickOnly, TimerInterrupt, ThreadRuns, Alive
<1>4. CASE HandlerStep
  BY <1>4 DEF HandlerStep, WakeSleeper, StartAging, AgeNode, PromoteInner, PromoteHead,
              NextQueue, Preempt, AtNode, Aging, In, Alive
<1> QED BY <1>1, <1>2, <1>3, <1>4 DEF Next, TimerStep

\* What the handlers of the mutexes start from.
LEMMA InTty ==
  ASSUME MutexInv, UsesTty
  PROVE  /\ Alive /\ Me \in Thread /\ kmt.status[Me] = "RUNNING" /\ kmt \in KmtState
         /\ IInv /\ MutexTypeOK /\ LockInv /\ ScopesExclusive /\ WaitersBlocked
         /\ Me # Nobody /\ \A m \in Mutex : ~Waits(Me, m)
         /\ \A m \in Mutex : mutex[m] \in MutexRecord
         /\ boot = "early" => Me = Boot
<1>1. Alive /\ MutexInv /\ IInv /\ AliveInv /\ kmt \in KmtState
  BY DEF UsesTty, ThreadRuns, Alive, MutexInv, IInv, Typed
<1>2. Me \in Thread /\ kmt.status[Me] = "RUNNING"
  BY <1>1, FieldTypes DEF AliveInv, OnlyCurrentRuns, Me
<1>3. Me # Nobody
  <2>1. MaxThreads \in Nat
    BY KmtAssumption
  <2> QED BY <1>2, <2>1 DEF Thread, Nobody
<1>4. \A m \in Mutex : ~Waits(Me, m)
  BY <1>1, <1>2 DEF MutexInv, WaitersBlocked
<1>5. \A m \in Mutex : mutex[m] \in MutexRecord
  BY <1>1 DEF MutexInv, MutexTypeOK, MutexRecord
<1>6. boot = "early" => Me = Boot
  BY <1>1 DEF AliveInv, BootInv, KmtInit, Me
<1> QED BY <1>1, <1>2, <1>3, <1>4, <1>5, <1>6 DEF MutexInv

LEMMA EmptyQueue == << >> \in Seq(Thread) /\ Nobody \in Thread \cup {Nobody}
OBVIOUS

LEMMA SetMutex ==
  ASSUME MutexTypeOK, NEW m \in Mutex, NEW r \in MutexRecord,
         mutex' = [mutex EXCEPT ![m] = r]
  PROVE  /\ mutex' \in [Mutex -> MutexRecord]
         /\ \A n \in Mutex : mutex'[n] = IF n = m THEN r ELSE mutex[n]
BY DEF MutexTypeOK, MutexRecord

\* Handing out or freeing a mutex that nobody owns.
LEMMA ResetKeeps ==
  ASSUME MutexInv, UsesTty, NEW m \in Mutex, NEW r \in MutexRecord,
         mutex[m].owner = Nobody, r.owner = Nobody, r.waiting = << >>,
         mutex' = [mutex EXCEPT ![m] = r],
         allocCount' \in 0 .. MaxMutexes,
         \A n \in Mutex : n >= allocCount' => n >= allocCount /\ (n = m => ~r.used),
         UNCHANGED <<vars, scopes>>
  PROVE  MutexInv'
<1>1. /\ Alive /\ IInv /\ MutexTypeOK /\ LockInv /\ ScopesExclusive /\ WaitersBlocked
      /\ \A n \in Mutex : mutex[n] \in MutexRecord
  BY InTty
<1>2. IInv'
  BY <1>1, StutterKeeps
<1>3. /\ kmt' = kmt /\ boot' = boot /\ scopes' = scopes
  BY DEF vars
<1>5. /\ mutex' \in [Mutex -> MutexRecord]
      /\ \A n \in Mutex : mutex'[n] = IF n = m THEN r ELSE mutex[n]
  BY <1>1, SetMutex
<1>6. mutex[m].waiting = << >>
  BY <1>1 DEF WaitersBlocked
<1>7. /\ \A n \in Mutex : mutex'[n].owner = mutex[n].owner
      /\ \A n \in Mutex : mutex'[n].waiting = mutex[n].waiting
      /\ \A n \in Mutex : n # m => mutex'[n].used = mutex[n].used
      /\ mutex'[m].used = r.used
  BY <1>5, <1>6
<1>8. MutexTypeOK'
  BY <1>1, <1>3, <1>5 DEF MutexTypeOK, MutexRecord
<1>9. LockInv'
  <2>1. OwnedIsUsed'
    BY <1>1, <1>7 DEF OwnedIsUsed, LockInv
  <2>2. NestedInside' /\ BootWritesFirst'
    BY <1>1, <1>3 DEF NestedInside, BootWritesFirst, LockInv
  <2> QED BY <2>1, <2>2 DEF LockInv
<1>10. ScopesExclusive'
  BY <1>1, <1>3, <1>7 DEF ScopesExclusive, HasLocked, Alive
<1>11. WaitersBlocked'
  <2>1. \A t \in Thread, n \in Mutex : Waits(t, n)' <=> Waits(t, n)
    BY <1>7 DEF Waits
  <2>2. \A n \in Mutex : mutex[n].waiting # << >> =>
          mutex[n].used /\ mutex[n].owner # Nobody /\ ~Waits(mutex[n].owner, n)
    BY <1>1 DEF WaitersBlocked
  <2>3. \A n \in Mutex : (mutex[n].waiting # << >> =>
          mutex[n].used /\ mutex[n].owner # Nobody /\ ~Waits(mutex[n].owner, n))'
    BY <1>6, <1>7, <2>2 DEF Waits
  <2> QED BY <1>1, <1>3, <1>7, <2>1, <2>3 DEF WaitersBlocked, Alive, Waits
<1> QED BY <1>2, <1>8, <1>9, <1>10, <1>11 DEF MutexInv

LEMMA CreateMutexKeeps == MutexInv /\ CreateMutex => MutexInv'
<1> SUFFICES ASSUME MutexInv, CreateMutex PROVE MutexInv'
  OBVIOUS
<1> DEFINE m == IF allocCount < MaxMutexes THEN allocCount ELSE Min(Free)
<1>1. /\ UsesTty /\ Free # {} /\ UNCHANGED <<vars, scopes>>
      /\ mutex' = [mutex EXCEPT ![m] = [Unused EXCEPT !.used = TRUE]]
      /\ allocCount' = IF allocCount < MaxMutexes THEN allocCount + 1 ELSE allocCount
  BY DEF CreateMutex
<1>2. allocCount \in Nat /\ allocCount <= MaxMutexes /\ MaxMutexes \in Nat
  BY MutexAssumption DEF MutexInv, MutexTypeOK
<1>3. m \in Mutex /\ ~mutex[m].used
  <2>1. CASE allocCount < MaxMutexes
    <3>1. m = allocCount /\ m \in Mutex /\ m >= allocCount
      BY <2>1, <1>2 DEF Mutex
    <3> QED BY <3>1, <1>1, InTty DEF LockInv, OwnedIsUsed
  <2>2. CASE ~(allocCount < MaxMutexes)
    <3>1. Free \in SUBSET Mutex
      BY DEF Free
    <3>2. Min(Free) \in Free
      BY <3>1, <1>1, LowestMutex
    <3> QED BY <2>2, <3>2 DEF Free
  <2> QED BY <2>1, <2>2
<1>m. \A n \in Mutex : n \in Nat
  BY <1>2 DEF Mutex
<1>4. \A n \in Mutex : n >= allocCount' => n >= allocCount /\ n # m
  BY <1>1, <1>2, <1>m DEF Mutex
<1>5. allocCount' \in 0 .. MaxMutexes
  BY <1>1, <1>2
<1> HIDE DEF m
<1>6. mutex[m].owner = Nobody
  BY <1>1, <1>3, InTty DEF LockInv, OwnedIsUsed
<1> DEFINE r == [Unused EXCEPT !.used = TRUE]
<1>7. r.owner = Nobody /\ r.waiting = << >> /\ r \in MutexRecord
  BY EmptyQueue DEF Unused, MutexRecord
<1> HIDE DEF r
<1>8. mutex' = [mutex EXCEPT ![m] = r]
  BY <1>1 DEF r, m
<1>9. \A n \in Mutex : n >= allocCount' => n >= allocCount /\ (n = m => ~r.used)
  BY <1>4
<1> QED BY <1>1, <1>3, <1>5, <1>6, <1>7, <1>8, <1>9, ResetKeeps

LEMMA FreeMutexKeeps == MutexInv /\ FreeMutex => MutexInv'
<1> SUFFICES ASSUME MutexInv, FreeMutex PROVE MutexInv'
  OBVIOUS
<1>1. UsesTty /\ UNCHANGED <<vars, allocCount, scopes>>
  BY DEF FreeMutex
<1>2. PICK m \in Mutex : /\ mutex[m].used /\ mutex[m].owner = Nobody
                         /\ mutex' = [mutex EXCEPT ![m].used = FALSE]
  BY DEF FreeMutex
<1>3. mutex[m] \in MutexRecord /\ WaitersBlocked /\ Alive /\ MutexTypeOK
  BY <1>1, InTty
<1>4. mutex[m].waiting = << >>
  BY <1>2, <1>3 DEF WaitersBlocked
<1> DEFINE r == [mutex[m] EXCEPT !.used = FALSE]
<1>5. r \in MutexRecord /\ ~r.used /\ r.owner = Nobody /\ r.waiting = << >>
  BY <1>2, <1>3, <1>4 DEF MutexRecord
<1>6. mutex' = [mutex EXCEPT ![m] = r]
  BY <1>2
<1> HIDE DEF r
<1>7. allocCount' \in 0 .. MaxMutexes /\ allocCount' = allocCount
  BY <1>1, <1>3 DEF MutexTypeOK
<1> QED BY <1>1, <1>2, <1>5, <1>6, <1>7, ResetKeeps

\* Only the boot thread is in the early phase, so a scope it opens is its own.
LEMMA EarlyScopes ==
  ASSUME MutexInv, UsesTty, boot' = boot,
         \A t \in Thread : t # Me => scopes'[t] = scopes[t]
  PROVE  BootWritesFirst'
BY InTty DEF LockInv, BootWritesFirst

\* tty_lock, when it does not have to wait.
LEMMA EnterKeeps ==
  ASSUME MutexInv, UsesTty, NEW m \in Mutex, m < allocCount,
         \/ IsOwned(m) /\ EnterTty(m, "nested") /\ UNCHANGED mutex
         \/ ~mutex[m].used /\ EnterTty(m, "bypassed") /\ UNCHANGED mutex
         \/ /\ mutex[m].used /\ mutex[m].owner = Nobody
            /\ mutex' = [mutex EXCEPT ![m].owner = Me]
            /\ EnterTty(m, "locked"),
         UNCHANGED <<vars, allocCount>>
  PROVE  MutexInv'
<1>1. /\ Alive /\ IInv /\ MutexTypeOK /\ LockInv /\ ScopesExclusive /\ WaitersBlocked
      /\ Me \in Thread /\ Me # Nobody /\ \A n \in Mutex : ~Waits(Me, n)
      /\ \A n \in Mutex : mutex[n] \in MutexRecord
  BY InTty
<1>2. IInv'
  BY <1>1, StutterKeeps
<1>3. /\ kmt' = kmt /\ boot' = boot
  BY DEF vars
<1>4. PICK how \in {"locked", "nested", "bypassed"} :
        /\ EnterTty(m, how)
        /\ how = "nested" => UNCHANGED mutex /\ IsOwned(m)
        /\ how = "bypassed" => UNCHANGED mutex /\ ~mutex[m].used
        /\ how = "locked" => /\ mutex[m].used /\ mutex[m].owner = Nobody
                             /\ mutex' = [mutex EXCEPT ![m].owner = Me]
  OBVIOUS
<1>5. how # "nested" => mutex[m].owner = Nobody
  BY <1>1, <1>4 DEF LockInv, OwnedIsUsed
<1>6. how # "nested" => ~HasLocked(Me, m)
  BY <1>1, <1>5 DEF ScopesExclusive
<1>7. /\ scopes' \in [Thread -> Seq(Scope)] /\ NestedInside'
      /\ \A t \in Thread : t # Me => scopes'[t] = scopes[t]
      /\ \A t \in Thread, n \in Mutex :
           HasLocked(t, n)' <=> HasLocked(t, n) \/ (t = Me /\ n = m /\ how = "locked")
  BY <1>1, <1>4, <1>6, Enters DEF LockInv
<1>8. /\ mutex' \in [Mutex -> MutexRecord]
      /\ \A n \in Mutex : mutex'[n].used = mutex[n].used /\ mutex'[n].waiting = mutex[n].waiting
      /\ \A n \in Mutex : mutex'[n].owner = IF n = m /\ how = "locked" THEN Me ELSE mutex[n].owner
  <2>1. CASE how # "locked"
    BY <2>1, <1>1, <1>4 DEF MutexTypeOK, MutexRecord
  <2>2. CASE how = "locked"
    <3> DEFINE r == [mutex[m] EXCEPT !.owner = Me]
    <3>1. /\ r \in MutexRecord /\ r.owner = Me
          /\ r.used = mutex[m].used /\ r.waiting = mutex[m].waiting
      BY <1>1 DEF MutexRecord
    <3>2. mutex' = [mutex EXCEPT ![m] = r]
      BY <2>2, <1>4
    <3> HIDE DEF r
    <3>3. /\ mutex' \in [Mutex -> MutexRecord]
          /\ \A n \in Mutex : mutex'[n] = IF n = m THEN r ELSE mutex[n]
      BY <1>1, <3>1, <3>2, SetMutex
    <3> QED BY <2>2, <3>1, <3>3
  <2> QED BY <2>1, <2>2
<1>9. MutexTypeOK'
  BY <1>1, <1>7, <1>8 DEF MutexTypeOK, MutexRecord
<1>10. LockInv'
  <2>1. OwnedIsUsed'
    BY <1>1, <1>4, <1>8 DEF OwnedIsUsed, LockInv
  <2> QED BY <1>3, <1>7, <2>1, EarlyScopes DEF LockInv
<1>11. ScopesExclusive'
  <2> SUFFICES ASSUME NEW n \in Mutex, NEW t \in Thread
               PROVE  HasLocked(t, n)' <=> mutex'[n].owner = t
    BY DEF ScopesExclusive
  <2>1. HasLocked(t, n) <=> mutex[n].owner = t
    BY <1>1 DEF ScopesExclusive
  <2>2. t # Nobody
    BY KmtAssumption DEF Thread, Nobody
  <2> QED BY <1>5, <1>7, <1>8, <2>1, <2>2
<1>12. WaitersBlocked'
  <2>1. \A n \in Mutex : mutex[n].waiting # << >> => (mutex[n].owner # Nobody /\ mutex'[n].owner = mutex[n].owner)
    BY <1>1, <1>5, <1>8 DEF WaitersBlocked
  <2> QED BY <1>1, <1>3, <1>8, <2>1 DEF WaitersBlocked, Alive, Waits
<1> QED BY <1>2, <1>9, <1>10, <1>11, <1>12 DEF MutexInv

\* tty_lock, when another thread has the mutex: the thread is queued at it and
\* the processor handed over.
LEMMA BlockKeeps ==
  ASSUME MutexInv, UsesTty, NEW m \in Mutex,
         mutex[m].used, mutex[m].owner \notin {Me, Nobody},
         mutex' = [mutex EXCEPT ![m].waiting = Append(@, Me)],
         kmt' = kmt_schedule(StopPreempting(kmt), "IDLE_MUTEX", "call"),
         UNCHANGED <<scopes, sleepers, handler, boot, allocCount>>
  PROVE  MutexInv'
<1>1. /\ Alive /\ IInv /\ MutexTypeOK /\ LockInv /\ ScopesExclusive /\ WaitersBlocked
      /\ Me \in Thread /\ Me # Nobody /\ \A n \in Mutex : ~Waits(Me, n)
      /\ \A n \in Mutex : mutex[n] \in MutexRecord
      /\ boot = "early" => Me = Boot
  BY InTty
<1> DEFINE owner == mutex[m].owner
<1>2. owner \in Thread /\ owner # Me
  BY <1>1 DEF MutexRecord
\* The owner has a scope, so the boot thread has handed over.
<1>3. boot # "early"
  <2>1. HasLocked(owner, m)
    BY <1>1, <1>2 DEF ScopesExclusive
  <2>2. scopes[owner] # << >>
    BY <2>1 DEF HasLocked
  <2> QED BY <1>1, <1>2, <2>2 DEF LockInv, BootWritesFirst
<1>4. /\ kmt \in KmtState /\ KernelInv(kmt) /\ SleepersInv(kmt, sleepers)
      /\ kmt.panic = "none" /\ boot \in {"enabled", "dead"}
      /\ sleepers \in SUBSET Request /\ handler \in HandlerState
  BY <1>1, <1>3, RunningKernel
<1> DEFINE s == StopPreempting(kmt)
<1>5. s \in KmtState /\ KernelInv(s) /\ OnlyFlags(kmt, s)
  BY <1>4, StopPreemptingKeeps
<1> HIDE DEF s
<1>6. SleepersInv(s, sleepers)
  BY <1>4, <1>5 DEF SleepersInv, OnlyFlags
<1>7. "IDLE_MUTEX" \in OutsideWaits /\ "IDLE_MUTEX" \in Blocked
  BY DEF OutsideWaits, Blocked, Status
<1>8. /\ IInv'
      /\ \A t \in Thread, b \in Blocked :
           kmt'.status[t] = b <=> (IF t = Me THEN "IDLE_MUTEX" ELSE s.status[t]) = b
  <2>1. kmt' = kmt_schedule(s, "IDLE_MUTEX", "call")
    BY DEF s
  <2>2. s.current = Me /\ s.panic = "none"
    BY <1>4, <1>5 DEF OnlyFlags, Me
  <2>3. s \in KmtState /\ KernelInv(s) /\ UNCHANGED <<sleepers, handler, boot>>
    BY <1>5
  <2>4. sleepers \in SUBSET Request /\ handler \in HandlerState /\ boot \in {"enabled", "dead"}
    BY <1>4
  <2> QED BY <1>6, <1>7, <2>1, <2>2, <2>3, <2>4, WaitsOutside
<1>9. \A t \in Thread : kmt'.status[t] = "IDLE_MUTEX" <=> t = Me \/ kmt.status[t] = "IDLE_MUTEX"
  BY <1>5, <1>7, <1>8 DEF OnlyFlags
<1> DEFINE w == mutex[m].waiting
           a == Append(w, Me)
           r == [mutex[m] EXCEPT !.waiting = a]
<1>w. w \in Seq(Thread)
  BY <1>1 DEF MutexRecord
<1>o. mutex[m] \in MutexRecord /\ w = mutex[m].waiting
  BY <1>1
<1> HIDE DEF w
<1>11. /\ a \in Seq(Thread) /\ DOMAIN w = 1 .. Len(w) /\ Len(w) \in Nat
       /\ DOMAIN a = 1 .. Len(w) + 1 /\ a # << >>
       /\ \A i \in DOMAIN w : a[i] = w[i]
       /\ a[Len(w) + 1] = Me
  BY <1>1, <1>w, AppendIs
<1>m. mutex' = [mutex EXCEPT ![m] = r]
  BY DEF w
<1> HIDE DEF a
<1>12. r \in MutexRecord /\ r.waiting = a /\ r.used = mutex[m].used /\ r.owner = mutex[m].owner
  BY <1>11, <1>o DEF MutexRecord
<1> HIDE DEF r
<1>13. /\ mutex' \in [Mutex -> MutexRecord]
       /\ \A n \in Mutex : mutex'[n] = IF n = m THEN r ELSE mutex[n]
  BY <1>1, <1>12, <1>m, SetMutex
<1>14. /\ \A n \in Mutex : mutex'[n].used = mutex[n].used /\ mutex'[n].owner = mutex[n].owner
       /\ \A n \in Mutex : mutex'[n].waiting = IF n = m THEN a ELSE mutex[n].waiting
  <2> SUFFICES ASSUME NEW n \in Mutex
               PROVE  /\ mutex'[n].used = mutex[n].used /\ mutex'[n].owner = mutex[n].owner
                      /\ mutex'[n].waiting = IF n = m THEN a ELSE mutex[n].waiting
    OBVIOUS
  <2>1. CASE n = m
    <3>1. mutex'[n] = r
      BY <2>1, <1>13
    <3>2. mutex[n] = mutex[m]
      BY <2>1
    <3>3. mutex'[n].used = mutex[n].used
      BY <3>1, <3>2, <1>12
    <3>4. mutex'[n].owner = mutex[n].owner
      BY <3>1, <3>2, <1>12
    <3>5. mutex'[n].waiting = a
      BY <3>1, <1>12
    <3> QED BY <2>1, <3>3, <3>4, <3>5
  <2>2. CASE n # m
    BY <2>2, <1>13
  <2> QED BY <2>1, <2>2
<1>15. MutexTypeOK'
  BY <1>1, <1>13 DEF MutexTypeOK, MutexRecord
<1>16. LockInv' /\ ScopesExclusive'
  BY <1>1, <1>14 DEF LockInv, OwnedIsUsed, NestedInside, BootWritesFirst, ScopesExclusive, HasLocked
<1>17. \A t \in Thread, n \in Mutex : Waits(t, n)' <=> Waits(t, n) \/ (t = Me /\ n = m)
  BY <1>11, <1>14, <1>o DEF Waits
<1>18. WaitersBlocked'
  <2>1. \A t \in Thread : kmt'.status[t] = "IDLE_MUTEX" <=> \E n \in Mutex : Waits(t, n)'
    BY <1>1, <1>9, <1>17 DEF WaitersBlocked
  <2>2. ASSUME NEW n1 \in Mutex, NEW n2 \in Mutex,
               NEW i \in DOMAIN mutex'[n1].waiting, NEW j \in DOMAIN mutex'[n2].waiting,
               mutex'[n1].waiting[i] = mutex'[n2].waiting[j]
        PROVE  n1 = n2 /\ i = j
    <3>1. ASSUME NEW n \in Mutex, NEW l \in DOMAIN mutex'[n].waiting
          PROVE  \/ /\ l \in DOMAIN mutex[n].waiting
                    /\ mutex'[n].waiting[l] = mutex[n].waiting[l]
                    /\ mutex[n].waiting[l] # Me
                 \/ n = m /\ l = Len(w) + 1 /\ mutex'[n].waiting[l] = Me
      <4>1. CASE n # m
        BY <4>1, <1>1, <1>14 DEF Waits
      <4>2. CASE n = m
        <5>1. mutex'[n].waiting = a /\ l \in 1 .. Len(w) + 1
          BY <4>2, <1>11, <1>14
        <5>2. l \in DOMAIN w \/ l = Len(w) + 1
          BY <5>1, <1>11
        <5> QED BY <4>2, <5>1, <5>2, <1>1, <1>11, <1>o DEF Waits
      <4> QED BY <4>1, <4>2
    <3>2. \A n, o \in Mutex : \A l \in DOMAIN mutex[n].waiting, k \in DOMAIN mutex[o].waiting :
            mutex[n].waiting[l] = mutex[o].waiting[k] => n = o /\ l = k
      BY <1>1 DEF WaitersBlocked
    <3> QED BY <2>2, <3>1, <3>2
  <2>3. ASSUME NEW n \in Mutex, mutex'[n].waiting # << >>
        PROVE  mutex'[n].used /\ mutex'[n].owner # Nobody /\ ~Waits(mutex[n].owner, n)'
    <3>1. CASE n = m
      <4>1. ~Waits(owner, m)
        BY <1>1 DEF WaitersBlocked, Waits
      <4>2. ~Waits(mutex[m].owner, m)'
        BY <4>1, <1>2, <1>14, <1>17
      <4> QED BY <3>1, <4>2, <1>14
    <3>2. CASE n # m
      BY <3>2, <2>3, <1>1, <1>14 DEF WaitersBlocked, Waits
    <3> QED BY <3>1, <3>2
  <2> QED BY <2>1, <2>2, <2>3 DEF WaitersBlocked
<1> QED BY <1>8, <1>15, <1>16, <1>18 DEF MutexInv

LEMMA LockTtyKeeps == MutexInv /\ LockTty => MutexInv'
<1> SUFFICES ASSUME MutexInv, LockTty PROVE MutexInv'
  OBVIOUS
<1>1. UsesTty /\ UNCHANGED <<sleepers, handler, boot, cut, allocCount>>
  BY DEF LockTty
<1>2. PICK m \in 0 .. allocCount - 1 :
        \/ IsOwned(m) /\ EnterTty(m, "nested") /\ UNCHANGED <<kmt, mutex>>
        \/ ~mutex[m].used /\ EnterTty(m, "bypassed") /\ UNCHANGED <<kmt, mutex>>
        \/ /\ mutex[m].used /\ mutex[m].owner = Nobody
           /\ mutex' = [mutex EXCEPT ![m].owner = Me]
           /\ EnterTty(m, "locked")
           /\ UNCHANGED kmt
        \/ /\ mutex[m].used /\ mutex[m].owner \notin {Me, Nobody}
           /\ mutex' = [mutex EXCEPT ![m].waiting = Append(@, Me)]
           /\ kmt' = kmt_schedule(StopPreempting(kmt), "IDLE_MUTEX", "call")
           /\ UNCHANGED scopes
  BY DEF LockTty
<1>3. m \in Mutex /\ m < allocCount
  <2>1. allocCount \in Nat /\ allocCount <= MaxMutexes /\ MaxMutexes \in Nat
    BY MutexAssumption DEF MutexInv, MutexTypeOK
  <2> QED BY <2>1 DEF Mutex
<1>4. CASE /\ mutex[m].used /\ mutex[m].owner \notin {Me, Nobody}
           /\ mutex' = [mutex EXCEPT ![m].waiting = Append(@, Me)]
           /\ kmt' = kmt_schedule(StopPreempting(kmt), "IDLE_MUTEX", "call")
           /\ UNCHANGED scopes
  BY <1>1, <1>3, <1>4, BlockKeeps
<1>5. CASE UNCHANGED kmt /\
             (\/ IsOwned(m) /\ EnterTty(m, "nested") /\ UNCHANGED mutex
              \/ ~mutex[m].used /\ EnterTty(m, "bypassed") /\ UNCHANGED mutex
              \/ /\ mutex[m].used /\ mutex[m].owner = Nobody
                 /\ mutex' = [mutex EXCEPT ![m].owner = Me]
                 /\ EnterTty(m, "locked"))
  <2>1. UNCHANGED <<vars, allocCount>>
    BY <1>1, <1>5 DEF vars
  <2> QED BY <1>1, <1>3, <1>5, <2>1, EnterKeeps
<1> QED BY <1>2, <1>4, <1>5

\* tty_unlock with no thread waiting.
LEMMA ReleaseKeeps ==
  ASSUME MutexInv, UsesTty, scopes[Me] # << >>,
         NEW s, s = Last(scopes[Me]),
         IF s.how = "locked"
           THEN /\ mutex[s.mutex].waiting = << >>
                /\ mutex' = [mutex EXCEPT ![s.mutex].owner = Nobody]
           ELSE UNCHANGED mutex,
         scopes' = [scopes EXCEPT ![Me] = Front(@)],
         UNCHANGED <<vars, allocCount>>
  PROVE  MutexInv'
<1>1. /\ Alive /\ IInv /\ MutexTypeOK /\ LockInv /\ ScopesExclusive /\ WaitersBlocked
      /\ Me \in Thread /\ Me # Nobody /\ \A n \in Mutex : ~Waits(Me, n)
      /\ \A n \in Mutex : mutex[n] \in MutexRecord
  BY InTty
<1>2. IInv'
  BY <1>1, StutterKeeps
<1>3. /\ kmt' = kmt /\ boot' = boot
  BY DEF vars
<1>4. /\ s \in Scope
      /\ scopes' \in [Thread -> Seq(Scope)] /\ NestedInside'
      /\ \A t \in Thread : t # Me => scopes'[t] = scopes[t]
      /\ \A t \in Thread, n \in Mutex :
           HasLocked(t, n)' <=> HasLocked(t, n) /\ ~(t = Me /\ n = s.mutex /\ s.how = "locked")
      /\ s.how = "locked" => HasLocked(Me, s.mutex)
  BY <1>1, Leaves DEF LockInv
<1> DEFINE m == s.mutex
<1>5. m \in Mutex
  BY <1>4 DEF Scope
<1>6. s.how = "locked" => mutex[m].owner = Me /\ mutex[m].waiting = << >>
  BY <1>1, <1>4, <1>5 DEF ScopesExclusive
<1>7. /\ mutex' \in [Mutex -> MutexRecord]
      /\ \A n \in Mutex : mutex'[n].used = mutex[n].used /\ mutex'[n].waiting = mutex[n].waiting
      /\ \A n \in Mutex :
           mutex'[n].owner = IF n = m /\ s.how = "locked" THEN Nobody ELSE mutex[n].owner
  <2>1. CASE s.how # "locked"
    BY <2>1, <1>1 DEF MutexTypeOK, MutexRecord
  <2>2. CASE s.how = "locked"
    <3> DEFINE r == [mutex[m] EXCEPT !.owner = Nobody]
    <3>1. /\ r \in MutexRecord /\ r.owner = Nobody
          /\ r.used = mutex[m].used /\ r.waiting = mutex[m].waiting
      BY <1>1, <1>5 DEF MutexRecord
    <3>2. mutex' = [mutex EXCEPT ![m] = r]
      BY <2>2
    <3> HIDE DEF r
    <3>3. /\ mutex' \in [Mutex -> MutexRecord]
          /\ \A n \in Mutex : mutex'[n] = IF n = m THEN r ELSE mutex[n]
      BY <1>1, <1>5, <3>1, <3>2, SetMutex
    <3> QED BY <2>2, <3>1, <3>3
  <2> QED BY <2>1, <2>2
<1> HIDE DEF m
<1>8. MutexTypeOK'
  BY <1>1, <1>4, <1>7 DEF MutexTypeOK, MutexRecord
<1>9. LockInv'
  <2>1. OwnedIsUsed'
    BY <1>1, <1>7 DEF OwnedIsUsed, LockInv
  <2> QED BY <1>3, <1>4, <2>1, EarlyScopes DEF LockInv
<1>10. ScopesExclusive'
  <2> SUFFICES ASSUME NEW n \in Mutex, NEW t \in Thread
               PROVE  HasLocked(t, n)' <=> mutex'[n].owner = t
    BY DEF ScopesExclusive
  <2>1. HasLocked(t, n) <=> mutex[n].owner = t
    BY <1>1 DEF ScopesExclusive
  <2>2. t # Nobody
    BY KmtAssumption DEF Thread, Nobody
  <2> QED BY <1>4, <1>6, <1>7, <2>1, <2>2 DEF m
<1>11. WaitersBlocked'
  <2>1. \A n \in Mutex : mutex[n].waiting # << >> => mutex'[n].owner = mutex[n].owner
    BY <1>6, <1>7
  <2> QED BY <1>1, <1>3, <1>7, <2>1 DEF WaitersBlocked, Alive, Waits
<1> QED BY <1>2, <1>8, <1>9, <1>10, <1>11 DEF MutexInv

\* kmt_unlock_mutex, when threads wait: they are blocked in IDLE_MUTEX, none of
\* them has ended, and the loop finds no thread to hand the mutex to.
LEMMA HandOverStops ==
  ASSUME MutexInv, UsesTty, NEW m \in Mutex, mutex[m].waiting # << >>, HandOver(m)
  PROVE  /\ kmt' = Halt(kmt, "no waiter")
         /\ mutex' = [mutex EXCEPT ![m].waiting = << >>]
<1> DEFINE queue == mutex[m].waiting
           ended == {i \in DOMAIN queue : kmt.status[queue[i]] = "TERMINATED"}
<1>1. WaitersBlocked /\ Alive /\ mutex[m] \in MutexRecord
  BY InTty
<1>2. queue \in Seq(Thread)
  BY <1>1 DEF MutexRecord
<1>3. ended = {}
  <2> SUFFICES ASSUME NEW i \in DOMAIN queue PROVE kmt.status[queue[i]] # "TERMINATED"
    OBVIOUS
  <2>1. queue[i] \in Thread
    BY <1>2
  <2>2. Waits(queue[i], m)
    BY DEF Waits
  <2>3. kmt.status[queue[i]] = "IDLE_MUTEX"
    BY <1>1, <2>1, <2>2 DEF WaitersBlocked
  <2> QED BY <2>3
<1> QED BY <1>3 DEF HandOver

LEMMA UnlockTtyKeeps == MutexInv /\ UnlockTty => MutexInv'
<1> SUFFICES ASSUME MutexInv, UnlockTty PROVE MutexInv'
  OBVIOUS
<1> DEFINE s == Last(scopes[Me])
<1>1. /\ UsesTty /\ scopes[Me] # << >>
      /\ scopes' = [scopes EXCEPT ![Me] = Front(@)]
      /\ UNCHANGED <<sleepers, handler, boot, cut, allocCount>>
      /\ IF s.how = "nested" THEN UNCHANGED <<kmt, mutex>> ELSE UnlockMutex(s.mutex)
  BY DEF UnlockTty
<1>2. /\ Alive /\ IInv /\ MutexTypeOK /\ LockInv /\ ScopesExclusive
      /\ Me \in Thread /\ Me # Nobody
      /\ \A n \in Mutex : mutex[n] \in MutexRecord
  BY <1>1, InTty
<1>3. /\ s \in Scope /\ scopes' \in [Thread -> Seq(Scope)]
      /\ s.how = "locked" => HasLocked(Me, s.mutex)
      /\ s.how = "bypassed" => ~HasLocked(Me, s.mutex)
  BY <1>1, <1>2, Leaves DEF LockInv
<1> HIDE DEF s
<1>4. s.mutex \in Mutex /\ s.how \in {"locked", "nested", "bypassed"}
  BY <1>3 DEF Scope
\* tty_unlock releases what the scope locked, and only that.
<1>5. s.how # "nested" => (IsOwned(s.mutex) <=> s.how = "locked")
  BY <1>2, <1>3, <1>4 DEF ScopesExclusive, LockInv, OwnedIsUsed, IsOwned
<1>6. CASE s.how = "locked" /\ mutex[s.mutex].waiting # << >>
  <2> DEFINE m == s.mutex
  <2>1. HandOver(m)
    BY <1>1, <1>5, <1>6 DEF UnlockMutex
  <2>2. kmt' = Halt(kmt, "no waiter") /\ mutex' = [mutex EXCEPT ![m].waiting = << >>]
    BY <1>1, <1>4, <1>6, <2>1, HandOverStops
  <2>3. kmt' \in KmtState /\ kmt'.panic = "no waiter"
    BY <1>2, <2>2 DEF Halt, IInv, Typed, KmtState
  <2>4. IInv'
    BY <1>1, <1>2, <2>3 DEF IInv, Typed, Dispatched, Alive
  <2> DEFINE r == [mutex[m] EXCEPT !.waiting = << >>]
  <2>5. r \in MutexRecord
    BY <1>2, <1>4, EmptyQueue DEF MutexRecord
  <2>8. mutex' = [mutex EXCEPT ![m] = r]
    BY <2>2
  <2> HIDE DEF r
  <2>6. mutex' \in [Mutex -> MutexRecord]
    BY <1>2, <1>4, <2>5, <2>8, SetMutex
  <2>7. MutexTypeOK'
    BY <1>1, <1>2, <1>3, <2>6 DEF MutexTypeOK, MutexRecord
  <2> QED BY <2>3, <2>4, <2>7 DEF MutexInv, Alive, ScopesExclusive, WaitersBlocked
<1>7. CASE ~(s.how = "locked" /\ mutex[s.mutex].waiting # << >>)
  <2>1. /\ UNCHANGED kmt
        /\ IF s.how = "locked"
             THEN /\ mutex[s.mutex].waiting = << >>
                  /\ mutex' = [mutex EXCEPT ![s.mutex].owner = Nobody]
             ELSE UNCHANGED mutex
    BY <1>1, <1>4, <1>5, <1>7 DEF UnlockMutex
  <2>2. UNCHANGED <<vars, allocCount>>
    BY <1>1, <2>1 DEF vars
  <2>3. s = Last(scopes[Me])
    BY DEF s
  <2> QED BY <1>1, <2>1, <2>2, <2>3, ReleaseKeeps
<1> QED BY <1>6, <1>7

\* A step of the scheduler moves no thread into or out of IDLE_MUTEX.
LEMMA OtherStepKeeps == NoSleepCut /\ MutexInv /\ OtherStep => MutexInv'
<1> SUFFICES ASSUME NoSleepCut, MutexInv, OtherStep PROVE MutexInv'
  OBVIOUS
<1>1. /\ Next /\ mutex' = mutex /\ allocCount' = allocCount /\ scopes' = scopes
      /\ NoSleepCut'
  BY DEF OtherStep, Next, ThreadStep, mutexVars, NoSleepCut
<1>2. IInv /\ Alive /\ (boot' = "early" => boot = "early")
  BY <1>1, NextAlive DEF MutexInv
<1>3. IInv' /\ Frame({Me}, {Me})
  BY <1>1, <1>2, StepDoes
<1>4. \A t \in Thread : kmt'.status[t] = "IDLE_MUTEX" <=> kmt.status[t] = "IDLE_MUTEX"
  <2>1. "IDLE_MUTEX" \in OutsideWaits
    BY DEF OutsideWaits
  <2> QED BY <1>3, <2>1 DEF Frame
<1>5. MutexTypeOK'
  BY <1>1 DEF MutexInv, MutexTypeOK
<1>6. LockInv'
  BY <1>1, <1>2 DEF MutexInv, LockInv, OwnedIsUsed, NestedInside, BootWritesFirst
<1>7. ScopesExclusive'
  BY <1>1, <1>2 DEF MutexInv, ScopesExclusive, HasLocked
<1>8. WaitersBlocked'
  BY <1>1, <1>2, <1>4 DEF MutexInv, WaitersBlocked, Waits
<1> QED BY <1>3, <1>5, <1>6, <1>7, <1>8 DEF MutexInv

-----------------------------------------------------------------------------
(* The theorems.                                                           *)

LEMMA NoMutexCut == NoSleepCut /\ [MutexNext]_allVars => NoSleepCut'
BY DEF NoSleepCut, MutexNext, CreateMutex, FreeMutex, LockTty, UnlockTty, OtherStep, allVars, vars

LEMMA MutexStepKeeps == NoSleepCut /\ MutexInv /\ [MutexNext]_allVars => MutexInv'
<1>1. MutexInv /\ UNCHANGED allVars => MutexInv'
  <2> SUFFICES ASSUME MutexInv, UNCHANGED allVars PROVE MutexInv'
    OBVIOUS
  <2>1. IInv'
    BY StutterKeeps DEF MutexInv, allVars
  <2>2. UNCHANGED <<kmt, boot, mutex, allocCount, scopes>>
    BY DEF allVars, vars, mutexVars
  <2> QED BY <2>1, <2>2 DEF MutexInv, MutexTypeOK, Alive, LockInv, OwnedIsUsed, NestedInside,
            BootWritesFirst, ScopesExclusive, WaitersBlocked, HasLocked, Waits
<1> QED BY <1>1, CreateMutexKeeps, FreeMutexKeeps, LockTtyKeeps, UnlockTtyKeeps, OtherStepKeeps
        DEF MutexNext

LEMMA MutexInitKeeps == MutexInit => MutexInv
<1> SUFFICES ASSUME MutexInit PROVE MutexInv
  OBVIOUS
<1>1. IInv
  BY InitKeeps DEF MutexInit
<1>2. /\ mutex = [m \in Mutex |-> Unused] /\ allocCount = 0
      /\ scopes = [t \in Thread |-> << >>]
  BY DEF MutexInit
<1>3. Unused \in MutexRecord /\ Unused.owner = Nobody /\ ~Unused.used /\ Unused.waiting = << >>
  BY DEF Unused, MutexRecord
<1>4. \A t \in Thread : kmt.status[t] # "IDLE_MUTEX" /\ t # Nobody
  BY KmtAssumption DEF MutexInit, Init, KmtInit, Thread, Nobody
<1>5. MutexTypeOK
  BY <1>2, <1>3, MutexAssumption DEF MutexTypeOK, MutexRecord
<1>6. LockInv
  BY <1>2, <1>3 DEF LockInv, OwnedIsUsed, NestedInside, BootWritesFirst
<1>7. ScopesExclusive
  BY <1>2, <1>3, <1>4 DEF ScopesExclusive, HasLocked
<1>8. WaitersBlocked
  BY <1>2, <1>3, <1>4 DEF WaitersBlocked, Waits
<1> QED BY <1>1, <1>5, <1>6, <1>7, <1>8 DEF MutexInv

\* MutexInv, and with it the invariants of the scheduler, hold in every state
\* of a system with mutexes, where no thread wakes a sleeper.
THEOREM MutexInvariant == MutexSpec => [](NoSleepCut /\ MutexInv)
<1>1. MutexInit => NoSleepCut
  BY DEF MutexInit, Init, NoSleepCut
<1> QED BY <1>1, MutexInitKeeps, MutexStepKeeps, NoMutexCut, PTL DEF MutexSpec

\* A terminal is its owner's from the scope that locked it to the end of that
\* scope, however scopes of threads, freed and new mutexes interleave.
THEOREM LocksAreExclusive == MutexSpec => []ScopesExclusive
<1>1. MutexInv => ScopesExclusive
  BY DEF MutexInv
<1> QED BY <1>1, MutexInvariant, PTL

\* Blocked in IDLE_MUTEX are exactly the threads queued at a mutex that another
\* thread owns, each in one place: kmt_unlock_mutex never meets an ended one.
THEOREM WaitersAreQueued == MutexSpec => []WaitersBlocked
<1>1. MutexInv => WaitersBlocked
  BY DEF MutexInv
<1> QED BY <1>1, MutexInvariant, PTL
=============================================================================
