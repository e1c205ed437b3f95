--------------------------- MODULE KmtSchedProofs ---------------------------
(***************************************************************************)
(* The invariants of the scheduler, for any number of threads, priorities, *)
(* sleep times and scopes.  IInv is inductive: the properties TLC checks on *)
(* a small instance are conjuncts of it.                                   *)
(***************************************************************************)
EXTENDS KmtSched, KmtProofs

SleepersInv(k, sl) ==
  /\ \A s \in sl : k.status[s.thread] = "IDLE_SLEEP"
  /\ \A s, r \in sl : s.thread = r.thread => s = r
  /\ \A t \in Thread : k.status[t] = "IDLE_SLEEP" => \E s \in sl : s.thread = t

\* Until the idle thread is spawned nothing happens, so preemption is off
\* although the boot thread is in no scope.
BootInv == boot = "early" => kmt = KmtInit /\ handler = NoHandler

ScopeOf(k) ==
  /\ \A t \in Thread : StackOK(k.saved[t])
  /\ \A t \in Thread : t # k.current => (k.resume[t] = "fresh" <=> k.saved[t] = << >>)
  /\ boot # "early" => (k.preempt <=> k.saved[k.current] = << >>)

AliveInv ==
  /\ QueueInv(kmt)
  /\ OnlyCurrentRuns(kmt)
  /\ Uncreated(kmt)
  /\ ScopeOf(kmt)
  /\ SleepersInv(kmt, sleepers)
  /\ BootInv

Typed ==
  /\ kmt \in KmtState
  /\ sleepers \in SUBSET Request
  /\ handler \in HandlerState
  /\ boot \in {"early", "enabled", "dead"}

Dispatched == kmt.panic \notin {"no such thread", "not ready"}

\* What holds until a call cuts a sleep short: every step but that call keeps it.
IInv == Typed /\ Dispatched /\ (Alive => AliveInv)

(***************************************************************************)
(* What a step of the scheduler does to threads that wait for something    *)
(* else.  The modules of the mutexes and of the calls take most of their   *)
(* steps from this one: this is what their own invariants need of them.    *)
(***************************************************************************)
OutsideWaits == {"IDLE_MUTEX", "IDLE_RPC_CALLEE", "IDLE_RPC_CALLER"}

\* The statuses change as the sleepers and the threads in ended allow, and the
\* open scopes as those in scoped do.
Frame(ended, scoped) ==
  /\ \A t \in Thread, s \in OutsideWaits : kmt'.status[t] = s <=> kmt.status[t] = s
  /\ \A t \in Thread :
       kmt.status[t] = "IDLE_SLEEP" =>
         kmt'.status[t] = "IDLE_SLEEP" \/ HasDueRequest(t)
  /\ \A t \in Thread \ ended : kmt'.status[t] = "TERMINATED" => kmt.status[t] = "TERMINATED"
  /\ kmt'.count >= kmt.count
  /\ \A t \in Thread : t >= kmt.count /\ t < kmt'.count => kmt'.status[t] # "TERMINATED"
  /\ Alive' => \A t \in Thread \ scoped : OpenScopes(kmt', t) = OpenScopes(kmt, t)
  /\ Alive' => kmt'.current = kmt.current \/ PickedHighest(kmt, kmt')
  /\ kmt'.panic \in {"none", "bitmap is zero", "pool full", "null dereference"}

-----------------------------------------------------------------------------
(* Promoting a thread that is not at the head of its queue.                *)

LEMMA RemoveAtIs ==
  ASSUME NEW s \in Seq(Thread), NEW i \in DOMAIN s, i > 1
  PROVE  /\ RemoveAt(s, i) \in Seq(Thread) /\ RemoveAt(s, i) # << >>
         /\ \A j \in DOMAIN RemoveAt(s, i) :
              LET o == IF j < i THEN j ELSE j + 1
              IN  j \in Nat /\ o \in DOMAIN s /\ o # i /\ RemoveAt(s, i)[j] = s[o]
         /\ \A o \in DOMAIN s \ {i} : \E j \in DOMAIN RemoveAt(s, i) : RemoveAt(s, i)[j] = s[o]
<1> DEFINE r == RemoveAt(s, i)
<1>1. Len(s) \in Nat /\ DOMAIN s = 1 .. Len(s)
  OBVIOUS
<1>2. /\ r \in Seq(Thread) /\ Len(r) = Len(s) - 1
      /\ \A j \in 1 .. Len(s) - 1 : r[j] = IF j < i THEN s[j] ELSE s[j + 1]
  BY <1>1, RemoveAtIsShift
<1> HIDE DEF r
<1>3. DOMAIN r = 1 .. Len(s) - 1 /\ r # << >>
  BY <1>1, <1>2
<1>4. ASSUME NEW j \in DOMAIN r
      PROVE  LET o == IF j < i THEN j ELSE j + 1
             IN  j \in Nat /\ o \in DOMAIN s /\ o # i /\ r[j] = s[o]
  BY <1>1, <1>2, <1>3
<1>5. ASSUME NEW o \in DOMAIN s \ {i} PROVE \E j \in DOMAIN r : r[j] = s[o]
  <2>1. CASE o < i
    <3>1. o \in DOMAIN r /\ r[o] = s[o]
      BY <1>1, <1>2, <1>3, <2>1
    <3> QED BY <3>1
  <2>2. CASE ~(o < i)
    <3>1. o - 1 \in DOMAIN r /\ ~(o - 1 < i) /\ (o - 1) + 1 = o /\ o - 1 \in 1 .. Len(s) - 1
      BY <1>1, <1>3, <2>2
    <3>2. r[o - 1] = s[o]
      BY <1>2, <3>1
    <3> QED BY <3>1, <3>2
  <2> QED BY <2>1, <2>2
<1> QED BY <1>2, <1>3, <1>4, <1>5 DEF r

\* The node taken out and the thread idle, ready to be woken.
Unlinked(k, p, i, up) ==
  LET t == k.ready[p][i]
  IN [Unlink(k, p, i) EXCEPT !.age[t] = 0, !.priority[t] = up, !.status[t] = "IDLE"]

LEMMA UnlinkedKeeps ==
  ASSUME NEW k \in KmtState, QueueInv(k), NEW p \in Prio,
         NEW i \in DOMAIN k.ready[p], i > 1, NEW up \in Prio
  PROVE  LET t == k.ready[p][i]
             m == Unlinked(k, p, i, up)
         IN  /\ t \in Thread /\ k.status[t] = "READY"
             /\ m \in KmtState /\ QueueInv(m) /\ SameThreads(k, m)
             /\ m.status = [k.status EXCEPT ![t] = "IDLE"]
<1> DEFINE s == k.ready[p]
           t == s[i]
           rest == RemoveAt(s, i)
           m == Unlinked(k, p, i, up)
<1>0. /\ s \in Seq(Thread) /\ k.status \in [Thread -> Status]
      /\ k.ready \in [Prio -> Seq(Thread)]
      /\ k.tail \in [Prio -> {"null", "last", "stale"}]
      /\ k.lost \in SUBSET Thread /\ t \in Thread
      /\ k.age \in [Thread -> Nat] /\ k.priority \in [Thread -> Prio]
  BY QueuedIsThread DEF KmtState
<1>1. /\ rest \in Seq(Thread) /\ rest # << >>
      /\ \A j \in DOMAIN rest :
           LET o == IF j < i THEN j ELSE j + 1
           IN  j \in Nat /\ o \in DOMAIN s /\ o # i /\ rest[j] = s[o]
      /\ \A o \in DOMAIN s \ {i} : \E j \in DOMAIN rest : rest[j] = s[o]
  BY <1>0, RemoveAtIs
<1>2. k.status[t] = "READY" /\ t \notin k.lost
  BY DEF QueueInv, QueuesHoldReady
<1> DEFINE ready  == [k.ready EXCEPT ![p] = rest]
           tail   == [k.tail EXCEPT ![p] = IF i = Len(s) THEN "stale" ELSE @]
           status == [k.status EXCEPT ![t] = "IDLE"]
           age    == [k.age EXCEPT ![t] = 0]
           prio   == [k.priority EXCEPT ![t] = up]
<1>3. /\ ready \in [Prio -> Seq(Thread)] /\ tail \in [Prio -> {"null", "last", "stale"}]
      /\ status \in [Thread -> Status] /\ age \in [Thread -> Nat] /\ prio \in [Thread -> Prio]
  BY <1>0, <1>1 DEF Status
<1>4. m = [k EXCEPT !.ready = ready, !.tail = tail, !.age = age,
                    !.priority = prio, !.status = status]
  BY DEF Unlinked, Unlink, KmtState
<1>5. /\ \A r \in Prio : ready[r] = IF r = p THEN rest ELSE k.ready[r]
      /\ \A r \in Prio : tail[r] = "null" => k.tail[r] = "null"
      /\ \A r \in Prio : r # p => tail[r] = k.tail[r]
      /\ \A u \in Thread : status[u] = IF u = t THEN "IDLE" ELSE k.status[u]
  BY <1>0
<1>s. k.ready[p] = s
  OBVIOUS
<1>t. t = s[i] /\ i \in DOMAIN s
  OBVIOUS
<1> HIDE DEF m, s, t, rest, ready, tail, status, age, prio
<1>6. /\ m \in KmtState
      /\ m.ready = ready /\ m.tail = tail /\ m.bitmap = k.bitmap /\ m.lost = k.lost
      /\ m.status = status /\ SameThreads(k, m)
  BY <1>3, <1>4 DEF KmtState, SameThreads
<1>7. \A r \in Prio : \A j \in DOMAIN ready[r] :
        LET o == IF r = p /\ ~(j < i) THEN j + 1 ELSE j
        IN  /\ o \in DOMAIN k.ready[r] /\ ready[r][j] = k.ready[r][o]
            /\ r = p => j \in Nat /\ o # i
  <2> SUFFICES ASSUME NEW r \in Prio, NEW j \in DOMAIN ready[r]
               PROVE  LET o == IF r = p /\ ~(j < i) THEN j + 1 ELSE j
                      IN  /\ o \in DOMAIN k.ready[r] /\ ready[r][j] = k.ready[r][o]
                          /\ r = p => j \in Nat /\ o # i
    OBVIOUS
  <2>1. CASE r = p
    BY <2>1, <1>1, <1>5, <1>s
  <2>2. CASE r # p
    BY <2>2, <1>5
  <2> QED BY <2>1, <2>2
<1>8. \A r \in Prio : \A j \in DOMAIN ready[r] :
        ready[r][j] # t /\ \E o \in DOMAIN k.ready[r] : ready[r][j] = k.ready[r][o]
  <2> SUFFICES ASSUME NEW r \in Prio, NEW j \in DOMAIN ready[r]
               PROVE  ready[r][j] # t /\ \E o \in DOMAIN k.ready[r] : ready[r][j] = k.ready[r][o]
    OBVIOUS
  <2>1. PICK o \in DOMAIN k.ready[r] : ready[r][j] = k.ready[r][o] /\ (r = p => o # i)
    BY <1>7
  <2>2. k.ready[p][i] = t /\ i \in DOMAIN k.ready[p]
    BY <1>s, <1>t
  <2>3. QueuedOnce(k)
    BY DEF QueueInv
  <2>4. k.ready[r][o] = k.ready[p][i] => r = p /\ o = i
    BY <2>2, <2>3 DEF QueuedOnce
  <2> QED BY <2>1, <2>2, <2>4
<1>9. QueuesHoldReady(m)
  <2> SUFFICES ASSUME NEW r \in Prio, NEW j \in DOMAIN ready[r]
               PROVE  status[ready[r][j]] = "READY" /\ ready[r][j] \notin k.lost
    BY <1>6 DEF QueuesHoldReady
  <2>1. PICK o \in DOMAIN k.ready[r] : ready[r][j] = k.ready[r][o]
    BY <1>8
  <2>2. k.ready[r][o] \in Thread
    BY QueuedIsThread
  <2>3. k.status[ready[r][j]] = "READY" /\ ready[r][j] \notin k.lost
    BY <2>1 DEF QueueInv, QueuesHoldReady
  <2> QED BY <2>1, <2>2, <2>3, <1>5, <1>8
<1>10. LostAreReady(m)
  BY <1>0, <1>2, <1>5, <1>6 DEF QueueInv, LostAreReady
<1>11. QueuedOnce(m)
  <2> SUFFICES ASSUME NEW q \in Prio, NEW r \in Prio,
                      NEW j \in DOMAIN ready[q], NEW l \in DOMAIN ready[r],
                      ready[q][j] = ready[r][l]
               PROVE  q = r /\ j = l
    BY <1>6 DEF QueuedOnce
  <2> DEFINE oj == IF q = p /\ ~(j < i) THEN j + 1 ELSE j
             ol == IF r = p /\ ~(l < i) THEN l + 1 ELSE l
  <2>1. /\ oj \in DOMAIN k.ready[q] /\ ready[q][j] = k.ready[q][oj]
        /\ ol \in DOMAIN k.ready[r] /\ ready[r][l] = k.ready[r][ol]
        /\ q = p => j \in Nat
        /\ r = p => l \in Nat
    BY <1>7
  <2> HIDE DEF oj, ol
  <2>2. q = r /\ oj = ol
    <3>1. QueuedOnce(k)
      BY DEF QueueInv
    <3>2. k.ready[q][oj] = k.ready[r][ol]
      BY <2>1
    <3> QED BY <2>1, <3>1, <3>2 DEF QueuedOnce
  <2>3. CASE q = p
    <3>1. s \in Seq(Thread)
      BY <1>0
    <3>2. DOMAIN s = 1 .. Len(s)
      BY <3>1
    <3>3. i \in Nat
      BY <1>t, <3>2
    <3> QED BY <2>1, <2>2, <2>3, <3>3 DEF oj, ol
  <2>4. CASE q # p
    BY <2>2, <2>4 DEF oj, ol
  <2> QED BY <2>2, <2>3, <2>4
<1>12. BitsMatchQueues(m)
  <2> SUFFICES ASSUME NEW r \in Prio
               PROVE  /\ r \in k.bitmap <=> ready[r] # << >>
                      /\ tail[r] = "null" <=> ready[r] = << >>
    BY <1>6 DEF BitsMatchQueues
  <2>1. /\ r \in k.bitmap <=> k.ready[r] # << >>
        /\ k.tail[r] = "null" <=> k.ready[r] = << >>
    BY DEF QueueInv, BitsMatchQueues
  <2>2. k.ready[p] # << >>
    BY <1>s, <1>t
  <2> QED BY <2>1, <2>2, <1>1, <1>5
<1>13. ReadyIsSomewhere(m)
  <2> SUFFICES ASSUME NEW u \in Thread, status[u] = "READY", u \notin k.lost
               PROVE  \E r \in Prio : Queued(m, u, r)
    BY <1>6 DEF ReadyIsSomewhere
  <2>1. u # t /\ k.status[u] = "READY"
    BY <1>5
  <2>2. PICK r \in Prio : \E j \in DOMAIN k.ready[r] : k.ready[r][j] = u
    BY <2>1 DEF QueueInv, ReadyIsSomewhere, Queued
  <2>3. PICK j \in DOMAIN k.ready[r] : k.ready[r][j] = u
    BY <2>2
  <2>4. CASE r # p
    BY <2>3, <2>4, <1>5, <1>6 DEF Queued
  <2>5. CASE r = p
    <3>1. j \in DOMAIN s \ {i} /\ s[j] = u
      BY <2>1, <2>3, <2>5, <1>s, <1>t
    <3>2. PICK o \in DOMAIN rest : rest[o] = u
      BY <1>1, <3>1
    <3>3. o \in DOMAIN m.ready[r] /\ m.ready[r][o] = u
      BY <2>5, <3>2, <1>5, <1>6
    <3> QED BY <3>3 DEF Queued
  <2> QED BY <2>4, <2>5
<1> QED BY <1>0, <1>2, <1>6, <1>9, <1>10, <1>11, <1>12, <1>13 DEF QueueInv, m, t, s, status

LEMMA PromotedKeeps ==
  ASSUME NEW k \in KmtState, QueueInv(k), NEW p \in Prio,
         NEW i \in DOMAIN k.ready[p], i > 1
  PROVE  LET m == Promoted(k, p, i)
         IN  m \in KmtState /\ QueueInv(m) /\ SameThreads(k, m) /\ m.status = k.status
<1> DEFINE t == k.ready[p][i]
           up == IF k.priority[t] + 1 > MaxPrio THEN MaxPrio ELSE k.priority[t] + 1
           d == Unlinked(k, p, i, up)
           m == kmt_wakeup_thread(d, t)
<1>1. t \in Thread /\ k.status \in [Thread -> Status]
  BY QueuedIsThread DEF KmtState
<1>2. up \in Prio
  <2>1. k.priority[t] \in Prio
    BY <1>1 DEF KmtState
  <2> QED BY <2>1, KmtAssumption DEF Prio
<1>3. Promoted(k, p, i) = m
  BY <1>1 DEF Promoted, WakeIdle, Unlinked, Unlink, KmtState
<1> HIDE DEF up
<1>4. /\ k.status[t] = "READY" /\ d \in KmtState /\ QueueInv(d) /\ SameThreads(k, d)
      /\ d.status = [k.status EXCEPT ![t] = "IDLE"]
  BY <1>2, UnlinkedKeeps
<1> HIDE DEF d, t
<1>5. d.status[t] = "IDLE"
  BY <1>1, <1>4
<1>6. /\ m \in KmtState /\ QueueInv(m) /\ SameThreads(d, m)
      /\ m.status = [d.status EXCEPT ![t] = "READY"]
  BY <1>1, <1>4, <1>5, WakeupKeepsQueues
<1> HIDE DEF m
<1>7. m.status = k.status
  BY <1>1, <1>4, <1>6
<1> QED BY <1>3, <1>4, <1>6, <1>7 DEF SameThreads

-----------------------------------------------------------------------------
(* Every step keeps the invariant.                                         *)

\* After the first step of the boot thread, ScopeInv holds as it stands.
LEMMA RunningKernel ==
  ASSUME IInv, Alive, boot # "early"
  PROVE  /\ kmt \in KmtState /\ KernelInv(kmt) /\ SleepersInv(kmt, sleepers)
         /\ kmt.panic = "none" /\ boot \in {"enabled", "dead"}
         /\ sleepers \in SUBSET Request
         /\ handler \in HandlerState
BY DEF IInv, Alive, AliveInv, ScopeOf, ScopeInv, KernelInv, Typed

LEMMA NotEarly ==
  ASSUME IInv, Alive, kmt.current # Boot \/ handler # NoHandler \/ kmt.preempt
  PROVE  boot # "early"
BY DEF IInv, AliveInv, BootInv, KmtInit

LEMMA StepKeeps ==
  ASSUME kmt' \in KmtState, kmt'.panic \notin {"no such thread", "not ready"},
         kmt'.panic = "none" => KernelInv(kmt') /\ SleepersInv(kmt', sleepers'),
         sleepers' \in SUBSET Request,
         handler' \in HandlerState,
         boot' \in {"enabled", "dead"}
  PROVE  IInv'
<1>1. Typed' /\ Dispatched'
  BY DEF Typed, Dispatched
<1>2. ASSUME Alive' PROVE AliveInv'
  <2>1. KernelInv(kmt') /\ SleepersInv(kmt', sleepers')
    BY <1>2 DEF Alive
  <2>2. ScopeOf(kmt)'
    BY <2>1 DEF KernelInv, ScopeInv, ScopeOf
  <2>3. BootInv'
    BY DEF BootInv
  <2>4. QueueInv(kmt)' /\ OnlyCurrentRuns(kmt)' /\ Uncreated(kmt)' /\ SleepersInv(kmt, sleepers)'
    BY <2>1 DEF KernelInv
  <2> QED BY <2>2, <2>3, <2>4 DEF AliveInv
<1> QED BY <1>1, <1>2 DEF IInv

LEMMA CountGrows ==
  ASSUME NEW n \in Nat, NEW m, m = n \/ m = n + 1
  PROVE  /\ m >= n
         /\ \A t \in Thread : t >= n /\ t < m => m # n /\ t = n
BY KmtAssumption DEF Thread

\* A step that hands the processor over, the current thread going to status new.
LEMMA HandsOver ==
  ASSUME kmt \in KmtState, NEW new \in Status, new \notin OutsideWaits,
         kmt.status[kmt.current] = "RUNNING",
         BlockedAfter(kmt, new, kmt'), kmt'.count = kmt.count,
         NEW ended, new = "TERMINATED" => kmt.current \in ended,
         kmt'.panic \in {"none", "bitmap is zero"},
         kmt'.panic = "none" => SameScopes(kmt, kmt') /\ PickedHighest(kmt, kmt')
  PROVE  Frame(ended, {})
<1>1. kmt.count \in Nat /\ kmt.current \in Thread
  BY FieldTypes
<1>2. /\ OutsideWaits \subseteq Blocked /\ "TERMINATED" \in Blocked /\ "IDLE_SLEEP" \in Blocked
  BY DEF OutsideWaits, Blocked, Status
<1>3. \A t \in Thread, s \in OutsideWaits : kmt'.status[t] = s <=> kmt.status[t] = s
  BY ZenonT(90), <1>2 DEF BlockedAfter, OutsideWaits
<1>4. \A t \in Thread : kmt.status[t] = "IDLE_SLEEP" => kmt'.status[t] = "IDLE_SLEEP"
  BY <1>2 DEF BlockedAfter
<1>5. \A t \in Thread \ ended : kmt'.status[t] = "TERMINATED" => kmt.status[t] = "TERMINATED"
  BY ZenonT(40), <1>2 DEF BlockedAfter
<1>6. Alive' => \A t \in Thread : OpenScopes(kmt', t) = OpenScopes(kmt, t)
  BY DEF SameScopes, Alive
<1>7. Alive' => PickedHighest(kmt, kmt')
  BY DEF Alive
<1>8. kmt'.count >= kmt.count /\ \A t \in Thread : ~(t >= kmt.count /\ t < kmt'.count)
  BY <1>1, CountGrows
<1> QED BY <1>3, <1>4, <1>5, <1>6, <1>7, <1>8 DEF Frame

\* A step that keeps the statuses, the saved flags and who is current.
LEMMA KeepsThreads ==
  ASSUME kmt \in KmtState,
         kmt'.status = kmt.status, kmt'.count = kmt.count,
         kmt'.saved = kmt.saved, kmt'.current = kmt.current,
         kmt'.panic \in {"none", "bitmap is zero", "pool full", "null dereference"}
  PROVE  Frame({}, {})
<1>1. \A t \in Thread : OpenScopes(kmt', t) = OpenScopes(kmt, t)
  BY DEF OpenScopes
<1>2. kmt'.count >= kmt.count /\ \A t \in Thread : ~(t >= kmt.count /\ t < kmt'.count)
  BY FieldTypes, CountGrows
<1> QED BY <1>1, <1>2 DEF Frame

\* A step that changes the status of one thread, which was not blocked outside.
LEMMA ChangesOne ==
  ASSUME kmt \in KmtState, NEW c \in Thread, NEW new \in {"READY", "IDLE"},
         kmt.status[c] \notin OutsideWaits,
         kmt.status[c] = "IDLE_SLEEP" => HasDueRequest(c),
         \A t \in Thread : kmt'.status[t] = IF t = c THEN new ELSE kmt.status[t],
         kmt'.count = kmt.count \/ (kmt'.count = kmt.count + 1 /\ c = kmt.count),
         kmt'.saved = kmt.saved, kmt'.current = kmt.current,
         kmt'.panic \in {"none", "bitmap is zero", "pool full", "null dereference"}
  PROVE  Frame({}, {})
<1>1. \A t \in Thread : OpenScopes(kmt', t) = OpenScopes(kmt, t)
  BY DEF OpenScopes
<1>2. /\ kmt'.count >= kmt.count
      /\ \A t \in Thread : t >= kmt.count /\ t < kmt'.count => t = c
  <2>1. kmt.count \in Nat /\ (kmt'.count = kmt.count \/ kmt'.count = kmt.count + 1)
    BY FieldTypes
  <2>2. /\ kmt'.count >= kmt.count
        /\ \A t \in Thread : t >= kmt.count /\ t < kmt'.count =>
                             kmt'.count # kmt.count /\ t = kmt.count
    BY <2>1, CountGrows
  <2> QED BY <2>2
<1>3. \A t \in Thread, s \in OutsideWaits : kmt'.status[t] = s <=> kmt.status[t] = s
  BY DEF OutsideWaits
<1> QED BY <1>1, <1>2, <1>3 DEF Frame

LEMMA InitKeeps == Init => IInv
<1> SUFFICES ASSUME Init PROVE IInv
  OBVIOUS
<1> USE KmtAssumption
<1>1. KmtInit \in KmtState
  <2>1. Boot \in Thread /\ 0 \in Prio /\ 1 \in 1 .. MaxThreads
    BY DEF Boot, Thread, Prio
  <2>2. /\ [t \in Thread |-> IF t = Boot THEN "RUNNING" ELSE "TERMINATED"] \in [Thread -> Status]
        /\ [p \in Prio |-> << >>] \in [Prio -> Seq(Thread)]
        /\ [t \in Thread |-> << >>] \in [Thread -> Seq(BOOLEAN)]
    BY DEF Status
  <2> QED BY <2>1, <2>2 DEF KmtInit, KmtState
<1>2. Typed /\ Dispatched
  BY <1>1 DEF Init, Typed, HandlerState, NoHandler, Dispatched, KmtInit
<1>3. QueueInv(KmtInit)
  BY DEF QueueInv, QueuesHoldReady, QueuedOnce, ReadyIsSomewhere, BitsMatchQueues,
         LostAreReady, KmtInit, Queued
<1>4. OnlyCurrentRuns(KmtInit) /\ Uncreated(KmtInit)
  <2>1. Boot \in Thread
    BY DEF Boot, Thread
  <2> QED BY <2>1 DEF OnlyCurrentRuns, Uncreated, KmtInit, Boot, Thread
<1>5. ScopeOf(KmtInit)
  BY DEF ScopeOf, StackOK, KmtInit, Init
<1>6. SleepersInv(KmtInit, {})
  BY DEF SleepersInv, KmtInit
<1>7. AliveInv
  BY <1>3, <1>4, <1>5, <1>6 DEF Init, AliveInv, BootInv
<1> QED BY <1>2, <1>7 DEF IInv

LEMMA SpawnIdleKeeps == IInv /\ SpawnIdle => IInv' /\ Frame({}, {})
<1> SUFFICES ASSUME IInv, SpawnIdle PROVE IInv' /\ Frame({}, {})
  OBVIOUS
<1>1. /\ boot = "early" /\ kmt.panic = "none" /\ boot' = "enabled"
      /\ sleepers' = sleepers /\ handler' = handler
      /\ kmt' = [kmt_wakeup_thread(kmt_create_thread(kmt, 1), Idle) EXCEPT !.preempt = TRUE]
  BY DEF SpawnIdle, ThreadRuns
<1>2. /\ kmt \in KmtState /\ kmt = KmtInit /\ BaseInv(kmt) /\ SleepersInv(kmt, sleepers)
      /\ sleepers \in SUBSET Request
      /\ handler \in HandlerState
  BY <1>1 DEF IInv, Alive, AliveInv, BootInv, Typed, BaseInv
<1> DEFINE c == kmt_create_thread(kmt, 1)
           w == kmt_wakeup_thread(c, Idle)
<1>3. kmt.count = Idle /\ kmt.count < MaxThreads /\ 1 \in Prio
  BY <1>2, KmtAssumption DEF KmtInit, Idle, Prio
<1>4. /\ c \in KmtState /\ BaseInv(c) /\ c.status = [kmt.status EXCEPT ![Idle] = "IDLE"]
      /\ Idle \in Thread /\ c.saved = kmt.saved /\ c.resume = kmt.resume
      /\ c.current = kmt.current /\ c.panic = kmt.panic /\ c.count = kmt.count + 1
      /\ kmt.status[Idle] = "TERMINATED"
      /\ \A t \in Thread : c.status[t] = IF t = Idle THEN "IDLE" ELSE kmt.status[t]
  BY <1>2, <1>3, CreateKeeps
<1> HIDE DEF c
<1>5. c.status[Idle] = "IDLE" /\ c.status[Idle] \notin {"READY", "RUNNING", "TERMINATED"}
  BY <1>2, <1>4, FieldTypes
<1>c. c \in KmtState /\ BaseInv(c) /\ Idle \in Thread
  BY <1>4
<1>6. /\ w \in KmtState /\ QueueInv(w) /\ SameThreads(c, w)
      /\ w.status = [c.status EXCEPT ![Idle] = "READY"]
  BY <1>4, <1>5, WakeupKeepsQueues DEF BaseInv
<1>7. kmt' = [w EXCEPT !.preempt = TRUE]
  BY <1>1 DEF c
<1> HIDE DEF w
<1>8. BaseInv(w) /\ \A u \in Thread : w.status[u] = IF u = Idle THEN "READY" ELSE c.status[u]
  BY <1>c, <1>5, <1>6, WakeKeepsBase
<1>9. /\ kmt' \in KmtState /\ kmt'.status = w.status /\ kmt'.ready = w.ready
      /\ kmt'.tail = w.tail /\ kmt'.bitmap = w.bitmap /\ kmt'.lost = w.lost
      /\ kmt'.current = w.current /\ kmt'.count = w.count
      /\ kmt'.saved = w.saved /\ kmt'.resume = w.resume /\ kmt'.panic = w.panic
      /\ kmt'.preempt = TRUE
  BY <1>6, <1>7 DEF KmtState
<1>10. BaseInv(kmt')
  <2>1. QueueInv(kmt')
    BY <1>8, <1>9, QueueFields DEF BaseInv
  <2> QED BY <2>1, <1>8, <1>9 DEF BaseInv, OnlyCurrentRuns, Uncreated
<1>11. ScopeInv(kmt')
  <2>1. /\ kmt'.saved = [t \in Thread |-> << >>] /\ kmt'.resume = [t \in Thread |-> "fresh"]
        /\ kmt'.current \in Thread
    <3>1. /\ kmt.saved = [t \in Thread |-> << >>] /\ kmt.resume = [t \in Thread |-> "fresh"]
          /\ kmt.current \in Thread
      BY <1>2, FieldTypes DEF KmtInit
    <3> QED BY <3>1, <1>4, <1>6, <1>9 DEF SameThreads
  <2> QED BY <2>1, <1>9 DEF ScopeInv, StackOK
<1>12. SleepersInv(kmt', sleepers')
  BY <1>1, <1>2, <1>4, <1>8, <1>9 DEF SleepersInv, Request
<1>13. kmt'.panic = "none"
  BY <1>1, <1>4, <1>6, <1>9 DEF SameThreads
<1>14. sleepers' \in SUBSET Request /\ boot' \in {"enabled", "dead"}
       /\ handler' \in HandlerState
  BY <1>1, <1>2
<1>15. Frame({}, {})
  <2>1. /\ kmt'.count = kmt.count + 1 /\ kmt'.saved = kmt.saved /\ kmt'.current = kmt.current
        /\ \A t \in Thread : kmt'.status[t] = IF t = Idle THEN "READY" ELSE kmt.status[t]
    BY <1>4, <1>6, <1>8, <1>9 DEF SameThreads
  <2>3. kmt.count = Idle
    BY <1>3
  <2>2. kmt.status[Idle] \notin OutsideWaits /\ kmt.status[Idle] # "IDLE_SLEEP"
    BY <1>4 DEF OutsideWaits
  <2> QED BY <1>2, <1>4, <1>13, <2>1, <2>2, <2>3, ChangesOne
<1> QED BY <1>9, <1>10, <1>11, <1>12, <1>13, <1>14, <1>15, StepKeeps DEF KernelInv, BaseInv

LEMMA KillsKeep == IInv /\ (BootDies \/ Kill) => IInv' /\ Frame({Me}, {})
<1> SUFFICES ASSUME IInv, BootDies \/ Kill PROVE IInv' /\ Frame({Me}, {})
  OBVIOUS
<1>1. /\ Alive /\ kmt' = kmt_kill_current_thread(kmt)
      /\ sleepers' = sleepers /\ handler' = handler
      /\ boot # "early" /\ boot' \in {boot, "dead"}
  BY NotEarly DEF BootDies, Kill, IsWorker, IsThread, ThreadRuns, Alive, Me
<1>2. /\ kmt \in KmtState /\ KernelInv(kmt) /\ SleepersInv(kmt, sleepers)
      /\ kmt.panic = "none" /\ boot \in {"enabled", "dead"}
      /\ sleepers \in SUBSET Request
      /\ handler \in HandlerState
  BY <1>1, RunningKernel
<1>3. /\ kmt' \in KmtState /\ kmt'.panic \in {"none", "bitmap is zero"}
      /\ kmt'.panic = "none" =>
           KernelInv(kmt') /\ SameScopes(kmt, kmt') /\ PickedHighest(kmt, kmt')
      /\ BlockedAfter(kmt, "TERMINATED", kmt') /\ kmt'.count = kmt.count
  BY <1>1, <1>2, KillKeeps
<1>r. kmt.current \in Thread /\ kmt.status[kmt.current] = "RUNNING"
  BY <1>2, FieldTypes DEF KernelInv, OnlyCurrentRuns
<1>4. SleepersInv(kmt', sleepers')
  <2>1. \A t \in Thread : kmt'.status[t] = "IDLE_SLEEP" <=> kmt.status[t] = "IDLE_SLEEP"
    BY ZenonT(40), <1>3, <1>r DEF BlockedAfter, Blocked, Status
  <2> QED BY <1>1, <1>2, <2>1 DEF SleepersInv, Request
<1>5. sleepers' \in SUBSET Request /\ boot' \in {"enabled", "dead"}
      /\ handler' \in HandlerState
  BY <1>1, <1>2
<1>6. Frame({Me}, {})
  <2>1. "TERMINATED" \in Status /\ "TERMINATED" \notin OutsideWaits
    BY DEF Status, OutsideWaits
  <2>2. kmt.current \in {Me}
    BY DEF Me
  <2> QED BY <1>2, <1>3, <1>r, <2>1, <2>2, HandsOver
<1> QED BY <1>3, <1>4, <1>5, <1>6, StepKeeps

LEMMA CreateThreadKeeps == IInv /\ CreateThread => IInv' /\ Frame({}, {})
<1> SUFFICES ASSUME IInv, CreateThread PROVE IInv' /\ Frame({}, {})
  OBVIOUS
<1>1. /\ Alive /\ boot # "early" /\ kmt.count < MaxThreads
      /\ sleepers' = sleepers /\ handler' = handler /\ boot' = boot
  BY NotEarly DEF CreateThread, IsThread, ThreadRuns, Alive, Me
<1>2. PICK p \in Prio : kmt' = kmt_create_thread(kmt, p)
  BY SchedAssumption DEF CreateThread
<1>3. /\ kmt \in KmtState /\ KernelInv(kmt) /\ SleepersInv(kmt, sleepers)
      /\ kmt.panic = "none" /\ boot \in {"enabled", "dead"}
      /\ sleepers \in SUBSET Request
      /\ handler \in HandlerState
  BY <1>1, RunningKernel
<1>4. /\ kmt' \in KmtState /\ BaseInv(kmt')
      /\ kmt'.saved = kmt.saved /\ kmt'.resume = kmt.resume /\ kmt'.preempt = kmt.preempt
      /\ kmt'.current = kmt.current /\ kmt'.panic = kmt.panic /\ kmt'.count = kmt.count + 1
      /\ kmt.count \in Thread /\ kmt.status[kmt.count] = "TERMINATED"
      /\ \A t \in Thread : kmt'.status[t] = IF t = kmt.count THEN "IDLE" ELSE kmt.status[t]
  BY ZenonT(40), <1>1, <1>2, <1>3, CreateKeeps DEF KernelInv, BaseInv
<1>5. ScopeInv(kmt')
  BY <1>3, <1>4 DEF KernelInv, ScopeInv
<1>6. SleepersInv(kmt', sleepers')
  BY <1>1, <1>3, <1>4 DEF SleepersInv, Request
<1>7. sleepers' \in SUBSET Request /\ boot' \in {"enabled", "dead"}
      /\ handler' \in HandlerState
  BY <1>1, <1>3
<1>8. Frame({}, {})
  <2>1. kmt.status[kmt.count] \notin OutsideWaits /\ kmt.status[kmt.count] # "IDLE_SLEEP"
    BY <1>4 DEF OutsideWaits
  <2> QED BY <1>3, <1>4, <2>1, ChangesOne
<1> QED BY <1>3, <1>4, <1>5, <1>6, <1>7, <1>8, StepKeeps DEF KernelInv, BaseInv

LEMMA WakeupThreadKeeps ==
  IInv /\ WakeupThread /\ NoSleepCut /\ NoSleepCut' => IInv' /\ Frame({}, {})
<1> SUFFICES ASSUME IInv, WakeupThread, cut = 0, cut' = 0 PROVE IInv' /\ Frame({}, {})
  BY DEF NoSleepCut
<1>1. /\ Alive /\ boot # "early"
      /\ sleepers' = sleepers /\ handler' = handler /\ boot' = boot
  BY NotEarly DEF WakeupThread, IsThread, ThreadRuns, Alive, Me
<1>2. PICK t \in Thread : kmt.status[t] = "IDLE" /\ kmt' = kmt_wakeup_thread(kmt, t)
  <2>1. cut' # cut + 1
    OBVIOUS
  <2> QED BY <2>1 DEF WakeupThread, Created
<1>3. /\ kmt \in KmtState /\ KernelInv(kmt) /\ SleepersInv(kmt, sleepers)
      /\ kmt.panic = "none" /\ boot \in {"enabled", "dead"}
      /\ sleepers \in SUBSET Request
      /\ handler \in HandlerState
  BY <1>1, RunningKernel
<1>4. /\ kmt' \in KmtState /\ QueueInv(kmt') /\ SameThreads(kmt, kmt')
      /\ kmt'.status = [kmt.status EXCEPT ![t] = "READY"]
  BY <1>2, <1>3, WakeupKeepsQueues DEF KernelInv
<1>5. /\ BaseInv(kmt') /\ ScopeInv(kmt')
      /\ \A u \in Thread : kmt'.status[u] = IF u = t THEN "READY" ELSE kmt.status[u]
  BY <1>2, <1>3, <1>4, WakeKeepsBase DEF KernelInv, BaseInv
<1>6. SleepersInv(kmt', sleepers')
  BY <1>1, <1>2, <1>3, <1>5 DEF SleepersInv, Request
<1>7. sleepers' \in SUBSET Request /\ boot' \in {"enabled", "dead"}
      /\ handler' \in HandlerState
  BY <1>1, <1>3
<1>8. kmt'.panic = "none" /\ kmt'.count = kmt.count /\ kmt'.saved = kmt.saved
      /\ kmt'.current = kmt.current
  BY <1>3, <1>4 DEF SameThreads
<1>9. Frame({}, {})
  <2>1. kmt.status[t] \notin OutsideWaits /\ kmt.status[t] # "IDLE_SLEEP"
    BY <1>2 DEF OutsideWaits
  <2> QED BY <1>3, <1>5, <1>8, <2>1, ChangesOne
<1> QED BY <1>4, <1>5, <1>6, <1>7, <1>8, <1>9, StepKeeps DEF KernelInv, BaseInv

\* A thread that is created and woken in one step.
LEMMA StartsThread ==
  ASSUME IInv, IsThread, kmt.count < MaxThreads, NEW p \in Prio,
         kmt' = kmt_wakeup_thread(kmt_create_thread(kmt, p), kmt.count),
         UNCHANGED <<sleepers, handler, boot>>
  PROVE  IInv' /\ Frame({}, {})
<1> DEFINE n == kmt.count
           c == kmt_create_thread(kmt, p)
<1>1. Alive /\ boot # "early" /\ handler' = handler /\ boot' = boot /\ sleepers' = sleepers
  BY NotEarly DEF IsThread, ThreadRuns, Alive, Me
<1>2. /\ kmt \in KmtState /\ KernelInv(kmt) /\ SleepersInv(kmt, sleepers)
      /\ kmt.panic = "none" /\ boot \in {"enabled", "dead"}
      /\ sleepers \in SUBSET Request /\ handler \in HandlerState
  BY <1>1, RunningKernel
<1>3. /\ c \in KmtState /\ BaseInv(c)
      /\ c.saved = kmt.saved /\ c.resume = kmt.resume /\ c.preempt = kmt.preempt
      /\ c.current = kmt.current /\ c.panic = kmt.panic /\ c.count = n + 1
      /\ n \in Thread /\ kmt.status[n] = "TERMINATED"
      /\ \A t \in Thread : c.status[t] = IF t = n THEN "IDLE" ELSE kmt.status[t]
  BY <1>2, CreateKeeps DEF KernelInv, BaseInv
<1>4. ScopeInv(c)
  BY <1>2, <1>3 DEF KernelInv, ScopeInv
<1> HIDE DEF c
<1>w. kmt' = kmt_wakeup_thread(c, n)
  BY DEF c
<1>n. n = kmt.count
  OBVIOUS
<1> HIDE DEF n
<1>5. /\ c.status[n] = "IDLE" /\ c.status[n] \notin {"RUNNING", "TERMINATED"}
      /\ c \in KmtState /\ BaseInv(c) /\ n \in Thread
  BY <1>3
<1>6. /\ kmt' \in KmtState /\ QueueInv(kmt') /\ SameThreads(c, kmt')
      /\ kmt'.status = [c.status EXCEPT ![n] = "READY"]
  BY <1>3, <1>5, <1>w, WakeupKeepsQueues DEF BaseInv
<1>7. /\ BaseInv(kmt') /\ ScopeInv(kmt')
      /\ \A u \in Thread : kmt'.status[u] = IF u = n THEN "READY" ELSE c.status[u]
  BY ZenonT(40), <1>4, <1>5, <1>6, WakeKeepsBase
<1>8. SleepersInv(kmt', sleepers')
  BY <1>1, <1>2, <1>3, <1>7 DEF SleepersInv, Request
<1>9. /\ kmt'.panic = "none" /\ kmt'.count = n + 1 /\ kmt'.saved = kmt.saved
      /\ kmt'.current = kmt.current
  BY <1>2, <1>3, <1>6 DEF SameThreads
<1>10. Frame({}, {})
  <2>1. kmt.status[n] \notin OutsideWaits /\ kmt.status[n] # "IDLE_SLEEP"
    BY <1>3 DEF OutsideWaits
  <2>2. \A u \in Thread : kmt'.status[u] = IF u = n THEN "READY" ELSE kmt.status[u]
    BY <1>3, <1>7
  <2> QED BY <1>2, <1>3, <1>9, <1>n, <2>1, <2>2, ChangesOne
<1> QED BY <1>1, <1>2, <1>6, <1>7, <1>8, <1>9, <1>10, StepKeeps DEF KernelInv, BaseInv

\* The current thread blocks in a wait of another module: k is what the kernel
\* state is when it calls kmt_schedule.
LEMMA WaitsOutside ==
  ASSUME NEW k \in KmtState, KernelInv(k), k.panic = "none", k.current = Me,
         SleepersInv(k, sleepers), sleepers \in SUBSET Request, handler \in HandlerState,
         boot \in {"enabled", "dead"},
         NEW new \in OutsideWaits, kmt' = kmt_schedule(k, new, "call"),
         UNCHANGED <<sleepers, handler, boot>>
  PROVE  /\ IInv' /\ kmt'.panic \in {"none", "bitmap is zero"} /\ kmt'.count = k.count
         /\ \A t \in Thread, s \in Blocked :
              kmt'.status[t] = s <=> (IF t = Me THEN new ELSE k.status[t]) = s
         /\ Alive' => SameScopes(k, kmt')
<1>1. new \in Status \ {"RUNNING"} /\ "call" \in {"call", "irq"} /\ new # "IDLE_SLEEP"
  BY DEF OutsideWaits, Status
<1>2. /\ kmt' \in KmtState /\ kmt'.panic \in {"none", "bitmap is zero"}
      /\ kmt'.panic = "none" => KernelInv(kmt') /\ SameScopes(k, kmt')
      /\ BlockedAfter(k, new, kmt') /\ kmt'.count = k.count
  BY <1>1, ScheduleKeeps
<1>3. \A t \in Thread, s \in Blocked :
        kmt'.status[t] = s <=> (IF t = Me THEN new ELSE k.status[t]) = s
  BY <1>2 DEF BlockedAfter
<1>4. k.status[Me] = "RUNNING" /\ Me \in Thread
  BY FieldTypes DEF KernelInv, OnlyCurrentRuns
<1>5. SleepersInv(kmt', sleepers')
  <2>1. "IDLE_SLEEP" \in Blocked
    BY DEF Blocked, Status
  <2>2. \A t \in Thread : kmt'.status[t] = "IDLE_SLEEP" <=> k.status[t] = "IDLE_SLEEP"
    BY <1>1, <1>3, <1>4, <2>1
  <2> QED BY <2>2 DEF SleepersInv, Request
<1>6. IInv'
  BY <1>2, <1>5, StepKeeps
<1> QED BY <1>2, <1>3, <1>6 DEF Alive

LEMMA ElapsedKeeps ==
  ASSUME NEW k \in KmtState, sleepers \in SUBSET Request, SleepersInv(k, sleepers)
  PROVE  Elapsed \in SUBSET Request /\ SleepersInv(k, Elapsed)
<1> DEFINE tick(s) == [s EXCEPT !.left = IF @ = 0 THEN 0 ELSE @ - 1]
<1>1. Elapsed = {tick(s) : s \in sleepers}
  BY DEF Elapsed
<1>2. \A s \in sleepers : tick(s) \in Request /\ tick(s).thread = s.thread
  BY DEF Request
<1> HIDE DEF tick
<1>3. Elapsed \in SUBSET Request
  BY <1>1, <1>2
<1>4. SleepersInv(k, Elapsed)
  BY <1>1, <1>2 DEF SleepersInv
<1> QED BY <1>3, <1>4

LEMMA SleepsKeep == IInv /\ (Sleep \/ SleepUntil) => IInv' /\ Frame({}, {})
<1> SUFFICES ASSUME IInv, Sleep \/ SleepUntil PROVE IInv' /\ Frame({}, {})
  OBVIOUS
<1>1. Alive /\ boot # "early" /\ handler' = handler /\ boot' = boot
  BY NotEarly DEF Sleep, SleepUntil, IsWorker, IsThread, ThreadRuns, Alive, Me
<1>2. /\ kmt \in KmtState /\ KernelInv(kmt) /\ SleepersInv(kmt, sleepers)
      /\ kmt.panic = "none" /\ boot \in {"enabled", "dead"}
      /\ sleepers \in SUBSET Request /\ handler \in HandlerState
  BY <1>1, RunningKernel
<1>3. /\ Me \in Thread /\ kmt.status[Me] = "RUNNING" /\ Me = kmt.current
  BY <1>2, FieldTypes DEF KernelInv, OnlyCurrentRuns, Me
<1>4. CASE Sleep
  <2>1. kmt' = kmt_schedule(kmt, "IDLE", "call") /\ sleepers' = sleepers
    BY <1>4 DEF Sleep
  <2>2. /\ kmt' \in KmtState /\ kmt'.panic \in {"none", "bitmap is zero"}
        /\ kmt'.panic = "none" =>
             KernelInv(kmt') /\ SameScopes(kmt, kmt') /\ PickedHighest(kmt, kmt')
        /\ BlockedAfter(kmt, "IDLE", kmt') /\ kmt'.count = kmt.count
    <3>1. "IDLE" \in Status \ {"RUNNING"} /\ "call" \in {"call", "irq"}
      BY DEF Status
    <3> QED BY <1>2, <2>1, <3>1, ScheduleKeeps
  <2>3. SleepersInv(kmt', sleepers')
    <3>1. \A t \in Thread : kmt'.status[t] = "IDLE_SLEEP" <=> kmt.status[t] = "IDLE_SLEEP"
      BY ZenonT(40), <1>3, <2>2 DEF BlockedAfter, Blocked, Status
    <3> QED BY <1>2, <2>1, <3>1 DEF SleepersInv, Request
  <2>4. Frame({}, {})
    <3>1. "IDLE" \in Status /\ "IDLE" \notin OutsideWaits
      BY DEF Status, OutsideWaits
    <3> QED BY <1>2, <1>3, <2>2, <3>1, HandsOver
  <2> QED BY <1>1, <1>2, <2>1, <2>2, <2>3, <2>4, StepKeeps
<1>5. CASE SleepUntil /\ Cardinality(sleepers) >= MaxThreads
  <2>1. kmt' = [kmt EXCEPT !.panic = "pool full"] /\ sleepers' = sleepers
    BY <1>5 DEF SleepUntil, Halt
  <2>2. /\ kmt' \in KmtState /\ kmt'.panic = "pool full"
        /\ kmt'.status = kmt.status /\ kmt'.count = kmt.count
        /\ kmt'.saved = kmt.saved /\ kmt'.current = kmt.current
    BY <1>2, <2>1 DEF KmtState
  <2> QED BY <1>1, <1>2, <2>1, <2>2, StepKeeps, KeepsThreads
<1>6. CASE SleepUntil /\ ~(Cardinality(sleepers) >= MaxThreads)
  <2>1. PICK d \in 1 .. MaxSleep, n \in Thread :
          /\ sleepers' = sleepers \cup {[thread |-> Me, left |-> d, nth |-> n]}
          /\ kmt' = kmt_schedule(kmt, "IDLE_SLEEP", "call")
    BY <1>6 DEF SleepUntil
  <2>2. /\ kmt' \in KmtState /\ kmt'.panic \in {"none", "bitmap is zero"}
        /\ kmt'.panic = "none" =>
             KernelInv(kmt') /\ SameScopes(kmt, kmt') /\ PickedHighest(kmt, kmt')
        /\ BlockedAfter(kmt, "IDLE_SLEEP", kmt') /\ kmt'.count = kmt.count
    <3>1. "IDLE_SLEEP" \in Status \ {"RUNNING"} /\ "call" \in {"call", "irq"}
      BY DEF Status
    <3> QED BY <1>2, <2>1, <3>1, ScheduleKeeps
  <2> DEFINE new == [thread |-> Me, left |-> d, nth |-> n]
  <2>3. new \in Request /\ new.thread = Me
    BY <1>3, SchedAssumption DEF Request
  <2> HIDE DEF new
  <2>4. sleepers' = sleepers \cup {new} /\ sleepers' \in SUBSET Request
    BY <1>2, <2>1, <2>3 DEF new
  <2>5. SleepersInv(kmt', sleepers')
    <3>1. \A t \in Thread : kmt'.status[t] = "IDLE_SLEEP"
                              <=> t = Me \/ kmt.status[t] = "IDLE_SLEEP"
      BY ZenonT(40), <1>3, <2>2 DEF BlockedAfter, Blocked, Status
    <3>2. \A s \in sleepers : s.thread \in Thread /\ s.thread # Me
      BY <1>2, <1>3 DEF SleepersInv, Request
    <3> QED BY <1>2, <1>3, <2>3, <2>4, <3>1, <3>2 DEF SleepersInv
  <2>6. Frame({}, {})
    <3>1. "IDLE_SLEEP" \in Status /\ "IDLE_SLEEP" \notin OutsideWaits
      BY DEF Status, OutsideWaits
    <3> QED BY <1>2, <1>3, <2>2, <3>1, HandsOver
  <2> QED BY <1>1, <1>2, <2>2, <2>4, <2>5, <2>6, StepKeeps
<1> QED BY <1>4, <1>5, <1>6

\* Changing the priority of a thread disturbs none of the parts.
LEMMA SetPriorityKeeps ==
  ASSUME IInv, IsThread, NEW t \in Thread, NEW p \in Prio,
         kmt' = [kmt EXCEPT !.priority[t] = p], UNCHANGED <<sleepers, handler, boot>>
  PROVE  IInv' /\ Frame({}, {})
<1>1. Alive /\ boot # "early" /\ handler' = handler /\ boot' = boot /\ sleepers' = sleepers
  BY NotEarly DEF IsThread, ThreadRuns, Alive, Me
<1>2. /\ kmt \in KmtState /\ KernelInv(kmt) /\ SleepersInv(kmt, sleepers)
      /\ kmt.panic = "none" /\ boot \in {"enabled", "dead"}
      /\ sleepers \in SUBSET Request /\ handler \in HandlerState
  BY <1>1, RunningKernel
<1>4. /\ kmt' \in KmtState /\ SameThreads(kmt, kmt')
      /\ kmt'.status = kmt.status /\ kmt'.ready = kmt.ready /\ kmt'.tail = kmt.tail
      /\ kmt'.bitmap = kmt.bitmap /\ kmt'.lost = kmt.lost
  BY <1>2 DEF KmtState, SameThreads
<1>5. QueueInv(kmt')
  BY <1>2, <1>4, QueueFields DEF KernelInv
<1>6. KernelInv(kmt')
  BY <1>2, <1>4, <1>5 DEF KernelInv, OnlyCurrentRuns, Uncreated, ScopeInv, SameThreads
<1>7. SleepersInv(kmt', sleepers')
  BY <1>1, <1>2, <1>4 DEF SleepersInv
<1>8. kmt'.panic = "none" /\ Frame({}, {})
  BY <1>2, <1>4, KeepsThreads DEF SameThreads
<1> QED BY <1>1, <1>2, <1>4, <1>6, <1>7, <1>8, StepKeeps

LEMMA OverrideKeeps == IInv /\ OverridePriority => IInv' /\ Frame({}, {})
<1> SUFFICES ASSUME IInv, OverridePriority PROVE IInv' /\ Frame({}, {})
  OBVIOUS
<1>1. PICK t \in Thread, p \in Prio : kmt' = [kmt EXCEPT !.priority[t] = p]
  BY SchedAssumption DEF OverridePriority, Created
<1> QED BY <1>1, SetPriorityKeeps DEF OverridePriority

LEMMA ScopesKeep == IInv /\ (EnterScope \/ EndScope) => IInv' /\ Frame({}, {Me})
<1> SUFFICES ASSUME IInv, EnterScope \/ EndScope PROVE IInv' /\ Frame({}, {Me})
  OBVIOUS
<1>1. Alive /\ boot # "early" /\ handler' = handler /\ boot' = boot /\ sleepers' = sleepers
  BY NotEarly DEF EnterScope, EndScope, IsThread, ThreadRuns, Alive, Me
<1>2. /\ kmt \in KmtState /\ KernelInv(kmt) /\ SleepersInv(kmt, sleepers)
      /\ kmt.panic = "none" /\ boot \in {"enabled", "dead"}
      /\ sleepers \in SUBSET Request /\ handler \in HandlerState
  BY <1>1, RunningKernel
<1>3. kmt' \in KmtState /\ KernelInv(kmt') /\ OnlyFlags(kmt, kmt')
  <2>1. CASE EnterScope
    BY <2>1, <1>2, StopPreemptingKeeps DEF EnterScope
  <2>2. CASE EndScope
    BY <2>2, <1>2, RestoreFlagsKeeps DEF EndScope, Me
  <2> QED BY <2>1, <2>2
<1>4. SleepersInv(kmt', sleepers')
  BY <1>1, <1>2, <1>3 DEF SleepersInv, OnlyFlags
<1>5. Frame({}, {Me})
  <2>1. \A t \in Thread \ {Me} : OpenScopes(kmt', t) = OpenScopes(kmt, t)
    <3>1. CASE EnterScope
      BY <3>1, <1>2, StopPreemptingKeeps DEF EnterScope, Me
    <3>2. CASE EndScope
      BY <3>2, <1>2, RestoreFlagsKeeps DEF EndScope, Me
    <3> QED BY <3>1, <3>2
  <2> QED BY <1>2, <1>3, <2>1, FieldTypes DEF Frame, OnlyFlags
<1> QED BY <1>1, <1>2, <1>3, <1>4, <1>5, StepKeeps DEF OnlyFlags

-----------------------------------------------------------------------------
(* The steps of the timer interrupt.                                       *)

LEMMA TickOnlyKeeps == IInv /\ TickOnly => IInv' /\ Frame({}, {})
<1> SUFFICES ASSUME IInv, TickOnly PROVE IInv' /\ Frame({}, {})
  OBVIOUS
<1>1. /\ Alive /\ kmt' = kmt /\ handler' = handler /\ boot' = boot /\ sleepers' = Elapsed
  BY DEF TickOnly, ThreadRuns, Alive
<1>2. Typed /\ Dispatched /\ AliveInv /\ kmt \in KmtState /\ sleepers \in SUBSET Request
  BY <1>1 DEF IInv, Typed
<1>3. sleepers' \in SUBSET Request /\ SleepersInv(kmt', sleepers')
  BY <1>1, <1>2, ElapsedKeeps DEF AliveInv
<1>4. Typed' /\ Dispatched'
  BY <1>1, <1>2, <1>3 DEF Typed, Dispatched
<1>5. AliveInv'
  BY <1>1, <1>2, <1>3 DEF AliveInv, ScopeOf, BootInv
<1> QED BY <1>1, <1>2, <1>4, <1>5, KeepsThreads DEF IInv, Alive

LEMMA TimerInterruptKeeps == IInv /\ TimerInterrupt => IInv' /\ Frame({}, {})
<1> SUFFICES ASSUME IInv, TimerInterrupt PROVE IInv' /\ Frame({}, {})
  OBVIOUS
<1>1. /\ Alive /\ boot # "early" /\ boot' = boot /\ sleepers' = Elapsed
      /\ kmt' = [kmt EXCEPT !.irqOn = FALSE, !.inService = TRUE]
      /\ handler' = [NoHandler EXCEPT !.pc = "wake"]
  BY NotEarly DEF TimerInterrupt, ThreadRuns, Alive
<1>2. /\ kmt \in KmtState /\ KernelInv(kmt) /\ SleepersInv(kmt, sleepers)
      /\ kmt.panic = "none" /\ boot \in {"enabled", "dead"}
      /\ sleepers \in SUBSET Request /\ handler \in HandlerState
  BY <1>1, RunningKernel
<1>3. /\ kmt' \in KmtState /\ SameThreads(kmt, kmt')
      /\ kmt'.status = kmt.status /\ kmt'.ready = kmt.ready /\ kmt'.tail = kmt.tail
      /\ kmt'.bitmap = kmt.bitmap /\ kmt'.lost = kmt.lost
  BY <1>1, <1>2 DEF KmtState, SameThreads
<1>4. KernelInv(kmt')
  <2>1. QueueInv(kmt')
    BY <1>2, <1>3, QueueFields DEF KernelInv
  <2> QED BY <1>2, <1>3, <2>1 DEF KernelInv, OnlyCurrentRuns, Uncreated, ScopeInv, SameThreads
<1>5. sleepers' \in SUBSET Request /\ SleepersInv(kmt, sleepers')
  BY <1>1, <1>2, ElapsedKeeps
<1>6. SleepersInv(kmt', sleepers')
  BY <1>3, <1>5 DEF SleepersInv
<1>7. handler' \in HandlerState
  BY <1>1 DEF HandlerState, NoHandler
<1>8. kmt'.panic = "none" /\ Frame({}, {})
  BY <1>2, <1>3, KeepsThreads DEF SameThreads
<1> QED BY <1>1, <1>2, <1>3, <1>4, <1>5, <1>6, <1>7, <1>8, StepKeeps

\* The sleeper taken off the heap is ready, and no other request is its own.
LEMMA WakeSleeperKeeps == IInv /\ WakeSleeper => IInv' /\ Frame({}, {})
<1> SUFFICES ASSUME IInv, WakeSleeper PROVE IInv' /\ Frame({}, {})
  OBVIOUS
<1>1. /\ Alive /\ boot # "early" /\ handler' = handler /\ boot' = boot
  BY NotEarly DEF WakeSleeper, In, Alive, NoHandler
<1>2. /\ kmt \in KmtState /\ KernelInv(kmt) /\ SleepersInv(kmt, sleepers)
      /\ kmt.panic = "none" /\ boot \in {"enabled", "dead"}
      /\ sleepers \in SUBSET Request /\ handler \in HandlerState
  BY <1>1, RunningKernel
<1>3. PICK s \in sleepers :
        s.left = 0 /\ sleepers' = sleepers \ {s} /\ kmt' = WakeIdle(kmt, s.thread)
  BY DEF WakeSleeper, Due
<1> DEFINE t == s.thread
<1>4. t \in Thread /\ kmt.status[t] = "IDLE_SLEEP"
  BY <1>2 DEF SleepersInv, Request
<1> HIDE DEF t
<1>5. /\ kmt' \in KmtState /\ QueueInv(kmt') /\ SameThreads(kmt, kmt')
      /\ kmt'.status = [kmt.status EXCEPT ![t] = "READY"]
  BY <1>2, <1>3, <1>4, WakeIdleKeepsQueues DEF KernelInv, t
<1>6. /\ BaseInv(kmt') /\ ScopeInv(kmt')
      /\ \A u \in Thread : kmt'.status[u] = IF u = t THEN "READY" ELSE kmt.status[u]
  BY <1>2, <1>4, <1>5, WakeKeepsBase DEF KernelInv, BaseInv
<1>7. SleepersInv(kmt', sleepers')
  BY <1>2, <1>3, <1>4, <1>6 DEF SleepersInv, Request, t
<1>8. kmt'.panic = "none" /\ sleepers' \in SUBSET Request
  BY <1>2, <1>3, <1>5 DEF SameThreads
<1>9. Frame({}, {})
  <2>2. HasDueRequest(t)
    BY <1>3 DEF HasDueRequest, t
  <2>3. kmt'.count = kmt.count /\ kmt'.saved = kmt.saved /\ kmt'.current = kmt.current
    BY <1>5 DEF SameThreads
  <2>4. kmt.status[t] \notin OutsideWaits
    BY <1>4 DEF OutsideWaits
  <2> QED BY <1>2, <1>4, <1>6, <1>8, <2>2, <2>3, <2>4, ChangesOne
<1> QED BY <1>1, <1>2, <1>5, <1>6, <1>7, <1>8, <1>9, StepKeeps DEF KernelInv, BaseInv

\* Steps that only move the handler.
LEMMA MovesKeep == IInv /\ (StartAging \/ NextQueue) => IInv' /\ Frame({}, {})
<1> SUFFICES ASSUME IInv, StartAging \/ NextQueue PROVE IInv' /\ Frame({}, {})
  OBVIOUS
<1>1. Alive /\ boot # "early" /\ boot' = boot /\ sleepers' = sleepers /\ kmt' = kmt
  BY NotEarly DEF StartAging, NextQueue, Aging, In, Alive, NoHandler
<1>2. /\ kmt \in KmtState /\ KernelInv(kmt) /\ SleepersInv(kmt, sleepers)
      /\ kmt.panic = "none" /\ boot \in {"enabled", "dead"}
      /\ sleepers \in SUBSET Request /\ handler \in HandlerState
  BY <1>1, RunningKernel
<1>3. handler' \in HandlerState
  <2>1. kmt.bitmap \in SUBSET Prio
    BY <1>2 DEF KmtState
  <2>2. CASE StartAging
    BY <2>1, <2>2 DEF StartAging, HandlerState
  <2>3. CASE NextQueue
    <3>1. handler' = [handler EXCEPT !.todo = @ \ {AgedQueue}, !.pos = 1]
      BY <2>3 DEF NextQueue
    <3> DEFINE todo == handler.todo \ {AgedQueue}
    <3>2. todo \in SUBSET Prio /\ handler \in HandlerState
      BY <1>2 DEF HandlerState
    <3>3. handler' = [pc |-> handler.pc, todo |-> todo, pos |-> 1]
      BY <3>1, <3>2 DEF HandlerState
    <3>4. handler.pc \in {"none", "wake", "age"} /\ 1 \in Nat \ {0}
      BY <3>2 DEF HandlerState
    <3> HIDE DEF todo
    <3> QED BY <3>2, <3>3, <3>4 DEF HandlerState
  <2> QED BY <2>2, <2>3
<1> QED BY <1>1, <1>2, <1>3, StepKeeps, KeepsThreads

\* The node the pass looks at is a node of the queue it is in.
LEMMA NodeIs ==
  ASSUME IInv, AtNode
  PROVE  /\ Alive /\ boot # "early"
         /\ AgedQueue \in Prio /\ handler.pos \in DOMAIN kmt.ready[AgedQueue]
         /\ handler.pos \in Nat
<1>1. Alive /\ boot # "early"
  BY NotEarly DEF AtNode, Aging, In, Alive, NoHandler
<1>2. kmt \in KmtState /\ handler \in HandlerState
  BY <1>1, RunningKernel
<1>3. handler.todo \in SUBSET Prio /\ handler.todo # {} /\ handler.pos \in Nat \ {0}
  BY <1>2 DEF AtNode, Aging, HandlerState
<1>4. AgedQueue \in Prio
  BY <1>3, HighestBit DEF AgedQueue
<1>5. kmt.ready[AgedQueue] \in Seq(Thread)
  BY <1>2, <1>4 DEF KmtState
<1>6. handler.pos <= Len(kmt.ready[AgedQueue])
  BY DEF AtNode
<1> QED BY <1>1, <1>3, <1>4, <1>5, <1>6

LEMMA AgeNodeKeeps == IInv /\ AgeNode => IInv' /\ Frame({}, {})
<1> SUFFICES ASSUME IInv, AgeNode PROVE IInv' /\ Frame({}, {})
  OBVIOUS
<1>1. /\ AtNode /\ boot' = boot /\ sleepers' = sleepers
      /\ kmt' = [kmt EXCEPT !.age[AgedThread] = @ + 1]
      /\ handler' = [handler EXCEPT !.pos = @ + 1]
  BY DEF AgeNode
<1>2. Alive /\ boot # "early" /\ AgedQueue \in Prio
      /\ handler.pos \in DOMAIN kmt.ready[AgedQueue]
  BY <1>1, NodeIs
<1>3. /\ kmt \in KmtState /\ KernelInv(kmt) /\ SleepersInv(kmt, sleepers)
      /\ kmt.panic = "none" /\ boot \in {"enabled", "dead"}
      /\ sleepers \in SUBSET Request /\ handler \in HandlerState
  BY <1>2, RunningKernel
<1>4. AgedThread \in Thread
  BY <1>2, <1>3, QueuedIsThread DEF AgedThread
<1>5. kmt.age \in [Thread -> Nat]
  BY <1>3 DEF KmtState
<1> DEFINE age == [kmt.age EXCEPT ![AgedThread] = @ + 1]
<1>6. age \in [Thread -> Nat] /\ kmt' = [kmt EXCEPT !.age = age]
  BY <1>1, <1>4, <1>5
<1> HIDE DEF age
<1>7. /\ kmt' \in KmtState /\ SameThreads(kmt, kmt')
      /\ kmt'.status = kmt.status /\ kmt'.ready = kmt.ready /\ kmt'.tail = kmt.tail
      /\ kmt'.bitmap = kmt.bitmap /\ kmt'.lost = kmt.lost
  BY <1>3, <1>6 DEF KmtState, SameThreads
<1>8. KernelInv(kmt')
  <2>1. QueueInv(kmt')
    BY <1>3, <1>7, QueueFields DEF KernelInv
  <2> QED BY <1>3, <1>7, <2>1 DEF KernelInv, OnlyCurrentRuns, Uncreated, ScopeInv, SameThreads
<1>9. SleepersInv(kmt', sleepers')
  BY <1>1, <1>3, <1>7 DEF SleepersInv
<1>10. handler' \in HandlerState
  BY <1>1, <1>3 DEF HandlerState
<1>11. kmt'.panic = "none" /\ Frame({}, {})
  BY <1>3, <1>7, KeepsThreads DEF SameThreads
<1> QED BY <1>1, <1>3, <1>7, <1>8, <1>9, <1>10, <1>11, StepKeeps

LEMMA PromotesKeep == IInv /\ (PromoteInner \/ PromoteHead) => IInv' /\ Frame({}, {})
<1> SUFFICES ASSUME IInv, PromoteInner \/ PromoteHead PROVE IInv' /\ Frame({}, {})
  OBVIOUS
<1>1. AtNode /\ boot' = boot /\ sleepers' = sleepers /\ handler' = handler
  BY DEF PromoteInner, PromoteHead
<1>2. Alive /\ boot # "early" /\ AgedQueue \in Prio
      /\ handler.pos \in DOMAIN kmt.ready[AgedQueue]
  BY <1>1, NodeIs
<1>3. /\ kmt \in KmtState /\ KernelInv(kmt) /\ SleepersInv(kmt, sleepers)
      /\ kmt.panic = "none" /\ boot \in {"enabled", "dead"}
      /\ sleepers \in SUBSET Request /\ handler \in HandlerState
  BY <1>2, RunningKernel
<1>4. CASE PromoteHead
  <2>1. kmt' = [kmt EXCEPT !.panic = "null dereference"]
    BY <1>4 DEF PromoteHead, Halt
  <2>2. /\ kmt' \in KmtState /\ kmt'.panic = "null dereference"
        /\ kmt'.status = kmt.status /\ kmt'.count = kmt.count
        /\ kmt'.saved = kmt.saved /\ kmt'.current = kmt.current
    BY <1>3, <2>1 DEF KmtState
  <2> QED BY <1>1, <1>3, <2>2, StepKeeps, KeepsThreads
<1>5. CASE PromoteInner
  <2>1. handler.pos > 1 /\ kmt' = Promoted(kmt, AgedQueue, handler.pos)
    BY <1>5 DEF PromoteInner
  <2>2. /\ kmt' \in KmtState /\ QueueInv(kmt') /\ SameThreads(kmt, kmt')
        /\ kmt'.status = kmt.status
    BY <1>2, <1>3, <2>1, PromotedKeeps DEF KernelInv
  <2>3. KernelInv(kmt')
    BY <1>3, <2>2 DEF KernelInv, OnlyCurrentRuns, Uncreated, ScopeInv, SameThreads
  <2>4. SleepersInv(kmt', sleepers')
    BY <1>1, <1>3, <2>2 DEF SleepersInv
  <2>5. kmt'.panic = "none" /\ Frame({}, {})
    BY <1>3, <2>2, KeepsThreads DEF SameThreads
  <2> QED BY <1>1, <1>3, <2>2, <2>3, <2>4, <2>5, StepKeeps
<1> QED BY <1>4, <1>5

LEMMA PreemptKeeps == IInv /\ Preempt => IInv' /\ Frame({}, {})
<1> SUFFICES ASSUME IInv, Preempt PROVE IInv' /\ Frame({}, {})
  OBVIOUS
<1>1. /\ Alive /\ boot # "early" /\ boot' = boot /\ sleepers' = sleepers
      /\ kmt' = kmt_schedule(kmt, "READY", "irq") /\ handler' = NoHandler
  BY NotEarly DEF Preempt, In, Alive, NoHandler
<1>2. /\ kmt \in KmtState /\ KernelInv(kmt) /\ SleepersInv(kmt, sleepers)
      /\ kmt.panic = "none" /\ boot \in {"enabled", "dead"}
      /\ sleepers \in SUBSET Request /\ handler \in HandlerState
  BY <1>1, RunningKernel
<1>3. /\ kmt' \in KmtState /\ kmt'.panic \in {"none", "bitmap is zero"}
      /\ kmt'.panic = "none" =>
           KernelInv(kmt') /\ SameScopes(kmt, kmt') /\ PickedHighest(kmt, kmt')
      /\ BlockedAfter(kmt, "READY", kmt') /\ kmt'.count = kmt.count
  <2>1. "READY" \in Status \ {"RUNNING"} /\ "irq" \in {"call", "irq"}
    BY DEF Status
  <2> QED BY <1>1, <1>2, <2>1, ScheduleKeeps
<1>r. kmt.current \in Thread /\ kmt.status[kmt.current] = "RUNNING"
  BY <1>2, FieldTypes DEF KernelInv, OnlyCurrentRuns
<1>4. SleepersInv(kmt', sleepers')
  <2>1. \A t \in Thread : kmt'.status[t] = "IDLE_SLEEP" <=> kmt.status[t] = "IDLE_SLEEP"
    <3>1. "IDLE_SLEEP" \in Blocked
      BY DEF Blocked, Status
    <3> QED BY ZenonT(40), <1>3, <1>r, <3>1 DEF BlockedAfter
  <2> QED BY <1>1, <1>2, <2>1 DEF SleepersInv, Request
<1>5. handler' \in HandlerState
  BY <1>1 DEF NoHandler, HandlerState
<1>6. Frame({}, {})
  <2>1. "READY" \in Status /\ "READY" \notin OutsideWaits
    BY DEF Status, OutsideWaits
  <2> QED BY <1>2, <1>3, <1>r, <2>1, HandsOver
<1> QED BY <1>1, <1>2, <1>3, <1>4, <1>5, <1>6, StepKeeps

-----------------------------------------------------------------------------
(* The theorems.                                                           *)

\* Of the timer interrupt's steps and the boot thread's, and of creating,
\* waking and putting to sleep, none ends a thread or changes its scopes,
\* except that the boot thread ends itself.
LEMMA TimerDoes == IInv /\ TimerStep => IInv' /\ Frame({}, {})
<1> SUFFICES ASSUME IInv, TimerStep PROVE IInv' /\ Frame({}, {})
  OBVIOUS
<1>1. CASE TickOnly
  BY <1>1, TickOnlyKeeps
<1>2. CASE TimerInterrupt
  BY <1>2, TimerInterruptKeeps
<1>3. CASE WakeSleeper
  BY <1>3, WakeSleeperKeeps
<1>4. CASE StartAging \/ NextQueue
  BY <1>4, MovesKeep
<1>5. CASE AgeNode
  BY <1>5, AgeNodeKeeps
<1>6. CASE PromoteInner \/ PromoteHead
  BY <1>6, PromotesKeep
<1>7. CASE Preempt
  BY <1>7, PreemptKeeps
<1> QED BY <1>1, <1>2, <1>3, <1>4, <1>5, <1>6, <1>7 DEF TimerStep, HandlerStep

\* Every call and every handler step keeps IInv, and stays within the frame.
LEMMA StepDoes ==
  IInv /\ Next /\ NoSleepCut /\ NoSleepCut' => IInv' /\ Frame({Me}, {Me})
<1> SUFFICES ASSUME IInv, Next, NoSleepCut, NoSleepCut' PROVE IInv' /\ Frame({Me}, {Me})
  OBVIOUS
<1>1. Frame({}, {}) \/ Frame({Me}, {}) \/ Frame({}, {Me}) => Frame({Me}, {Me})
  BY DEF Frame
<1>2. CASE SpawnIdle
  BY <1>1, <1>2, SpawnIdleKeeps
<1>3. CASE BootDies \/ Kill
  BY <1>1, <1>3, KillsKeep
<1>4. CASE CreateThread
  BY <1>1, <1>4, CreateThreadKeeps
<1>5. CASE WakeupThread
  BY <1>1, <1>5, WakeupThreadKeeps
<1>6. CASE Sleep \/ SleepUntil
  BY <1>1, <1>6, SleepsKeep
<1>7. CASE OverridePriority
  BY <1>1, <1>7, OverrideKeeps
<1>8. CASE EnterScope \/ EndScope
  BY <1>1, <1>8, ScopesKeep
<1>9. CASE TimerStep
  BY <1>1, <1>9, TimerDoes
<1> QED BY <1>2, <1>3, <1>4, <1>5, <1>6, <1>7, <1>8, <1>9 DEF Next, BootStep, ThreadStep

LEMMA StutterKeeps == IInv /\ UNCHANGED vars => IInv'
BY DEF vars, IInv, Typed, Dispatched, Alive, AliveInv, ScopeOf, BootInv

\* The number of sleeps cut short only grows, and only kmt_wakeup_thread adds.
LEMMA CutGrows ==
  ASSUME cut \in 0 .. MaxCut, [Next]_vars
  PROVE  cut' \in 0 .. MaxCut /\ (cut' = cut \/ (cut' = cut + 1 /\ WakeupThread))
<1>1. CASE WakeupThread
  BY <1>1, SchedAssumption DEF WakeupThread
<1>2. CASE UNCHANGED vars
  BY <1>2 DEF vars
<1>3. CASE BootStep \/ TimerStep
  BY <1>3 DEF BootStep, SpawnIdle, BootDies, TimerStep, TickOnly, TimerInterrupt, HandlerStep,
     WakeSleeper, StartAging, AgeNode, PromoteInner, PromoteHead, NextQueue, Preempt
<1>4. CASE ThreadStep /\ ~WakeupThread
  BY <1>4 DEF ThreadStep, CreateThread, Sleep, SleepUntil, Kill, OverridePriority,
     EnterScope, EndScope
<1> QED BY <1>1, <1>2, <1>3, <1>4 DEF Next

\* The inductive invariant of the whole specification.
CutInv == cut \in 0 .. MaxCut /\ (NoSleepCut => IInv)

\* No call, no handler step and no stutter of the scheduler breaks CutInv.
THEOREM StepInvariant == CutInv /\ [Next]_vars => CutInv'
<1> SUFFICES ASSUME CutInv, [Next]_vars PROVE CutInv'
  OBVIOUS
<1>1. cut' \in 0 .. MaxCut /\ (cut' = cut \/ cut' = cut + 1) /\ cut \in Nat
  BY CutGrows, SchedAssumption DEF CutInv
<1>2. ASSUME NoSleepCut' PROVE IInv'
  <2>1. NoSleepCut /\ IInv
    BY <1>1, <1>2 DEF NoSleepCut, CutInv
  <2>2. CASE Next
    BY <1>2, <2>1, <2>2, StepDoes
  <2>3. CASE UNCHANGED vars
    BY <2>1, <2>3, StutterKeeps
  <2> QED BY <2>2, <2>3
<1> QED BY <1>1, <1>2 DEF CutInv

\* CutInv holds in every state of the scheduler.
THEOREM Invariant == Spec => []CutInv
<1>1. Init => CutInv
  BY InitKeeps, SchedAssumption DEF CutInv, Init
<1>2. CutInv /\ [Next]_vars => CutInv'
  BY StepInvariant
<1> QED BY <1>1, <1>2, PTL DEF Spec

\* As long as no call has cut a sleep short, every field of the kernel state
\* keeps its type, in particular the count stays within the pool and a flag is
\* only taken from a scope that is open.
THEOREM TypeCorrect == Spec => [](NoSleepCut => TypeOK)
<1>1. CutInv => (NoSleepCut => TypeOK)
  BY DEF CutInv, IInv, Typed, TypeOK
<1> QED BY <1>1, Invariant, PTL

\* A ready thread has one node, and the queues hold ready threads only, as long
\* as no call has cut a sleep short.
THEOREM ReadyThreadsQueuedOnce == Spec => []ReadyQueuedOnce
<1>1. CutInv => ReadyQueuedOnce
  BY DEF CutInv, IInv, AliveInv, QueueInv, ReadyQueuedOnce
<1> QED BY <1>1, Invariant, PTL

\* The bitmap tells exactly which queues have a thread, as long as no call has
\* cut a sleep short.
THEOREM BitmapMatchesQueues == Spec => [](NoSleepCut => BitmapExact)
<1>1. CutInv => (NoSleepCut => BitmapExact)
  BY DEF CutInv, IInv, AliveInv, QueueInv, BitmapExact
<1> QED BY <1>1, Invariant, PTL

\* One thread is RUNNING, and it is the current one, as long as no call has cut
\* a sleep short.
THEOREM OneThreadRuns == Spec => []OneRunning
<1>1. CutInv => OneRunning
  BY DEF CutInv, IInv, AliveInv, OneRunning
<1> QED BY <1>1, Invariant, PTL

\* Preemption is off exactly inside the running thread's own scopes, as long as
\* no call has cut a sleep short.
THEOREM ScopesAreLocal == Spec => [](NoSleepCut => PreemptionScoped)
<1>1. CutInv => (NoSleepCut => PreemptionScoped)
  BY DEF CutInv, IInv, AliveInv, ScopeOf, PreemptionScoped, ThreadRuns, Alive, Me
<1> QED BY <1>1, Invariant, PTL

\* kmt_schedule never fails an assertion about the queue it pops, as long as no
\* call has cut a sleep short.
THEOREM DispatchIsSafe == Spec => []NoBadDispatch
<1>1. CutInv => NoBadDispatch
  BY DEF CutInv, IInv, Dispatched, NoBadDispatch
<1> QED BY <1>1, Invariant, PTL

\* A call of kmt_wakeup_thread does not change the current thread.
LEMMA WakeupKeepsCurrent ==
  ASSUME WakeupThread, kmt \in KmtState
  PROVE  kmt'.current = kmt.current
<1>1. PICK t : kmt' = kmt_wakeup_thread(kmt, t)
  BY DEF WakeupThread
<1>2. kmt_queue_push(kmt, kmt.priority[t], t).current = kmt.current
  BY DEF kmt_queue_push, KmtState
<1> QED BY <1>1, <1>2 DEF kmt_wakeup_thread, kmt_queue_push, KmtState

\* The processor goes to a thread of the highest queue that holds one, as long
\* as no call has cut a sleep short.
THEOREM HighestRunsFirst == Spec => HighestFirst
<1>1. CutInv /\ Next =>
        (Alive /\ Alive' /\ NoSleepCut /\ kmt'.current # kmt.current =>
           \A q \in Prio : Queued(kmt, kmt'.current, q) =>
             \A p \in Prio : p > q => kmt'.ready[p] = << >>)
  <2> SUFFICES ASSUME CutInv, Next, Alive, Alive', NoSleepCut, kmt'.current # kmt.current
               PROVE  \A q \in Prio : Queued(kmt, kmt'.current, q) =>
                        \A p \in Prio : p > q => kmt'.ready[p] = << >>
    OBVIOUS
  <2>1. IInv /\ kmt \in KmtState
    BY DEF CutInv, IInv, Typed
  <2>2. NoSleepCut'
    BY <2>1, CutGrows, WakeupKeepsCurrent DEF CutInv, NoSleepCut
  <2>3. Frame({Me}, {Me})
    BY <2>1, <2>2, StepDoes
  <2> QED BY <2>3 DEF Frame, PickedHighest
<1> QED BY <1>1, Invariant, PTL DEF Spec, HighestFirst

(***************************************************************************)
(* What holds of the sleepers even after a call has cut a sleep short, when *)
(* a thread may be queued twice: only kmt_sleep_until makes a sleeper.      *)
(***************************************************************************)
HasStatuses(k) == "status" \in DOMAIN k /\ DOMAIN k.status = Thread

\* No thread but those in new sleeps in state l that did not in state k.
NoNewSleeper(k, l, new) ==
  /\ HasStatuses(l)
  /\ \A t \in Thread \ new : l.status[t] = "IDLE_SLEEP" => k.status[t] = "IDLE_SLEEP"

\* The fields of k but its statuses are of no concern.
LEMMA SameStatuses ==
  ASSUME NEW k, NEW l, HasStatuses(k), DOMAIN l = DOMAIN k, l.status = k.status
  PROVE  NoNewSleeper(k, l, {})
BY DEF HasStatuses, NoNewSleeper

LEMMA PushWakesNobody ==
  ASSUME NEW k, NEW p, NEW t, HasStatuses(k)
  PROVE  LET l == kmt_queue_push(k, p, t) IN DOMAIN l = DOMAIN k /\ l.status = k.status
BY DEF kmt_queue_push, HasStatuses

LEMMA PopWakesNobody ==
  ASSUME NEW k, NEW p, HasStatuses(k)
  PROVE  LET l == kmt_queue_pop(k, p) IN DOMAIN l = DOMAIN k /\ l.status = k.status
BY DEF kmt_queue_pop, HasStatuses

LEMMA WakeupMakesNoSleeper ==
  ASSUME NEW k, NEW t, HasStatuses(k)
  PROVE  NoNewSleeper(k, kmt_wakeup_thread(k, t), {})
<1> DEFINE l == kmt_queue_push(k, k.priority[t], t)
<1>1. DOMAIN l = DOMAIN k /\ l.status = k.status
  BY PushWakesNobody
<1> HIDE DEF l
<1>2. CASE k.status[t] \in {"READY", "RUNNING", "TERMINATED"}
  BY <1>2 DEF kmt_wakeup_thread, NoNewSleeper
<1>3. CASE k.status[t] \notin {"READY", "RUNNING", "TERMINATED"}
  <2> DEFINE m == [l EXCEPT !.bitmap = @ \cup {k.priority[t]}, !.status[t] = "READY"]
  <2>1. kmt_wakeup_thread(k, t) = m
    BY <1>3 DEF kmt_wakeup_thread, l
  <2>2. "status" \in DOMAIN m /\ m.status = [k.status EXCEPT ![t] = "READY"]
    BY <1>1 DEF HasStatuses
  <2> HIDE DEF m
  <2> QED BY <2>1, <2>2 DEF HasStatuses, NoNewSleeper
<1> QED BY <1>2, <1>3

\* A thread that is woken whatever it waits for sleeps no more.
LEMMA WakeIdleWakes ==
  ASSUME NEW k, NEW t, HasStatuses(k)
  PROVE  /\ NoNewSleeper(k, WakeIdle(k, t), {})
         /\ t \in Thread => WakeIdle(k, t).status[t] # "IDLE_SLEEP"
<1> DEFINE i == [k EXCEPT !.status[t] = "IDLE"]
<1>1. HasStatuses(i) /\ i.status = [k.status EXCEPT ![t] = "IDLE"]
  BY DEF HasStatuses
<1> HIDE DEF i
<1>2. NoNewSleeper(i, kmt_wakeup_thread(i, t), {})
  BY <1>1, WakeupMakesNoSleeper
<1> QED BY <1>1, <1>2 DEF WakeIdle, i, NoNewSleeper, HasStatuses

LEMMA RetireMakesSleeper ==
  ASSUME NEW k, NEW s, HasStatuses(k)
  PROVE  NoNewSleeper(k, Retire(k, s), IF s = "IDLE_SLEEP" THEN {k.current} ELSE {})
<1> DEFINE c == k.current
           r == [k EXCEPT !.age[c] = 0, !.priority[c] = k.base[c]]
<1>1. CASE k.status[c] = "TERMINATED"
  BY <1>1 DEF Retire, NoNewSleeper
<1>2. CASE k.status[c] # "TERMINATED" /\ s = "READY"
  <2>1. HasStatuses(r) /\ r.status = k.status
    BY DEF HasStatuses
  <2>2. Retire(k, s) = WakeIdle(r, c)
    BY <1>2 DEF Retire
  <2> HIDE DEF r
  <2> QED BY <1>2, <2>1, <2>2, WakeIdleWakes DEF NoNewSleeper
<1>3. CASE k.status[c] # "TERMINATED" /\ s # "READY"
  <2>1. Retire(k, s) = [k EXCEPT !.status[c] = s]
    BY <1>3 DEF Retire
  <2> QED BY <2>1 DEF HasStatuses, NoNewSleeper
<1> QED BY <1>1, <1>2, <1>3

LEMMA DispatchMakesNoSleeper ==
  ASSUME NEW k, HasStatuses(k)
  PROVE  NoNewSleeper(k, Dispatch(k), {})
<1>1. ASSUME NEW why PROVE NoNewSleeper(k, Halt(k, why), {})
  BY DEF Halt, HasStatuses, NoNewSleeper
<1> DEFINE p == Max(k.bitmap)
           n == Head(k.ready[p])
           o == kmt_queue_pop(k, p)
           m == [o EXCEPT !.current = n, !.status[n] = "RUNNING"]
<1>2. DOMAIN o = DOMAIN k /\ o.status = k.status
  BY PopWakesNobody
<1> HIDE DEF o, n
<1>3. "status" \in DOMAIN m /\ m.status = [k.status EXCEPT ![n] = "RUNNING"]
  BY <1>2 DEF HasStatuses
<1> HIDE DEF m
<1>4. NoNewSleeper(k, m, {})
  BY <1>3 DEF HasStatuses, NoNewSleeper
<1>5. NoNewSleeper(k, SwitchIn(m), {})
  BY <1>4 DEF SwitchIn, HasStatuses, NoNewSleeper
<1> QED BY <1>1, <1>5 DEF Dispatch, p, n, o, m

LEMMA ScheduleMakesSleeper ==
  ASSUME NEW k, NEW s, NEW how, HasStatuses(k)
  PROVE  NoNewSleeper(k, kmt_schedule(k, s, how), IF s = "IDLE_SLEEP" THEN {k.current} ELSE {})
<1> DEFINE new == IF s = "IDLE_SLEEP" THEN {k.current} ELSE {}
           r == Retire(k, s)
           u == Suspend(r, how)
<1>1. NoNewSleeper(k, r, new)
  BY RetireMakesSleeper
<1> HIDE DEF r, new
<1>2. HasStatuses(u) /\ u.status = r.status
  BY <1>1 DEF Suspend, HasStatuses, NoNewSleeper
<1> HIDE DEF u
<1>3. NoNewSleeper(u, Dispatch(u), {})
  BY <1>2, DispatchMakesNoSleeper
<1>4. kmt_schedule(k, s, how) = Dispatch(u)
  BY DEF kmt_schedule, u, r
<1> QED BY <1>1, <1>2, <1>3, <1>4 DEF NoNewSleeper, new

\* A request has the fields of one, and every sleeper has made one.
Requested(k, sl) == \A t \in Thread : k.status[t] = "IDLE_SLEEP" => \E s \in sl : s.thread = t
AwaitedInv ==
  /\ HasStatuses(kmt)
  /\ \A s \in sleepers : DOMAIN s = {"thread", "left", "nth"}
  /\ Requested(kmt, sleepers)

LEMMA RequestsElapse ==
  ASSUME AwaitedInv, sleepers' = Elapsed, NoNewSleeper(kmt, kmt', {})
  PROVE  AwaitedInv'
<1>1. \A s \in sleepers : LET e == [s EXCEPT !.left = IF @ = 0 THEN 0 ELSE @ - 1]
                          IN  e \in sleepers' /\ e.thread = s.thread
  BY DEF AwaitedInv, Elapsed
<1>2. \A e \in sleepers' : DOMAIN e = {"thread", "left", "nth"}
  BY DEF AwaitedInv, Elapsed
<1>3. Requested(kmt, sleepers)'
  <2> SUFFICES ASSUME NEW t \in Thread, kmt'.status[t] = "IDLE_SLEEP"
               PROVE  \E e \in sleepers' : e.thread = t
    BY DEF Requested
  <2>1. PICK s \in sleepers : s.thread = t
    BY DEF AwaitedInv, Requested, NoNewSleeper
  <2> QED BY <1>1, <2>1
<1> QED BY <1>2, <1>3 DEF AwaitedInv, NoNewSleeper

LEMMA RequestsStay ==
  ASSUME AwaitedInv, sleepers' = sleepers, NoNewSleeper(kmt, kmt', {})
  PROVE  AwaitedInv'
BY DEF AwaitedInv, Requested, NoNewSleeper, HasStatuses

LEMMA AwaitedStep == AwaitedInv /\ [Next]_vars => AwaitedInv'
<1> SUFFICES ASSUME AwaitedInv, [Next]_vars PROVE AwaitedInv'
  OBVIOUS
<1>1. HasStatuses(kmt)
  BY DEF AwaitedInv
<1>2. CASE UNCHANGED vars
  BY <1>1, <1>2, SameStatuses, RequestsStay DEF vars
<1>3. CASE SpawnIdle
  <2> DEFINE k == kmt_create_thread(kmt, 1)
             w == kmt_wakeup_thread(k, Idle)
  <2>1. NoNewSleeper(kmt, k, {})
    BY <1>1 DEF kmt_create_thread, HasStatuses, NoNewSleeper
  <2> HIDE DEF k
  <2>2. NoNewSleeper(k, w, {})
    BY <2>1, WakeupMakesNoSleeper DEF NoNewSleeper
  <2> HIDE DEF w
  <2>3. NoNewSleeper(kmt, kmt', {})
    BY <1>3, <2>1, <2>2 DEF SpawnIdle, k, w, NoNewSleeper, HasStatuses
  <2> QED BY <1>3, <2>3, RequestsStay DEF SpawnIdle
<1>4. CASE BootDies \/ Kill
  <2> DEFINE k == [kmt EXCEPT !.status[kmt.current] = "TERMINATED"]
  <2>1. NoNewSleeper(kmt, k, {})
    BY <1>1 DEF HasStatuses, NoNewSleeper
  <2> HIDE DEF k
  <2>2. NoNewSleeper(k, kmt_schedule(k, "TERMINATED", "call"), {})
    BY <2>1, ScheduleMakesSleeper DEF NoNewSleeper
  <2>3. NoNewSleeper(kmt, kmt', {}) /\ sleepers' = sleepers
    BY <1>4, <2>1, <2>2 DEF BootDies, Kill, kmt_kill_current_thread, k, NoNewSleeper
  <2> QED BY <2>3, RequestsStay
<1>5. CASE CreateThread
  <2>1. NoNewSleeper(kmt, kmt', {})
    BY <1>1, <1>5 DEF CreateThread, kmt_create_thread, HasStatuses, NoNewSleeper
  <2> QED BY <1>5, <2>1, RequestsStay DEF CreateThread
<1>6. CASE WakeupThread
  <2>1. NoNewSleeper(kmt, kmt', {}) /\ sleepers' = sleepers
    BY <1>1, <1>6, WakeupMakesNoSleeper DEF WakeupThread
  <2> QED BY <2>1, RequestsStay
<1>7. CASE Sleep
  <2>1. NoNewSleeper(kmt, kmt', {}) /\ sleepers' = sleepers
    BY <1>1, <1>7, ScheduleMakesSleeper DEF Sleep
  <2> QED BY <2>1, RequestsStay
<1>8. CASE SleepUntil
  <2>1. CASE kmt' = Halt(kmt, "pool full") /\ UNCHANGED sleepers
    <3>1. NoNewSleeper(kmt, kmt', {})
      BY <1>1, <2>1 DEF Halt, HasStatuses, NoNewSleeper
    <3> QED BY <2>1, <3>1, RequestsStay
  <2>2. CASE \E d \in 1 .. MaxSleep, n \in Thread :
               /\ sleepers' = sleepers \cup {[thread |-> Me, left |-> d, nth |-> n]}
               /\ kmt' = kmt_schedule(kmt, "IDLE_SLEEP", "call")
    <3>1. NoNewSleeper(kmt, kmt', {Me})
      BY <1>1, <2>2, ScheduleMakesSleeper DEF Me
    <3>2. PICK d, n : sleepers' = sleepers \cup {[thread |-> Me, left |-> d, nth |-> n]}
      BY <2>2
    <3>3. Requested(kmt, sleepers)'
      <4> SUFFICES ASSUME NEW t \in Thread, kmt'.status[t] = "IDLE_SLEEP"
                   PROVE  \E s \in sleepers' : s.thread = t
        BY DEF Requested
      <4> DEFINE q == [thread |-> Me, left |-> d, nth |-> n]
      <4>1. q.thread = Me /\ q \in sleepers' /\ sleepers \subseteq sleepers'
        BY <3>2
      <4> HIDE DEF q
      <4>2. t = Me \/ \E s \in sleepers : s.thread = t
        BY <3>1 DEF AwaitedInv, Requested, NoNewSleeper
      <4> QED BY <4>1, <4>2
    <3> QED BY <3>1, <3>2, <3>3 DEF AwaitedInv, NoNewSleeper
  <2> QED BY <1>8, <2>1, <2>2 DEF SleepUntil
<1>9. CASE OverridePriority \/ EnterScope \/ EndScope
  <2>1. DOMAIN kmt' = DOMAIN kmt /\ kmt'.status = kmt.status /\ sleepers' = sleepers
    BY <1>1, <1>9 DEF OverridePriority, EnterScope, EndScope, StopPreempting, RestoreFlags,
                      HasStatuses
  <2> QED BY <1>1, <2>1, SameStatuses, RequestsStay
<1>10. CASE TickOnly \/ TimerInterrupt
  <2>1. DOMAIN kmt' = DOMAIN kmt /\ kmt'.status = kmt.status /\ sleepers' = Elapsed
    BY <1>1, <1>10 DEF TickOnly, TimerInterrupt, HasStatuses
  <2> QED BY <1>1, <2>1, SameStatuses, RequestsElapse
<1>11. CASE WakeSleeper
  <2>1. PICK s \in Due : sleepers' = sleepers \ {s} /\ kmt' = WakeIdle(kmt, s.thread)
    BY <1>11 DEF WakeSleeper
  <2>2. /\ NoNewSleeper(kmt, kmt', {})
        /\ s.thread \in Thread => kmt'.status[s.thread] # "IDLE_SLEEP"
    BY <1>1, <2>1, WakeIdleWakes
  <2>3. Requested(kmt, sleepers)'
    BY <2>1, <2>2 DEF AwaitedInv, Requested, NoNewSleeper
  <2> QED BY <2>1, <2>2, <2>3 DEF AwaitedInv, NoNewSleeper
<1>12. CASE StartAging \/ NextQueue
  BY <1>1, <1>12, SameStatuses, RequestsStay DEF StartAging, NextQueue
<1>13. CASE AgeNode \/ PromoteHead
  <2>1. DOMAIN kmt' = DOMAIN kmt /\ kmt'.status = kmt.status /\ sleepers' = sleepers
    BY <1>1, <1>13 DEF AgeNode, PromoteHead, Halt, HasStatuses
  <2> QED BY <1>1, <2>1, SameStatuses, RequestsStay
<1>14. CASE PromoteInner
  <2> DEFINE p == AgedQueue
             t == kmt.ready[p][handler.pos]
             up == IF kmt.priority[t] + 1 > MaxPrio THEN MaxPrio ELSE kmt.priority[t] + 1
             k == [Unlink(kmt, p, handler.pos) EXCEPT !.age[t] = 0, !.priority[t] = up]
  <2>1. HasStatuses(k) /\ k.status = kmt.status
    BY <1>1 DEF Unlink, HasStatuses
  <2>2. kmt' = WakeIdle(k, t) /\ sleepers' = sleepers
    BY <1>14 DEF PromoteInner, Promoted
  <2> HIDE DEF k, t
  <2>3. NoNewSleeper(kmt, kmt', {})
    BY <2>1, <2>2, WakeIdleWakes DEF NoNewSleeper
  <2> QED BY <2>2, <2>3, RequestsStay
<1>15. CASE Preempt
  <2>1. NoNewSleeper(kmt, kmt', {}) /\ sleepers' = sleepers
    BY <1>1, <1>15, ScheduleMakesSleeper DEF Preempt
  <2> QED BY <2>1, RequestsStay
<1> QED BY <1>2, <1>3, <1>4, <1>5, <1>6, <1>7, <1>8, <1>9, <1>10, <1>11, <1>12, <1>13, <1>14,
           <1>15 DEF Next, BootStep, ThreadStep, TimerStep, HandlerStep

\* A sleeper always has a request in the sleep heap, whatever has woken threads
\* before; and until a call cuts a sleep short each request has a sleeper of its
\* own, so that no request wakes a thread out of another wait.
THEOREM HeapMatchesStatuses == Spec => []SleepersSleep
<1>1. Init => AwaitedInv
  BY DEF Init, KmtInit, AwaitedInv, HasStatuses, Requested
<1>2. AwaitedInv /\ [Next]_vars => AwaitedInv'
  BY AwaitedStep
<1>3. CutInv /\ AwaitedInv => SleepersSleep
  BY DEF CutInv, IInv, AliveInv, SleepersInv, AwaitedInv, Requested, SleepersSleep
<1> QED BY <1>1, <1>2, <1>3, Invariant, PTL DEF Spec

\* Until a call cuts a sleep short, no step but the handler's, and only when its
\* time is over, ends a sleep; the call that does is the first that ends early.
THEOREM SleepIsNotCutShort == Spec => SleepsItsTime
<1>1. CutInv /\ Next =>
        (NoSleepCut =>
           \A t \in Thread :
             kmt.status[t] = "IDLE_SLEEP" /\ kmt'.status[t] # "IDLE_SLEEP" =>
               HasDueRequest(t) \/ cut' = cut + 1)
  <2> SUFFICES ASSUME CutInv, Next, NoSleepCut, cut' # cut + 1, NEW t \in Thread,
                      kmt.status[t] = "IDLE_SLEEP", kmt'.status[t] # "IDLE_SLEEP"
               PROVE  HasDueRequest(t)
    OBVIOUS
  <2>1. IInv /\ NoSleepCut'
    BY CutGrows DEF CutInv, NoSleepCut
  <2> QED BY <2>1, StepDoes DEF Frame
<1> QED BY <1>1, Invariant, PTL DEF Spec, SleepsItsTime
=============================================================================
