----------------------------- MODULE KmtProofs -----------------------------
(***************************************************************************)
(* Lemmas about the operators of module Kmt: what each keeps of a          *)
(* consistent kernel state, for any number of threads and priorities.      *)
(***************************************************************************)
EXTENDS Kmt, SequenceTheorems, WellFoundedInduction, TLAPS

\* The highest set bit of a set of priorities is one of them, above the others.
LEMMA HighestBit ==
  ASSUME NEW B \in SUBSET Prio, B # {}
  PROVE  Max(B) \in B /\ \A q \in B : Max(B) >= q
<1> DEFINE T == {MaxPrio - q : q \in B}
<1> USE KmtAssumption DEF Prio
<1>1. T \subseteq Nat /\ T # {}
  <2>1. \A q \in B : MaxPrio - q \in Nat
    OBVIOUS
  <2>2. PICK q \in B : TRUE
    OBVIOUS
  <2>3. MaxPrio - q \in T
    OBVIOUS
  <2> QED BY <2>1, <2>3
<1>2. PICK m \in T : \A y \in T : ~ (<<y, m>> \in OpToRel(<, Nat))
  BY <1>1, NatLessThanWellFounded, WFMin
<1>3. PICK p \in B : m = MaxPrio - p
  OBVIOUS
<1>4. \A q \in B : p >= q
  <2> SUFFICES ASSUME NEW q \in B, q > p PROVE FALSE
    BY <1>3
  <2>1. MaxPrio - q \in T /\ MaxPrio - q < m /\ MaxPrio - q \in Nat /\ m \in Nat
    BY <1>3
  <2>2. <<MaxPrio - q, m>> \in OpToRel(<, Nat)
    BY <2>1 DEF OpToRel
  <2> QED BY <2>1, <2>2, <1>2
<1> QED BY <1>4 DEF Max

\* Removing the i-th element of a sequence.
LEMMA RemoveAtIsShift ==
  ASSUME NEW S, NEW s \in Seq(S), NEW i \in 1 .. Len(s)
  PROVE  /\ RemoveAt(s, i) \in Seq(S)
         /\ Len(RemoveAt(s, i)) = Len(s) - 1
         /\ \A j \in 1 .. Len(s) - 1 :
              RemoveAt(s, i)[j] = IF j < i THEN s[j] ELSE s[j + 1]
<1> DEFINE a == SubSeq(s, 1, i - 1)
           b == SubSeq(s, i + 1, Len(s))
<1>1. a \in Seq(S) /\ Len(a) = i - 1 /\ \A j \in 1 .. i - 1 : a[j] = s[j]
  OBVIOUS
<1>2. b \in Seq(S) /\ Len(b) = Len(s) - i /\ \A j \in 1 .. Len(s) - i : b[j] = s[i + j]
  OBVIOUS
<1>3. RemoveAt(s, i) = a \o b
  BY DEF RemoveAt
<1> HIDE DEF a, b
<1>4. a \o b \in Seq(S) /\ Len(a \o b) = Len(s) - 1
  <2>1. a \o b \in Seq(S) /\ Len(a \o b) = Len(a) + Len(b)
    BY <1>1, <1>2, ConcatProperties
  <2>2. (i - 1) + (Len(s) - i) = Len(s) - 1
    OBVIOUS
  <2> QED BY <1>1, <1>2, <2>1, <2>2
<1>5. \A j \in 1 .. Len(s) - 1 : (a \o b)[j] = IF j < i THEN s[j] ELSE s[j + 1]
  <2> TAKE j \in 1 .. Len(s) - 1
  <2>1. (a \o b)[j] = IF j <= Len(a) THEN a[j] ELSE b[j - Len(a)]
    BY <1>1, <1>2, <1>4, ConcatProperties
  <2>2. CASE j < i
    BY <2>1, <2>2, <1>1
  <2>3. CASE ~(j < i)
    <3>1. j - (i - 1) \in 1 .. Len(s) - i /\ i + (j - (i - 1)) = j + 1
      BY <2>3
    <3> QED BY <2>1, <2>3, <1>1, <1>2, <3>1
  <2> QED BY <2>2, <2>3
<1> QED BY <1>3, <1>4, <1>5

LEMMA AppendOf ==
  ASSUME NEW S, NEW s \in Seq(S), NEW e \in S
  PROVE  /\ Append(s, e) \in Seq(S)
         /\ DOMAIN s = 1 .. Len(s) /\ Len(s) \in Nat
         /\ DOMAIN Append(s, e) = 1 .. Len(s) + 1
         /\ Append(s, e) # << >>
         /\ \A i \in DOMAIN s : Append(s, e)[i] = s[i]
         /\ Append(s, e)[Len(s) + 1] = e
<1>1. Len(s) \in Nat /\ DOMAIN s = 1 .. Len(s)
  OBVIOUS
<1>2. Append(s, e) \in Seq(S) /\ Len(Append(s, e)) = Len(s) + 1
  BY AppendProperties
<1>3. \A i \in 1 .. Len(s) : Append(s, e)[i] = s[i]
  BY AppendProperties
<1>4. Append(s, e)[Len(s) + 1] = e
  BY AppendProperties
<1>5. DOMAIN Append(s, e) = 1 .. Len(s) + 1
  BY <1>2
<1>6. Append(s, e) # << >>
  BY <1>1, <1>2
<1> QED BY <1>1, <1>2, <1>3, <1>4, <1>5, <1>6

LEMMA AppendIs ==
  ASSUME NEW s \in Seq(Thread), NEW e \in Thread
  PROVE  /\ Append(s, e) \in Seq(Thread)
         /\ DOMAIN s = 1 .. Len(s) /\ Len(s) \in Nat
         /\ DOMAIN Append(s, e) = 1 .. Len(s) + 1
         /\ Append(s, e) # << >>
         /\ \A i \in DOMAIN s : Append(s, e)[i] = s[i]
         /\ Append(s, e)[Len(s) + 1] = e
<1> DEFINE S == Thread
<1>1. s \in Seq(S) /\ e \in S
  OBVIOUS
<1> HIDE DEF S
<1>2. /\ Append(s, e) \in Seq(S)
      /\ DOMAIN s = 1 .. Len(s) /\ Len(s) \in Nat
      /\ DOMAIN Append(s, e) = 1 .. Len(s) + 1
      /\ Append(s, e) # << >>
      /\ \A i \in DOMAIN s : Append(s, e)[i] = s[i]
      /\ Append(s, e)[Len(s) + 1] = e
  BY <1>1, AppendOf
<1> QED BY <1>2 DEF S

-----------------------------------------------------------------------------
(* The ready queues.                                                       *)

LostAreReady(k) == \A t \in k.lost : k.status[t] = "READY"

QueueInv(k) ==
  /\ QueuesHoldReady(k) /\ QueuedOnce(k) /\ ReadyIsSomewhere(k)
  /\ BitsMatchQueues(k) /\ LostAreReady(k)

LEMMA QueuedIsThread ==
  ASSUME NEW k \in KmtState
  PROVE  \A p \in Prio : \A i \in DOMAIN k.ready[p] : k.ready[p][i] \in Thread
<1> SUFFICES ASSUME NEW p \in Prio, NEW i \in DOMAIN k.ready[p]
             PROVE  k.ready[p][i] \in Thread
  OBVIOUS
<1>1. k.ready[p] \in Seq(Thread)
  BY DEF KmtState
<1> QED BY <1>1

\* Marking a thread that is in no queue keeps the queues as they are.
LEMMA SetStatus ==
  ASSUME NEW k \in KmtState, QueueInv(k), NEW t \in Thread, k.status[t] # "READY",
         NEW s \in Status \ {"READY"}
  PROVE  /\ [k EXCEPT !.status[t] = s] \in KmtState
         /\ QueueInv([k EXCEPT !.status[t] = s])
<1> DEFINE m == [k EXCEPT !.status[t] = s]
<1>1. m \in KmtState
  BY DEF KmtState
<1>2. /\ m.ready = k.ready /\ m.lost = k.lost /\ m.bitmap = k.bitmap /\ m.tail = k.tail
      /\ m.status = [k.status EXCEPT ![t] = s]
  BY DEF KmtState
<1>3. /\ k.status \in [Thread -> Status] /\ k.lost \in SUBSET Thread
      /\ \A p \in Prio : \A i \in DOMAIN k.ready[p] : k.ready[p][i] \in Thread
  BY QueuedIsThread DEF KmtState
<1> HIDE DEF m
<1>4. QueuesHoldReady(m) /\ LostAreReady(m)
  BY <1>2, <1>3 DEF QueueInv, QueuesHoldReady, LostAreReady
<1>5. QueuedOnce(m) /\ BitsMatchQueues(m)
  BY <1>2 DEF QueueInv, QueuedOnce, BitsMatchQueues
<1>6. ReadyIsSomewhere(m)
  BY <1>2, <1>3 DEF QueueInv, ReadyIsSomewhere, Queued
<1> QED BY <1>1, <1>4, <1>5, <1>6 DEF QueueInv, m

\* Making a thread that is in no queue ready, at the end of queue p.
LEMMA MakeReady ==
  ASSUME NEW k \in KmtState, QueueInv(k), NEW p \in Prio, NEW t \in Thread,
         k.status[t] # "READY"
  PROVE  LET m == [kmt_queue_push(k, p, t)
                     EXCEPT !.bitmap = @ \cup {p}, !.status[t] = "READY"]
         IN  /\ m \in KmtState
             /\ QueueInv(m)
             /\ m.status = [k.status EXCEPT ![t] = "READY"]
             /\ m.saved = k.saved /\ m.resume = k.resume /\ m.preempt = k.preempt
             /\ m.current = k.current /\ m.count = k.count /\ m.panic = k.panic
             /\ \A u \in Thread, r \in Prio : Queued(k, u, r) => Queued(m, u, r)
<1> DEFINE m == [kmt_queue_push(k, p, t)
                   EXCEPT !.bitmap = @ \cup {p}, !.status[t] = "READY"]
           q == k.ready[p]
<1>0. /\ k.status \in [Thread -> Status] /\ k.ready \in [Prio -> Seq(Thread)]
      /\ \A r \in Prio : \A i \in DOMAIN k.ready[r] : k.ready[r][i] \in Thread
      /\ k.tail \in [Prio -> {"null", "last", "stale"}]
      /\ k.lost \in SUBSET Thread /\ q \in Seq(Thread)
  BY QueuedIsThread DEF KmtState
<1>1. kmt_queue_push(k, p, t) \in KmtState
  <2>1. CASE k.tail[p] = "stale"
    BY <1>0, <2>1 DEF KmtState, kmt_queue_push
  <2>2. CASE k.tail[p] # "stale"
    <3>1. Append(q, t) \in Seq(Thread)
      BY <1>0, AppendIs
    <3> DEFINE ready == [k.ready EXCEPT ![p] = Append(q, t)]
               tail  == [k.tail EXCEPT ![p] = "last"]
    <3>2. ready \in [Prio -> Seq(Thread)]
      BY <1>0, <3>1
    <3>3. tail \in [Prio -> {"null", "last", "stale"}]
      BY <1>0
    <3>4. kmt_queue_push(k, p, t) = [k EXCEPT !.ready = ready, !.tail = tail]
      BY <2>2 DEF kmt_queue_push
    <3> HIDE DEF ready, tail
    <3>5. [k EXCEPT !.ready = ready, !.tail = tail] \in KmtState
      BY <3>2, <3>3 DEF KmtState
    <3> QED BY <3>4, <3>5
  <2> QED BY <2>1, <2>2
<1>2. m \in KmtState
  BY ZenonT(40), <1>1 DEF KmtState, Status
<1>3. /\ m.status = [k.status EXCEPT ![t] = "READY"]
      /\ m.bitmap = k.bitmap \cup {p}
      /\ m.saved = k.saved /\ m.resume = k.resume /\ m.preempt = k.preempt
      /\ m.current = k.current /\ m.count = k.count /\ m.panic = k.panic
  <2>1. CASE k.tail[p] = "stale"
    BY <2>1 DEF KmtState, kmt_queue_push
  <2>2. CASE k.tail[p] # "stale"
    BY <2>2 DEF KmtState, kmt_queue_push
  <2> QED BY <2>1, <2>2
<1> HIDE DEF m, q
<1>4. CASE k.tail[p] = "stale"
  <2>1. m.ready = k.ready /\ m.tail = k.tail /\ m.lost = k.lost \cup {t}
    BY <1>4 DEF KmtState, kmt_queue_push, m
  <2>2. k.ready[p] # << >>
    BY <1>4 DEF QueueInv, BitsMatchQueues
  <2>3. \A r \in Prio : \A i \in DOMAIN k.ready[r] : k.ready[r][i] # t
    BY DEF QueueInv, QueuesHoldReady
  <2>4. QueuesHoldReady(m) /\ LostAreReady(m)
    BY <1>0, <1>3, <2>1, <2>3 DEF QueueInv, QueuesHoldReady, LostAreReady
  <2>5. QueuedOnce(m)
    BY <2>1 DEF QueueInv, QueuedOnce
  <2>7. BitsMatchQueues(m)
    <3> SUFFICES ASSUME NEW r \in Prio
                 PROVE  /\ r \in m.bitmap <=> m.ready[r] # << >>
                        /\ m.tail[r] = "null" <=> m.ready[r] = << >>
      BY DEF BitsMatchQueues
    <3>1. /\ r \in k.bitmap <=> k.ready[r] # << >>
          /\ k.tail[r] = "null" <=> k.ready[r] = << >>
      BY DEF QueueInv, BitsMatchQueues
    <3> QED BY <3>1, <1>3, <2>1, <2>2
  <2>6. ReadyIsSomewhere(m)
    BY <1>0, <1>3, <2>1 DEF QueueInv, ReadyIsSomewhere, Queued
  <2>8. \A u \in Thread, r \in Prio : Queued(k, u, r) => Queued(m, u, r)
    BY <2>1 DEF Queued
  <2> QED BY <1>2, <1>3, <2>4, <2>5, <2>6, <2>7, <2>8 DEF QueueInv, m
<1>5. CASE k.tail[p] # "stale"
  <2>1. /\ m.ready = [k.ready EXCEPT ![p] = Append(q, t)]
        /\ m.tail = [k.tail EXCEPT ![p] = "last"] /\ m.lost = k.lost
    BY <1>5 DEF KmtState, kmt_queue_push, m, q
  <2>2. /\ DOMAIN Append(q, t) = 1 .. Len(q) + 1
        /\ \A i \in DOMAIN q : Append(q, t)[i] = q[i]
        /\ Append(q, t)[Len(q) + 1] = t
        /\ DOMAIN q = 1 .. Len(q) /\ Len(q) \in Nat /\ Append(q, t) # << >>
    BY <1>0, AppendIs
  <2>3. \A r \in Prio : \A i \in DOMAIN k.ready[r] : k.ready[r][i] # t
    BY DEF QueueInv, QueuesHoldReady
  <2>4. t \notin k.lost
    BY DEF QueueInv, LostAreReady
  <2>5. \A r \in Prio : m.ready[r] = IF r = p THEN Append(q, t) ELSE k.ready[r]
    BY <1>0, <2>1
  <2>6. QueuesHoldReady(m) /\ LostAreReady(m)
    BY <1>0, <1>3, <2>1, <2>2, <2>3, <2>4, <2>5 DEF QueueInv, QueuesHoldReady, LostAreReady, q
  <2>7. QueuedOnce(m)
    <3> SUFFICES ASSUME NEW r1 \in Prio, NEW r2 \in Prio,
                        NEW i \in DOMAIN m.ready[r1], NEW j \in DOMAIN m.ready[r2],
                        m.ready[r1][i] = m.ready[r2][j]
                 PROVE  r1 = r2 /\ i = j
      BY DEF QueuedOnce
    <3>1. ASSUME NEW r \in Prio, NEW n \in DOMAIN m.ready[r]
          PROVE  \/ n \in DOMAIN k.ready[r] /\ m.ready[r][n] = k.ready[r][n]
                 \/ r = p /\ n = Len(q) + 1 /\ m.ready[r][n] = t
      <4>1. CASE r = p
        <5>1. m.ready[r] = Append(q, t) /\ k.ready[r] = q
          BY <4>1, <2>5 DEF q
        <5>2. n \in DOMAIN q \/ n = Len(q) + 1
          BY <5>1, <2>2
        <5> QED BY <4>1, <5>1, <5>2, <2>2
      <4>2. CASE r # p
        BY <4>2, <2>5
      <4> QED BY <4>1, <4>2
    <3> QED BY <3>1, <2>3 DEF QueueInv, QueuedOnce
  <2>8. BitsMatchQueues(m)
    BY <1>0, <1>3, <2>1, <2>2, <2>5 DEF QueueInv, BitsMatchQueues
  <2>9. ReadyIsSomewhere(m)
    <3> SUFFICES ASSUME NEW u \in Thread, m.status[u] = "READY", u \notin m.lost
                 PROVE  \E r \in Prio : Queued(m, u, r)
      BY DEF ReadyIsSomewhere
    <3>1. CASE u = t
      <4>1. m.ready[p] = Append(q, t)
        BY <2>5
      <4>2. Len(q) + 1 \in DOMAIN m.ready[p] /\ m.ready[p][Len(q) + 1] = t
        BY <2>2, <4>1
      <4> QED BY <3>1, <4>2 DEF Queued
    <3>2. CASE u # t
      <4>1. PICK r \in Prio : \E i \in DOMAIN k.ready[r] : k.ready[r][i] = u
        BY <3>2, <1>0, <1>3, <2>1 DEF QueueInv, ReadyIsSomewhere, Queued
      <4>2. PICK i \in DOMAIN k.ready[r] : k.ready[r][i] = u
        BY <4>1
      <4>3. CASE r = p
        <5>1. m.ready[r] = Append(q, t) /\ k.ready[r] = q
          BY <4>3, <2>5 DEF q
        <5>2. i \in DOMAIN m.ready[r] /\ m.ready[r][i] = u
          BY <5>1, <4>2, <2>2
        <5> QED BY <5>2 DEF Queued
      <4>4. CASE r # p
        BY <4>2, <4>4, <2>5 DEF Queued
      <4> QED BY <4>3, <4>4
    <3> QED BY <3>1, <3>2
  <2>10. ASSUME NEW u \in Thread, NEW r \in Prio, Queued(k, u, r) PROVE Queued(m, u, r)
    <3>1. PICK i \in DOMAIN k.ready[r] : k.ready[r][i] = u
      BY <2>10 DEF Queued
    <3>2. CASE r = p
      <4>1. m.ready[r] = Append(q, t) /\ k.ready[r] = q
        BY <3>2, <2>5 DEF q
      <4>2. i \in DOMAIN m.ready[r] /\ m.ready[r][i] = u
        BY <3>1, <4>1, <2>2
      <4> QED BY <4>2 DEF Queued
    <3>3. CASE r # p
      BY <3>1, <3>3, <2>5 DEF Queued
    <3> QED BY <3>2, <3>3
  <2> QED BY <1>2, <1>3, <2>6, <2>7, <2>8, <2>9, <2>10 DEF QueueInv, m
<1> QED BY <1>4, <1>5

\* Whoever was in a queue still is.
StillQueued(k, m) == \A u \in Thread, r \in Prio : Queued(k, u, r) => Queued(m, u, r)

\* What waking, pushing and popping leave alone.
SameThreads(k, m) ==
  /\ m.saved = k.saved /\ m.resume = k.resume /\ m.preempt = k.preempt
  /\ m.current = k.current /\ m.count = k.count /\ m.panic = k.panic

LEMMA WakeupKeepsQueues ==
  ASSUME NEW k \in KmtState, QueueInv(k), NEW t \in Thread,
         k.status[t] \notin {"READY", "RUNNING", "TERMINATED"}
  PROVE  LET m == kmt_wakeup_thread(k, t)
         IN  /\ m \in KmtState /\ QueueInv(m) /\ SameThreads(k, m)
             /\ m.status = [k.status EXCEPT ![t] = "READY"] /\ StillQueued(k, m)
<1> DEFINE p == k.priority[t]
           m == [kmt_queue_push(k, p, t)
                   EXCEPT !.bitmap = @ \cup {p}, !.status[t] = "READY"]
<1>1. p \in Prio
  BY DEF KmtState
<1>2. kmt_wakeup_thread(k, t) = m
  BY DEF kmt_wakeup_thread
<1> HIDE DEF p
<1>3. /\ m \in KmtState /\ QueueInv(m)
      /\ m.status = [k.status EXCEPT ![t] = "READY"]
      /\ m.saved = k.saved /\ m.resume = k.resume /\ m.preempt = k.preempt
      /\ m.current = k.current /\ m.count = k.count /\ m.panic = k.panic
      /\ \A u \in Thread, r \in Prio : Queued(k, u, r) => Queued(m, u, r)
  BY ZenonT(40), <1>1, MakeReady
<1> HIDE DEF m
<1> QED BY <1>2, <1>3 DEF SameThreads, StillQueued

LEMMA WakeIdleKeepsQueues ==
  ASSUME NEW k \in KmtState, QueueInv(k), NEW t \in Thread, k.status[t] # "READY"
  PROVE  LET m == WakeIdle(k, t)
         IN  /\ m \in KmtState /\ QueueInv(m) /\ SameThreads(k, m)
             /\ m.status = [k.status EXCEPT ![t] = "READY"] /\ StillQueued(k, m)
<1> DEFINE d == [k EXCEPT !.status[t] = "IDLE"]
<1>1. d \in KmtState /\ QueueInv(d)
  BY SetStatus DEF Status
<1>2. /\ d.status = [k.status EXCEPT ![t] = "IDLE"] /\ SameThreads(k, d)
      /\ d.status[t] = "IDLE" /\ d.ready = k.ready
  BY DEF KmtState, SameThreads
<1>3. WakeIdle(k, t) = kmt_wakeup_thread(d, t)
  BY DEF WakeIdle
<1>4. k.status \in [Thread -> Status]
  BY DEF KmtState
<1> HIDE DEF d
<1> DEFINE m == kmt_wakeup_thread(d, t)
<1>5. /\ m \in KmtState /\ QueueInv(m) /\ SameThreads(d, m)
      /\ m.status = [d.status EXCEPT ![t] = "READY"] /\ StillQueued(d, m)
  BY <1>1, <1>2, WakeupKeepsQueues
<1> HIDE DEF m
<1>6. m.status = [k.status EXCEPT ![t] = "READY"]
  BY <1>2, <1>4, <1>5
<1>7. SameThreads(k, m)
  BY <1>2, <1>5 DEF SameThreads
<1>8. StillQueued(k, m)
  BY <1>2, <1>5 DEF StillQueued, Queued
<1> QED BY <1>3, <1>5, <1>6, <1>7, <1>8 DEF m

\* Running the head of a queue.
LEMMA TailIs ==
  ASSUME NEW s \in Seq(Thread), s # << >>
  PROVE  /\ Head(s) = s[1] /\ 1 \in DOMAIN s /\ Head(s) \in Thread
         /\ Tail(s) \in Seq(Thread)
         /\ \A i \in DOMAIN Tail(s) : i + 1 \in DOMAIN s /\ Tail(s)[i] = s[i + 1] /\ i \in Nat /\ i > 0
         /\ \A i \in DOMAIN s : i = 1 \/ (i - 1 \in DOMAIN Tail(s) /\ Tail(s)[i - 1] = s[i])
<1>1. Len(s) \in Nat /\ Len(s) > 0 /\ DOMAIN s = 1 .. Len(s) /\ Head(s) = s[1] /\ Head(s) \in Thread
  OBVIOUS
<1>2. Tail(s) \in Seq(Thread) /\ Len(Tail(s)) = Len(s) - 1
  BY HeadTailProperties
<1>3. \A i \in 1 .. Len(Tail(s)) : Tail(s)[i] = s[i + 1]
  BY HeadTailProperties
<1>4. DOMAIN Tail(s) = 1 .. Len(s) - 1
  BY <1>2
<1> QED BY <1>1, <1>2, <1>3, <1>4

RunHeadOf(k, p) ==
  LET n == Head(k.ready[p])
  IN [kmt_queue_pop(k, p) EXCEPT !.current = n, !.status[n] = "RUNNING"]

LEMMA RunHead ==
  ASSUME NEW k \in KmtState, QueueInv(k), NEW p \in Prio, k.ready[p] # << >>
  PROVE  LET n == Head(k.ready[p])
             m == RunHeadOf(k, p)
         IN  /\ n \in Thread /\ k.status[n] = "READY"
             /\ m \in KmtState /\ QueueInv(m)
             /\ m.status = [k.status EXCEPT ![n] = "RUNNING"] /\ m.current = n
             /\ m.saved = k.saved /\ m.resume = k.resume /\ m.preempt = k.preempt
             /\ m.count = k.count /\ m.panic = k.panic
             /\ Queued(k, n, p) /\ \A r \in Prio : r # p => m.ready[r] = k.ready[r]
<1> DEFINE s == k.ready[p]
           n == Head(s)
           rest == Tail(s)
           m == RunHeadOf(k, p)
<1>0. /\ s \in Seq(Thread) /\ k.status \in [Thread -> Status]
      /\ k.ready \in [Prio -> Seq(Thread)]
      /\ k.tail \in [Prio -> {"null", "last", "stale"}]
      /\ k.lost \in SUBSET Thread /\ k.bitmap \in SUBSET Prio
      /\ \A r \in Prio : \A i \in DOMAIN k.ready[r] : k.ready[r][i] \in Thread
  BY QueuedIsThread DEF KmtState
<1>1. /\ n = s[1] /\ 1 \in DOMAIN s /\ n \in Thread /\ rest \in Seq(Thread)
      /\ \A i \in DOMAIN rest : i + 1 \in DOMAIN s /\ rest[i] = s[i + 1] /\ i \in Nat /\ i > 0
      /\ \A i \in DOMAIN s : i = 1 \/ (i - 1 \in DOMAIN rest /\ rest[i - 1] = s[i])
  BY <1>0, TailIs
<1>2. k.status[n] = "READY" /\ n \notin k.lost
  BY <1>1 DEF QueueInv, QueuesHoldReady
<1> DEFINE ready  == [k.ready EXCEPT ![p] = rest]
           tail   == [k.tail EXCEPT ![p] = IF rest = << >> THEN "null" ELSE @]
           bitmap == IF rest = << >> THEN k.bitmap \ {p} ELSE k.bitmap
           status == [k.status EXCEPT ![n] = "RUNNING"]
<1>3. /\ ready \in [Prio -> Seq(Thread)] /\ tail \in [Prio -> {"null", "last", "stale"}]
      /\ bitmap \in SUBSET Prio /\ status \in [Thread -> Status]
  BY <1>0, <1>1 DEF Status
<1>4. m = [k EXCEPT !.ready = ready, !.tail = tail, !.bitmap = bitmap,
                    !.current = n, !.status = status]
  BY DEF RunHeadOf, kmt_queue_pop, KmtState
<1>5. /\ \A r \in Prio : ready[r] = IF r = p THEN rest ELSE k.ready[r]
      /\ \A r \in Prio : tail[r] = IF r = p THEN (IF rest = << >> THEN "null" ELSE k.tail[p])
                                            ELSE k.tail[r]
      /\ \A t \in Thread : status[t] = IF t = n THEN "RUNNING" ELSE k.status[t]
  BY <1>0
<1>6. bitmap = IF rest = << >> THEN k.bitmap \ {p} ELSE k.bitmap
  OBVIOUS
<1>s. k.ready[p] = s
  OBVIOUS
<1> HIDE DEF m, n, s, rest, ready, tail, bitmap, status
<1>7. m \in KmtState
  BY <1>1, <1>3, <1>4 DEF KmtState
<1>8. /\ m.ready = ready /\ m.tail = tail /\ m.bitmap = bitmap /\ m.lost = k.lost
      /\ m.status = status /\ m.current = n
      /\ m.saved = k.saved /\ m.resume = k.resume /\ m.preempt = k.preempt
      /\ m.count = k.count /\ m.panic = k.panic
  BY <1>4 DEF KmtState
<1>9. \A r \in Prio : \A i \in DOMAIN ready[r] :
        /\ ready[r][i] # n /\ ready[r][i] \in Thread
        /\ r # p => i \in DOMAIN k.ready[r] /\ ready[r][i] = k.ready[r][i]
        /\ r = p => i + 1 \in DOMAIN k.ready[r] /\ ready[r][i] = k.ready[r][i + 1]
  <2> SUFFICES ASSUME NEW r \in Prio, NEW i \in DOMAIN ready[r]
               PROVE  /\ ready[r][i] # n /\ ready[r][i] \in Thread
                      /\ r # p => i \in DOMAIN k.ready[r] /\ ready[r][i] = k.ready[r][i]
                      /\ r = p => i + 1 \in DOMAIN k.ready[r] /\ ready[r][i] = k.ready[r][i + 1]
    OBVIOUS
  <2>1. CASE r # p
    <3>1. i \in DOMAIN k.ready[r] /\ ready[r][i] = k.ready[r][i]
      BY <2>1, <1>5
    <3>2. k.ready[p][1] = n /\ 1 \in DOMAIN k.ready[p]
      BY <1>s, <1>1
    <3> QED BY <2>1, <3>1, <3>2, <1>0 DEF QueueInv, QueuedOnce
  <2>2. CASE r = p
    <3>1. i \in DOMAIN rest /\ ready[r][i] = rest[i]
      BY <2>2, <1>5
    <3>2. i + 1 \in DOMAIN k.ready[r] /\ ready[r][i] = k.ready[r][i + 1] /\ i + 1 # 1
      BY <2>2, <3>1, <1>1, <1>s
    <3>3. k.ready[p][1] = n /\ 1 \in DOMAIN k.ready[p]
      BY <1>s, <1>1
    <3> QED BY <2>2, <3>2, <3>3, <1>0 DEF QueueInv, QueuedOnce
  <2> QED BY <2>1, <2>2
<1>10. QueuesHoldReady(m)
  <2> SUFFICES ASSUME NEW r \in Prio, NEW i \in DOMAIN ready[r]
               PROVE  status[ready[r][i]] = "READY" /\ ready[r][i] \notin k.lost
    BY <1>8 DEF QueuesHoldReady
  <2>1. \E j \in DOMAIN k.ready[r] : ready[r][i] = k.ready[r][j]
    BY <1>9
  <2>2. k.status[ready[r][i]] = "READY" /\ ready[r][i] \notin k.lost
    BY <2>1 DEF QueueInv, QueuesHoldReady
  <2> QED BY <2>2, <1>5, <1>9
<1>14. LostAreReady(m)
  BY <1>0, <1>2, <1>5, <1>8 DEF QueueInv, LostAreReady
<1>11. QueuedOnce(m)
  <2> SUFFICES ASSUME NEW q \in Prio, NEW r \in Prio,
                      NEW i \in DOMAIN ready[q], NEW j \in DOMAIN ready[r],
                      ready[q][i] = ready[r][j]
               PROVE  q = r /\ i = j
    BY <1>8 DEF QueuedOnce
  <2>1. CASE q = p /\ r = p
    <3>1. i \in DOMAIN rest /\ j \in DOMAIN rest
      BY <2>1, <1>5
    <3>2. i \in Nat /\ j \in Nat
      BY <3>1, <1>1
    <3> QED BY <2>1, <3>2, <1>9 DEF QueueInv, QueuedOnce
  <2>2. CASE q # p \/ r # p
    BY <2>2, <1>9 DEF QueueInv, QueuedOnce
  <2> QED BY <2>1, <2>2
<1>12. BitsMatchQueues(m)
  <2> SUFFICES ASSUME NEW r \in Prio
               PROVE  /\ r \in bitmap <=> ready[r] # << >>
                      /\ tail[r] = "null" <=> ready[r] = << >>
    BY <1>8 DEF BitsMatchQueues
  <2>1. /\ r \in k.bitmap <=> k.ready[r] # << >>
        /\ k.tail[r] = "null" <=> k.ready[r] = << >>
    BY DEF QueueInv, BitsMatchQueues
  <2> QED BY <2>1, <1>5, <1>6
<1>13. ReadyIsSomewhere(m)
  <2> SUFFICES ASSUME NEW u \in Thread, status[u] = "READY", u \notin k.lost
               PROVE  \E r \in Prio : Queued(m, u, r)
    BY <1>8 DEF ReadyIsSomewhere
  <2>1. u # n /\ k.status[u] = "READY"
    BY <1>5
  <2>2. PICK r \in Prio : \E i \in DOMAIN k.ready[r] : k.ready[r][i] = u
    BY <2>1 DEF QueueInv, ReadyIsSomewhere, Queued
  <2>3. PICK i \in DOMAIN k.ready[r] : k.ready[r][i] = u
    BY <2>2
  <2>4. CASE r # p
    BY <2>3, <2>4, <1>5, <1>8 DEF Queued
  <2>5. CASE r = p
    <3>1. i - 1 \in DOMAIN rest /\ rest[i - 1] = u
      BY <2>1, <2>3, <2>5, <1>1, <1>s
    <3>2. i - 1 \in DOMAIN m.ready[r] /\ m.ready[r][i - 1] = u
      BY <2>5, <3>1, <1>5, <1>8
    <3> QED BY <3>2 DEF Queued
  <2> QED BY <2>4, <2>5
<1>15. Queued(k, n, p) /\ \A r \in Prio : r # p => m.ready[r] = k.ready[r]
  BY <1>1, <1>5, <1>8, <1>s DEF Queued
<1> QED BY <1>1, <1>2, <1>7, <1>8, <1>10, <1>11, <1>12, <1>13, <1>14, <1>15
        DEF QueueInv, m, n, s, status

-----------------------------------------------------------------------------
(* Suspending the current thread and running the next one.                 *)

\* The saved preemption flags of a thread: on below its outermost scope, off
\* below the others.
StackOK(s) == \A i \in DOMAIN s : s[i] <=> i = 1

\* A thread that does not run continues with the flag it saved, unless it has
\* not started; for the one that runs, the flag in force is the next to save.
ScopeInv(k) ==
  /\ \A t \in Thread : StackOK(k.saved[t])
  /\ \A t \in Thread : t # k.current => (k.resume[t] = "fresh" <=> k.saved[t] = << >>)
  /\ k.preempt <=> k.saved[k.current] = << >>

Uncreated(k) == \A t \in Thread : t >= k.count => k.status[t] = "TERMINATED"

KernelInv(k) == QueueInv(k) /\ OnlyCurrentRuns(k) /\ Uncreated(k) /\ ScopeInv(k)

\* How many STOP_PREEMPTING scopes of its own a thread is in: the last flag of
\* a thread that does not run is the one kmt_schedule saved.
Nested(s) == IF s = << >> THEN 0 ELSE Len(s) - 1
OpenScopes(k, t) == IF t = k.current THEN Len(k.saved[t]) ELSE Nested(k.saved[t])
SameScopes(k, m) == \A t \in Thread : OpenScopes(m, t) = OpenScopes(k, t)

LEMMA FieldTypes ==
  ASSUME NEW k \in KmtState
  PROVE  /\ k.status \in [Thread -> Status] /\ k.current \in Thread
         /\ k.count \in Nat /\ k.count >= 1 /\ k.count <= MaxThreads
         /\ \A t \in Thread : t \in Nat
<1>1. k.status \in [Thread -> Status] /\ k.current \in Thread /\ k.count \in 1 .. MaxThreads
  BY DEF KmtState
<1>2. MaxThreads \in Nat
  BY KmtAssumption
<1>3. \A t \in Thread : t \in Nat
  BY <1>2 DEF Thread
<1> QED BY <1>1, <1>2, <1>3

LEMMA PushFlag ==
  ASSUME NEW s \in Seq(BOOLEAN), NEW b \in BOOLEAN, StackOK(s), b <=> s = << >>
  PROVE  /\ Append(s, b) \in Seq(BOOLEAN) /\ StackOK(Append(s, b)) /\ Append(s, b) # << >>
         /\ Len(Append(s, b)) = Len(s) + 1 /\ Len(s) \in Nat
<1>1. Len(s) \in Nat /\ DOMAIN s = 1 .. Len(s) /\ (s = << >> <=> Len(s) = 0)
  OBVIOUS
<1>2. /\ Append(s, b) \in Seq(BOOLEAN) /\ Len(Append(s, b)) = Len(s) + 1
      /\ \A i \in 1 .. Len(s) : Append(s, b)[i] = s[i]
      /\ Append(s, b)[Len(s) + 1] = b
  BY AppendProperties
<1> DEFINE a == Append(s, b)
<1> HIDE DEF a
<1>3. DOMAIN a = 1 .. Len(s) + 1 /\ a # << >>
  BY <1>1, <1>2 DEF a
<1>4. ASSUME NEW i \in DOMAIN a PROVE a[i] <=> i = 1
  <2>1. CASE i \in 1 .. Len(s)
    BY <1>1, <1>2, <2>1 DEF StackOK, a
  <2>2. CASE i = Len(s) + 1
    <3>1. a[i] = b
      BY <1>2, <2>2 DEF a
    <3> QED BY <1>1, <2>2, <3>1
  <2> QED BY <1>1, <1>3, <2>1, <2>2
<1> QED BY <1>1, <1>2, <1>3, <1>4 DEF StackOK, a

LEMMA PopFlag ==
  ASSUME NEW s \in Seq(BOOLEAN), s # << >>, StackOK(s)
  PROVE  /\ Front(s) \in Seq(BOOLEAN) /\ StackOK(Front(s))
         /\ Last(s) \in BOOLEAN /\ (Last(s) <=> Front(s) = << >>)
         /\ Len(Front(s)) = Len(s) - 1 /\ Len(s) \in Nat
<1>1. Len(s) \in Nat /\ DOMAIN s = 1 .. Len(s) /\ Len(s) > 0
  OBVIOUS
<1>2. Last(s) = s[Len(s)] /\ s[Len(s)] \in BOOLEAN
  BY <1>1 DEF Last
<1> DEFINE f == SubSeq(s, 1, Len(s) - 1)
<1>3. f \in Seq(BOOLEAN) /\ Len(f) = Len(s) - 1 /\ \A i \in 1 .. Len(s) - 1 : f[i] = s[i]
  BY <1>1
<1>4. Front(s) = f
  BY DEF Front
<1> HIDE DEF f
<1>5. DOMAIN f = 1 .. Len(s) - 1 /\ (f = << >> <=> Len(s) = 1)
  BY <1>1, <1>3
<1>6. StackOK(f)
  BY <1>1, <1>3, <1>5 DEF StackOK
<1>7. s[Len(s)] <=> Len(s) = 1
  BY <1>1 DEF StackOK
<1> QED BY <1>1, <1>2, <1>3, <1>4, <1>5, <1>6, <1>7

\* QueueInv looks at five fields only.
LEMMA QueueFields ==
  ASSUME NEW k, NEW m, QueueInv(k), m.status = k.status, m.ready = k.ready,
         m.tail = k.tail, m.bitmap = k.bitmap, m.lost = k.lost
  PROVE  QueueInv(m)
BY DEF QueueInv, QueuesHoldReady, QueuedOnce, ReadyIsSomewhere, BitsMatchQueues,
       LostAreReady, Queued

\* The kernel between retiring a thread and running the next: nobody runs.
Retired(k) ==
  /\ QueueInv(k) /\ Uncreated(k) /\ ScopeInv(k)
  /\ \A t \in Thread : k.status[t] # "RUNNING"

\* The next thread was taken from the highest queue that had one.
PickedHighest(k, m) ==
  \A q \in Prio : Queued(k, m.current, q) => \A p \in Prio : p > q => m.ready[p] = << >>

\* The statuses of threads that neither run nor wait for the processor.
Blocked == Status \ {"READY", "RUNNING"}
SameBlocked(k, m) ==
  \A t \in Thread, s \in Blocked : m.status[t] = s <=> k.status[t] = s

LEMMA SuspendIs ==
  ASSUME NEW k \in KmtState, Retired(k), NEW how \in {"call", "irq"}
  PROVE  LET m == Suspend(k, how) IN
         /\ m \in KmtState /\ QueueInv(m)
         /\ m.status = k.status /\ m.count = k.count /\ m.panic = k.panic
         /\ m.bitmap = k.bitmap /\ m.ready = k.ready
         /\ \A t \in Thread : StackOK(m.saved[t])
         /\ \A t \in Thread : m.resume[t] = "fresh" <=> m.saved[t] = << >>
         /\ \A t \in Thread : Nested(m.saved[t]) = OpenScopes(k, t)
<1> DEFINE m == Suspend(k, how)
           c == k.current
           flags == Append(k.saved[c], k.preempt)
<1>0. /\ c \in Thread /\ k.saved \in [Thread -> Seq(BOOLEAN)] /\ k.preempt \in BOOLEAN
      /\ k.resume \in [Thread -> {"fresh", "call", "irq"}] /\ k.saved[c] \in Seq(BOOLEAN)
  BY DEF KmtState
<1>1. /\ flags \in Seq(BOOLEAN) /\ StackOK(flags) /\ flags # << >>
      /\ Len(flags) = Len(k.saved[c]) + 1 /\ Len(k.saved[c]) \in Nat
  BY <1>0, PushFlag DEF Retired, ScopeInv
<1>2. m = [k EXCEPT !.saved = [k.saved EXCEPT ![c] = flags],
                    !.resume = [k.resume EXCEPT ![c] = how]]
  BY DEF Suspend, KmtState
<1> HIDE DEF m, c, flags
<1> DEFINE saved == [k.saved EXCEPT ![c] = flags]
           resume == [k.resume EXCEPT ![c] = how]
<1>3. saved \in [Thread -> Seq(BOOLEAN)] /\ resume \in [Thread -> {"fresh", "call", "irq"}]
  BY <1>0, <1>1
<1>4. /\ \A t \in Thread : saved[t] = IF t = c THEN flags ELSE k.saved[t]
      /\ \A t \in Thread : resume[t] = IF t = c THEN how ELSE k.resume[t]
  BY <1>0
<1> HIDE DEF saved, resume
<1>5. m \in KmtState
  BY <1>2, <1>3 DEF KmtState, saved, resume
<1>6. /\ m.saved = saved /\ m.resume = resume /\ m.status = k.status /\ m.count = k.count
      /\ m.panic = k.panic /\ m.bitmap = k.bitmap /\ m.ready = k.ready
      /\ m.tail = k.tail /\ m.lost = k.lost
  BY <1>2 DEF KmtState, saved, resume
<1>7. QueueInv(m)
  BY <1>6, QueueFields DEF Retired
<1>8. \A t \in Thread : StackOK(m.saved[t]) /\ (m.resume[t] = "fresh" <=> m.saved[t] = << >>)
  BY <1>1, <1>4, <1>6 DEF Retired, ScopeInv, c
<1>9. \A t \in Thread : Nested(m.saved[t]) = OpenScopes(k, t)
  BY <1>1, <1>4, <1>6 DEF Nested, OpenScopes, c
<1> QED BY <1>5, <1>6, <1>7, <1>8, <1>9 DEF m

\* Switching in thread n, which has just been made current.
LEMMA SwitchInKeeps ==
  ASSUME NEW k \in KmtState, QueueInv(k), OnlyCurrentRuns(k), Uncreated(k),
         \A t \in Thread : StackOK(k.saved[t]),
         \A t \in Thread : k.resume[t] = "fresh" <=> k.saved[t] = << >>
  PROVE  LET m == SwitchIn(k)
         IN  /\ m \in KmtState /\ KernelInv(m) /\ m.panic = k.panic /\ m.status = k.status
             /\ m.count = k.count /\ m.current = k.current /\ m.ready = k.ready
             /\ \A t \in Thread : OpenScopes(m, t) = Nested(k.saved[t])
<1> DEFINE m == SwitchIn(k)
           n == k.current
<1>0. /\ n \in Thread /\ k.saved \in [Thread -> Seq(BOOLEAN)] /\ k.saved[n] \in Seq(BOOLEAN)
      /\ k.irqOn \in BOOLEAN /\ k.inService \in BOOLEAN
  BY DEF KmtState
<1>1. CASE k.resume[n] = "fresh"
  <2>1. m = [k EXCEPT !.preempt = TRUE]
    BY <1>1 DEF SwitchIn
  <2>2. /\ m \in KmtState
        /\ m.status = k.status /\ m.ready = k.ready /\ m.tail = k.tail /\ m.bitmap = k.bitmap
        /\ m.lost = k.lost /\ m.panic = k.panic /\ m.count = k.count /\ m.current = n
        /\ m.saved = k.saved /\ m.resume = k.resume /\ m.preempt = TRUE
    BY <2>1 DEF KmtState
  <2> HIDE DEF m, n
  <2>3. QueueInv(m)
    BY <2>2, QueueFields
  <2>4. OnlyCurrentRuns(m) /\ Uncreated(m)
    BY <2>2 DEF OnlyCurrentRuns, Uncreated, n
  <2>5. ScopeInv(m)
    BY <1>0, <1>1, <2>2 DEF ScopeInv
  <2>6. k.saved[n] = << >> /\ Len(k.saved[n]) = 0
    BY <1>0, <1>1
  <2>7. \A t \in Thread : OpenScopes(m, t) = Nested(k.saved[t])
    BY <2>2, <2>6 DEF OpenScopes, Nested
  <2> QED BY <2>2, <2>3, <2>4, <2>5, <2>7 DEF KernelInv, m, n
<1>2. CASE k.resume[n] # "fresh"
  <2> DEFINE flag == Last(k.saved[n])
             rest == Front(k.saved[n])
             saved == [k.saved EXCEPT ![n] = rest]
             on == k.irqOn \/ k.resume[n] = "irq"
             busy == k.inService /\ k.resume[n] # "irq"
  <2>1. /\ rest \in Seq(BOOLEAN) /\ StackOK(rest) /\ flag \in BOOLEAN
        /\ flag <=> rest = << >>
        /\ Len(rest) = Len(k.saved[n]) - 1 /\ k.saved[n] # << >>
    BY <1>0, <1>2, PopFlag
  <2>2. m = [k EXCEPT !.preempt = flag, !.saved = saved, !.irqOn = on, !.inService = busy]
    BY <1>2 DEF SwitchIn, KmtState
  <2>3. saved \in [Thread -> Seq(BOOLEAN)] /\ on \in BOOLEAN /\ busy \in BOOLEAN
    BY <1>0, <2>1
  <2>4. \A t \in Thread : saved[t] = IF t = n THEN rest ELSE k.saved[t]
    BY <1>0
  <2> HIDE DEF m, n, flag, rest, saved, on, busy
  <2>5. /\ m \in KmtState
        /\ m.status = k.status /\ m.ready = k.ready /\ m.tail = k.tail /\ m.bitmap = k.bitmap
        /\ m.lost = k.lost /\ m.panic = k.panic /\ m.count = k.count /\ m.current = k.current
        /\ m.saved = saved /\ m.resume = k.resume /\ m.preempt = flag
    BY <2>1, <2>2, <2>3 DEF KmtState
  <2>6. QueueInv(m)
    BY <2>5, QueueFields
  <2>7. OnlyCurrentRuns(m) /\ Uncreated(m)
    BY <2>5 DEF OnlyCurrentRuns, Uncreated
  <2>8. ScopeInv(m)
    BY <1>0, <2>1, <2>4, <2>5 DEF ScopeInv, n
  <2>9. \A t \in Thread : OpenScopes(m, t) = Nested(k.saved[t])
    BY <2>1, <2>4, <2>5 DEF OpenScopes, Nested, n
  <2> QED BY <2>5, <2>6, <2>7, <2>8, <2>9 DEF KernelInv, m
<1> QED BY <1>1, <1>2

LEMMA SuspendDispatch ==
  ASSUME NEW k \in KmtState, Retired(k), k.panic = "none", NEW how \in {"call", "irq"}
  PROVE  LET m == Dispatch(Suspend(k, how))
         IN  /\ m \in KmtState /\ m.panic \in {"none", "bitmap is zero"}
             /\ m.panic = "none" => KernelInv(m) /\ SameScopes(k, m) /\ PickedHighest(k, m)
             /\ SameBlocked(k, m) /\ m.count = k.count
<1> DEFINE s == Suspend(k, how)
           m == Dispatch(s)
<1>1. /\ s \in KmtState /\ QueueInv(s)
      /\ s.status = k.status /\ s.count = k.count /\ s.panic = "none" /\ s.ready = k.ready
      /\ \A t \in Thread : StackOK(s.saved[t])
      /\ \A t \in Thread : s.resume[t] = "fresh" <=> s.saved[t] = << >>
      /\ \A t \in Thread : Nested(s.saved[t]) = OpenScopes(k, t)
  BY SuspendIs
<1> HIDE DEF s
<1>2. CASE s.bitmap = {}
  <2>1. m = [s EXCEPT !.panic = "bitmap is zero"]
    BY <1>2 DEF Dispatch, Halt
  <2>2. m \in KmtState /\ m.panic = "bitmap is zero" /\ m.status = k.status /\ m.count = k.count
    BY <1>1, <2>1 DEF KmtState
  <2> QED BY <2>2 DEF SameBlocked, s
<1>3. CASE s.bitmap # {}
  <2> DEFINE p == Max(s.bitmap)
             n == Head(s.ready[p])
             d == RunHeadOf(s, p)
  <2>0. s.bitmap \in SUBSET Prio
    BY <1>1 DEF KmtState
  <2>1. p \in Prio /\ p \in s.bitmap /\ \A q \in s.bitmap : p >= q
    BY <1>3, <2>0, HighestBit
  <2>2. s.ready[p] # << >>
    BY <1>1, <2>1 DEF QueueInv, BitsMatchQueues
  <2> HIDE DEF p
  <2>3. /\ n \in Thread /\ s.status[n] = "READY"
        /\ d \in KmtState /\ QueueInv(d)
        /\ d.status = [s.status EXCEPT ![n] = "RUNNING"] /\ d.current = n
        /\ d.saved = s.saved /\ d.resume = s.resume /\ d.preempt = s.preempt
        /\ d.count = s.count /\ d.panic = s.panic
        /\ Queued(s, n, p) /\ \A r \in Prio : r # p => d.ready[r] = s.ready[r]
    BY <1>1, <2>1, <2>2, RunHead
  <2>4. m = SwitchIn(d)
    BY <1>3, <2>2, <2>3 DEF Dispatch, RunHeadOf, p
  <2>5. s.status \in [Thread -> Status] /\ s.count \in Nat /\ \A t \in Thread : t \in Nat
    BY <1>1, FieldTypes
  <2> HIDE DEF d, n, m
  <2>6. OnlyCurrentRuns(d)
    BY <1>1, <2>3, <2>5 DEF Retired, OnlyCurrentRuns
  <2>7. Uncreated(d)
    BY <1>1, <2>3, <2>5 DEF Retired, Uncreated
  <2>8. /\ m \in KmtState /\ KernelInv(m) /\ m.panic = d.panic /\ m.status = d.status
        /\ m.count = d.count /\ m.current = n /\ m.ready = d.ready
        /\ \A t \in Thread : OpenScopes(m, t) = Nested(d.saved[t])
    BY <1>1, <2>3, <2>4, <2>6, <2>7, SwitchInKeeps
  <2>9. SameBlocked(k, m)
    BY <1>1, <2>3, <2>5, <2>8 DEF SameBlocked, Blocked
  <2>10. SameScopes(k, m) /\ m.count = k.count
    BY <1>1, <2>3, <2>8 DEF SameScopes
  <2>11. PickedHighest(k, m)
    <3> SUFFICES ASSUME NEW q \in Prio, Queued(k, n, q), NEW r \in Prio, r > q
                 PROVE  m.ready[r] = << >>
      BY <2>8 DEF PickedHighest
    <3>1. QueuedOnce(s) /\ Queued(s, n, q) /\ Queued(s, n, p)
      BY <1>1, <2>3 DEF QueueInv, Queued
    <3>2. q = p
      BY <3>1, <2>1 DEF QueuedOnce, Queued
    <3>3. q \in Nat /\ r \in Nat
      BY KmtAssumption DEF Prio
    <3>4. r \notin s.bitmap /\ r # p
      BY <2>1, <3>2, <3>3
    <3>5. s.ready[r] = << >>
      BY <1>1, <3>4 DEF QueueInv, BitsMatchQueues
    <3> QED BY <2>3, <2>8, <3>4, <3>5
  <2> QED BY <1>1, <2>3, <2>8, <2>9, <2>10, <2>11 DEF m, s
<1> QED BY <1>2, <1>3

\* Retiring the current thread, with any status but RUNNING.
LEMMA RetireKeeps ==
  ASSUME NEW k \in KmtState, KernelInv(k), NEW new \in Status \ {"RUNNING"}
  PROVE  LET m == Retire(k, new)
         IN  /\ m \in KmtState /\ Retired(m) /\ m.panic = k.panic
             /\ m.saved = k.saved /\ m.current = k.current /\ m.count = k.count
             /\ StillQueued(k, m)
             /\ \A t \in Thread : m.status[t] = IF t = k.current THEN new ELSE k.status[t]
<1> DEFINE m == Retire(k, new)
           c == k.current
<1>0. /\ c \in Thread /\ k.status \in [Thread -> Status] /\ k.status[c] = "RUNNING"
      /\ QueueInv(k) /\ \A t \in Thread : t # c => k.status[t] # "RUNNING"
  BY DEF KmtState, KernelInv, OnlyCurrentRuns
<1>1. /\ m \in KmtState /\ QueueInv(m) /\ SameThreads(k, m)
      /\ m.status = [k.status EXCEPT ![c] = new] /\ StillQueued(k, m)
  <2>1. CASE new = "READY"
    <3> DEFINE b == [k EXCEPT !.age[c] = 0, !.priority[c] = k.base[c]]
    <3>1. /\ b \in KmtState
          /\ b.status = k.status /\ b.ready = k.ready /\ b.tail = k.tail
          /\ b.bitmap = k.bitmap /\ b.lost = k.lost /\ SameThreads(k, b)
      BY <1>0 DEF KmtState, SameThreads
    <3>2. m = WakeIdle(b, c)
      BY <1>0, <2>1 DEF Retire
    <3> HIDE DEF m, b, c
    <3>3. QueueInv(b)
      BY <1>0, <3>1, QueueFields
    <3>4. /\ m \in KmtState /\ QueueInv(m) /\ SameThreads(b, m)
          /\ m.status = [b.status EXCEPT ![c] = "READY"] /\ StillQueued(b, m)
      BY <1>0, <3>1, <3>2, <3>3, WakeIdleKeepsQueues
    <3>5. StillQueued(k, m)
      BY <3>1, <3>4 DEF StillQueued, Queued
    <3> QED BY <2>1, <3>1, <3>4, <3>5 DEF SameThreads
  <2>2. CASE new # "READY"
    <3>1. m = [k EXCEPT !.status[c] = new]
      BY <1>0, <2>2 DEF Retire
    <3>2. m.status = [k.status EXCEPT ![c] = new] /\ SameThreads(k, m) /\ StillQueued(k, m)
      BY <3>1 DEF KmtState, SameThreads, StillQueued, Queued
    <3> QED BY <1>0, <2>2, <3>1, <3>2, SetStatus
  <2> QED BY <2>1, <2>2
<1> HIDE DEF m
<1>2. \A t \in Thread : m.status[t] = IF t = c THEN new ELSE k.status[t]
  BY <1>0, <1>1
<1>3. /\ m.saved = k.saved /\ m.resume = k.resume /\ m.preempt = k.preempt
      /\ m.current = k.current /\ m.count = k.count /\ m.panic = k.panic
  BY <1>1 DEF SameThreads
<1>4. c < k.count
  <2>1. c \in Nat /\ k.count \in Nat
    BY <1>0, FieldTypes
  <2> QED BY <1>0, <2>1 DEF KernelInv, Uncreated
<1>5. Uncreated(m)
  <2>1. c \in Nat /\ k.count \in Nat /\ \A t \in Thread : t \in Nat
    BY <1>0, FieldTypes
  <2> QED BY <1>2, <1>3, <1>4, <2>1 DEF KernelInv, Uncreated
<1>6. ScopeInv(m)
  BY <1>3 DEF KernelInv, ScopeInv
<1>7. \A t \in Thread : m.status[t] # "RUNNING"
  BY <1>0, <1>2
<1> QED BY <1>1, <1>2, <1>3, <1>5, <1>6, <1>7 DEF Retired, m

-----------------------------------------------------------------------------
(* The functions threads and the timer handler call.                       *)

\* Opening and leaving a scope changes the flags of the current thread only.
OnlyFlags(k, m) ==
  /\ m.status = k.status /\ m.ready = k.ready /\ m.bitmap = k.bitmap /\ m.lost = k.lost
  /\ m.tail = k.tail /\ m.resume = k.resume
  /\ m.current = k.current /\ m.count = k.count /\ m.panic = k.panic

LEMMA SetFlagsKeeps ==
  ASSUME NEW k \in KmtState, KernelInv(k), NEW f \in Seq(BOOLEAN), NEW b \in BOOLEAN,
         StackOK(f), b <=> f = << >>
  PROVE  LET m == [k EXCEPT !.saved[k.current] = f, !.preempt = b]
         IN  /\ m \in KmtState /\ KernelInv(m) /\ OnlyFlags(k, m)
             /\ \A t \in Thread : m.saved[t] = IF t = k.current THEN f ELSE k.saved[t]
<1> DEFINE c == k.current
           saved == [k.saved EXCEPT ![c] = f]
           m == [k EXCEPT !.saved[k.current] = f, !.preempt = b]
<1>1. c \in Thread /\ k.saved \in [Thread -> Seq(BOOLEAN)]
  BY DEF KmtState
<1>2. /\ saved \in [Thread -> Seq(BOOLEAN)]
      /\ \A t \in Thread : saved[t] = IF t = c THEN f ELSE k.saved[t]
  BY <1>1
<1>3. m = [k EXCEPT !.saved = saved, !.preempt = b]
  BY DEF KmtState
<1> HIDE DEF saved, m
<1>4. m \in KmtState /\ OnlyFlags(k, m) /\ m.saved = saved /\ m.preempt = b
  BY <1>2, <1>3 DEF KmtState, OnlyFlags
<1>5. QueueInv(m)
  BY <1>4, QueueFields DEF KernelInv, OnlyFlags
<1>6. ScopeInv(m)
  BY <1>1, <1>2, <1>4 DEF KernelInv, ScopeInv, OnlyFlags
<1>7. OnlyCurrentRuns(m) /\ Uncreated(m)
  BY <1>4 DEF KernelInv, OnlyFlags, OnlyCurrentRuns, Uncreated
<1> QED BY <1>2, <1>4, <1>5, <1>6, <1>7 DEF KernelInv, m

LEMMA StopPreemptingKeeps ==
  ASSUME NEW k \in KmtState, KernelInv(k)
  PROVE  LET m == StopPreempting(k)
         IN  /\ m \in KmtState /\ KernelInv(m) /\ OnlyFlags(k, m)
             /\ \A t \in Thread :
                  OpenScopes(m, t) = IF t = k.current THEN OpenScopes(k, t) + 1
                                                      ELSE OpenScopes(k, t)
<1> DEFINE c == k.current
           s == k.saved[c]
           f == Append(s, k.preempt)
           m == [k EXCEPT !.saved[c] = f, !.preempt = FALSE]
<1>1. /\ c \in Thread /\ s \in Seq(BOOLEAN) /\ k.preempt \in BOOLEAN /\ StackOK(s)
      /\ k.preempt <=> s = << >>
  BY DEF KmtState, KernelInv, ScopeInv
<1>2. StopPreempting(k) = m
  BY DEF StopPreempting, KmtState
<1> HIDE DEF s
<1>3. f \in Seq(BOOLEAN) /\ StackOK(f) /\ f # << >> /\ Len(f) = Len(s) + 1 /\ Len(s) \in Nat
  BY <1>1, PushFlag
<1> HIDE DEF f
<1>4. /\ m \in KmtState /\ KernelInv(m) /\ OnlyFlags(k, m)
      /\ \A t \in Thread : m.saved[t] = IF t = c THEN f ELSE k.saved[t]
  BY <1>3, SetFlagsKeeps
<1> HIDE DEF m
<1>5. \A t \in Thread :
        OpenScopes(m, t) = IF t = c THEN OpenScopes(k, t) + 1 ELSE OpenScopes(k, t)
  BY <1>1, <1>3, <1>4 DEF OpenScopes, Nested, OnlyFlags, s
<1> QED BY <1>2, <1>4, <1>5

LEMMA RestoreFlagsKeeps ==
  ASSUME NEW k \in KmtState, KernelInv(k), k.saved[k.current] # << >>
  PROVE  LET m == RestoreFlags(k)
         IN  /\ m \in KmtState /\ KernelInv(m) /\ OnlyFlags(k, m)
             /\ \A t \in Thread : t # k.current => OpenScopes(m, t) = OpenScopes(k, t)
<1> DEFINE c == k.current
           s == k.saved[c]
           f == Front(s)
           b == Last(s)
           m == [k EXCEPT !.saved[c] = f, !.preempt = b]
<1>1. c \in Thread /\ s \in Seq(BOOLEAN) /\ StackOK(s) /\ s # << >>
  BY DEF KmtState, KernelInv, ScopeInv
<1>2. RestoreFlags(k) = m
  BY DEF RestoreFlags, KmtState
<1> HIDE DEF s
<1>3. f \in Seq(BOOLEAN) /\ StackOK(f) /\ b \in BOOLEAN /\ (b <=> f = << >>)
  BY <1>1, PopFlag
<1> HIDE DEF f, b
<1>4. /\ m \in KmtState /\ KernelInv(m) /\ OnlyFlags(k, m)
      /\ \A t \in Thread : m.saved[t] = IF t = c THEN f ELSE k.saved[t]
  BY <1>3, SetFlagsKeeps
<1> HIDE DEF m
<1>5. \A t \in Thread : t # c => OpenScopes(m, t) = OpenScopes(k, t)
  BY <1>4 DEF OpenScopes, OnlyFlags
<1> QED BY <1>2, <1>4, <1>5

\* Who is blocked, and in what, after the current thread went to status new.
BlockedAfter(k, new, m) ==
  \A t \in Thread, s \in Blocked :
    m.status[t] = s <=> (IF t = k.current THEN new ELSE k.status[t]) = s

\* kmt_schedule never pops an empty queue nor meets a thread that is not
\* ready, and leaves a consistent state if it finds a thread to run.
LEMMA ScheduleKeeps ==
  ASSUME NEW k \in KmtState, KernelInv(k), k.panic = "none",
         NEW new \in Status \ {"RUNNING"}, NEW how \in {"call", "irq"}
  PROVE  LET m == kmt_schedule(k, new, how)
         IN  /\ m \in KmtState /\ m.panic \in {"none", "bitmap is zero"}
             /\ m.panic = "none" => KernelInv(m) /\ SameScopes(k, m) /\ PickedHighest(k, m)
             /\ BlockedAfter(k, new, m) /\ m.count = k.count
<1> DEFINE r == Retire(k, new)
           m == Dispatch(Suspend(r, how))
<1>1. /\ r \in KmtState /\ Retired(r) /\ r.panic = "none"
      /\ r.saved = k.saved /\ r.current = k.current /\ r.count = k.count
      /\ StillQueued(k, r)
      /\ \A t \in Thread : r.status[t] = IF t = k.current THEN new ELSE k.status[t]
  BY RetireKeeps
<1> HIDE DEF r
<1>2. /\ m \in KmtState /\ m.panic \in {"none", "bitmap is zero"}
      /\ m.panic = "none" => KernelInv(m) /\ SameScopes(r, m) /\ PickedHighest(r, m)
      /\ SameBlocked(r, m) /\ m.count = r.count
  BY <1>1, SuspendDispatch
<1>3. m = kmt_schedule(k, new, how)
  BY DEF kmt_schedule, r
<1> HIDE DEF m
<1>4. SameScopes(r, m) => SameScopes(k, m)
  BY <1>1 DEF SameScopes, OpenScopes
<1>5. BlockedAfter(k, new, m)
  BY ZenonT(40), <1>1, <1>2 DEF SameBlocked, BlockedAfter
<1>6. m.panic = "none" => PickedHighest(k, m)
  BY <1>1, <1>2, FieldTypes DEF PickedHighest, StillQueued
<1> QED BY <1>1, <1>2, <1>3, <1>4, <1>5, <1>6

LEMMA KillKeeps ==
  ASSUME NEW k \in KmtState, KernelInv(k), k.panic = "none"
  PROVE  LET m == kmt_kill_current_thread(k)
         IN  /\ m \in KmtState /\ m.panic \in {"none", "bitmap is zero"}
             /\ m.panic = "none" => KernelInv(m) /\ SameScopes(k, m) /\ PickedHighest(k, m)
             /\ BlockedAfter(k, "TERMINATED", m) /\ m.count = k.count
<1> DEFINE c == k.current
           r == [k EXCEPT !.status[c] = "TERMINATED"]
           m == Dispatch(Suspend(r, "call"))
<1>0. /\ c \in Thread /\ k.status \in [Thread -> Status] /\ k.status[c] = "RUNNING"
      /\ QueueInv(k) /\ \A t \in Thread : t # c => k.status[t] # "RUNNING"
  BY FieldTypes DEF KernelInv, OnlyCurrentRuns
<1>1. r \in KmtState /\ QueueInv(r)
  BY <1>0, SetStatus DEF Status
<1>2. SameThreads(k, r) /\ r.status = [k.status EXCEPT ![c] = "TERMINATED"] /\ r.ready = k.ready
  BY DEF KmtState, SameThreads
<1>3. r.status[r.current] = "TERMINATED"
  BY <1>0, <1>2 DEF SameThreads
<1>4. kmt_kill_current_thread(k) = m
  BY <1>3 DEF kmt_kill_current_thread, kmt_schedule, Retire
<1> HIDE DEF r, m, c
<1>5. Retired(r)
  <2>1. \A t \in Thread : r.status[t] = IF t = c THEN "TERMINATED" ELSE k.status[t]
    BY <1>0, <1>2
  <2>2. Uncreated(r)
    BY <1>2, <2>1 DEF KernelInv, Uncreated, SameThreads
  <2>3. ScopeInv(r)
    BY <1>2 DEF KernelInv, ScopeInv, SameThreads
  <2> QED BY <1>0, <1>1, <2>1, <2>2, <2>3 DEF Retired
<1>6. /\ m \in KmtState /\ m.panic \in {"none", "bitmap is zero"}
      /\ m.panic = "none" => KernelInv(m) /\ SameScopes(r, m) /\ PickedHighest(r, m)
      /\ SameBlocked(r, m) /\ m.count = r.count
  <2>1. r.panic = "none"
    BY <1>2 DEF SameThreads
  <2> QED BY <1>1, <1>5, <2>1, SuspendDispatch DEF m
<1>7. BlockedAfter(k, "TERMINATED", m)
  <2>1. \A t \in Thread : r.status[t] = IF t = c THEN "TERMINATED" ELSE k.status[t]
    BY <1>0, <1>2
  <2> QED BY ZenonT(40), <1>6, <2>1 DEF SameBlocked, BlockedAfter, c
<1>8. /\ SameScopes(r, m) => SameScopes(k, m)
      /\ PickedHighest(r, m) => PickedHighest(k, m)
      /\ r.count = k.count
  BY <1>2 DEF SameScopes, OpenScopes, SameThreads, PickedHighest, Queued
<1> QED BY <1>4, <1>6, <1>7, <1>8

\* What creating and waking threads keeps, before the boot thread has enabled
\* preemption too.
BaseInv(k) == QueueInv(k) /\ OnlyCurrentRuns(k) /\ Uncreated(k)

LEMMA CreateKeeps ==
  ASSUME NEW k \in KmtState, BaseInv(k), k.count < MaxThreads, NEW prio \in Prio
  PROVE  LET m == kmt_create_thread(k, prio)
         IN  /\ m \in KmtState /\ BaseInv(m)
             /\ m.status = [k.status EXCEPT ![k.count] = "IDLE"] /\ k.count \in Thread
             /\ m.saved = k.saved /\ m.resume = k.resume /\ m.preempt = k.preempt
             /\ m.current = k.current /\ m.panic = k.panic /\ m.count = k.count + 1
             /\ k.status[k.count] = "TERMINATED"
             /\ \A t \in Thread : m.status[t] = IF t = k.count THEN "IDLE" ELSE k.status[t]
<1> DEFINE c == k.count
           s == [k EXCEPT !.status[c] = "IDLE"]
           m == kmt_create_thread(k, prio)
<1>0. /\ c \in Thread /\ c + 1 \in 1 .. MaxThreads /\ c \in Nat
      /\ k.status \in [Thread -> Status] /\ \A t \in Thread : t \in Nat
  BY FieldTypes, KmtAssumption DEF Thread
<1>1. k.status[c] = "TERMINATED"
  BY <1>0 DEF BaseInv, Uncreated
<1>2. s \in KmtState /\ QueueInv(s) /\ s.status = [k.status EXCEPT ![c] = "IDLE"]
  <2>1. s \in KmtState /\ QueueInv(s)
    BY <1>0, <1>1, SetStatus DEF BaseInv, Status
  <2> QED BY <2>1 DEF KmtState
<1>3. /\ m.status = s.status /\ m.ready = s.ready /\ m.tail = s.tail
      /\ m.bitmap = s.bitmap /\ m.lost = s.lost
      /\ m.saved = k.saved /\ m.resume = k.resume /\ m.preempt = k.preempt
      /\ m.current = k.current /\ m.panic = k.panic /\ m.count = c + 1
  BY DEF kmt_create_thread, KmtState
<1>4. m \in KmtState
  <2> DEFINE status == [k.status EXCEPT ![c] = "IDLE"]
             priority == [k.priority EXCEPT ![c] = prio]
             base == [k.base EXCEPT ![c] = prio]
             age == [k.age EXCEPT ![c] = 0]
             n == c + 1
  <2>1. /\ status \in [Thread -> Status] /\ priority \in [Thread -> Prio]
        /\ base \in [Thread -> Prio] /\ age \in [Thread -> Nat] /\ n \in 1 .. MaxThreads
    BY <1>0 DEF KmtState, Status
  <2>2. m = [k EXCEPT !.count = n, !.status = status, !.priority = priority,
                      !.base = base, !.age = age]
    BY DEF kmt_create_thread, KmtState
  <2> HIDE DEF m, status, priority, base, age, n
  <2> QED BY <2>1, <2>2 DEF KmtState
<1> HIDE DEF m, s, c
<1>5. QueueInv(m)
  BY <1>2, <1>3, QueueFields
<1>6. /\ \A t \in Thread : m.status[t] = IF t = c THEN "IDLE" ELSE k.status[t]
  BY <1>0, <1>2, <1>3
<1>7. OnlyCurrentRuns(m)
  BY <1>1, <1>3, <1>6 DEF BaseInv, OnlyCurrentRuns
<1>8. Uncreated(m)
  BY <1>0, <1>3, <1>6 DEF BaseInv, Uncreated, c
<1> QED BY <1>0, <1>1, <1>2, <1>3, <1>4, <1>5, <1>6, <1>7, <1>8 DEF BaseInv, m, c

\* A status change of threads below the count, none of them the running one.
LEMMA WakeKeepsBase ==
  ASSUME NEW k \in KmtState, BaseInv(k), NEW t \in Thread,
         k.status[t] \notin {"RUNNING", "TERMINATED"},
         NEW m \in KmtState, QueueInv(m), SameThreads(k, m),
         m.status = [k.status EXCEPT ![t] = "READY"]
  PROVE  /\ BaseInv(m)
         /\ \A u \in Thread : m.status[u] = IF u = t THEN "READY" ELSE k.status[u]
         /\ ScopeInv(k) => ScopeInv(m)
<1>1. \A u \in Thread : m.status[u] = IF u = t THEN "READY" ELSE k.status[u]
  BY FieldTypes
<1>2. m.current = k.current /\ m.count = k.count
  BY DEF SameThreads
<1>3. OnlyCurrentRuns(m)
  BY <1>1, <1>2 DEF BaseInv, OnlyCurrentRuns
<1>4. Uncreated(m)
  BY <1>1, <1>2 DEF BaseInv, Uncreated
<1>5. ScopeInv(k) => ScopeInv(m)
  BY DEF ScopeInv, SameThreads
<1> QED BY <1>1, <1>3, <1>4, <1>5 DEF BaseInv
=============================================================================
