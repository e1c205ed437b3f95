------------------------------ MODULE KmtMutex ------------------------------
(***************************************************************************)
(* The mutexes of the kernel and the scoped locks of the terminals, on top *)
(* of the scheduler of module KmtSched.  A terminal created with           *)
(* TTY_USE_LOCKS owns one mutex; its functions nest, and each of them      *)
(* opens a scope with tty_lock and leaves it with tty_unlock.              *)
(***************************************************************************)
EXTENDS KmtSched

CONSTANTS
  MaxMutexes,   \* KMT_MAX_MUTEXES
  MaxNesting    \* bound on the lock scopes a thread has open

ASSUME MutexAssumption ==
  /\ MaxMutexes \in Nat \ {0}
  /\ MaxNesting \in Nat

VARIABLES
  mutex,        \* mutex_pool
  allocCount,   \* alloc_mutex_count
  scopes        \* scopes[t]: the terminal scopes thread t is in

mutexVars == <<mutex, allocCount, scopes>>
allVars == <<vars, mutexVars>>

Mutex == 0 .. MaxMutexes - 1
Nobody == MaxThreads      \* invalid_u16
Unused == [used |-> FALSE, owner |-> Nobody, waiting |-> << >>]

\* tty_lock returns null to a thread that has the lock already: its scope is
\* "nested".  When kmt_lock_mutex fails it writes without the lock.
Scope == [mutex : Mutex, how : {"locked", "nested", "bypassed"}]

MutexInit ==
  /\ Init
  /\ mutex = [m \in Mutex |-> Unused]
  /\ allocCount = 0
  /\ scopes = [t \in Thread |-> << >>]

-----------------------------------------------------------------------------
(* The mutex functions, in the order of kernel.c.                          *)

\* The boot thread creates tty1 and writes to it before it hands over.
UsesTty == ThreadRuns /\ (Me = Boot => boot = "early")

Free == {m \in Mutex : ~mutex[m].used}

\* kmt_create_mutex takes a mutex that was never used, or else the first free
\* one; it fails when there is none.
CreateMutex ==
  /\ UsesTty
  /\ Free # {}
  /\ LET m == IF allocCount < MaxMutexes THEN allocCount ELSE Min(Free) IN
       mutex' = [mutex EXCEPT ![m] = [Unused EXCEPT !.used = TRUE]]
  /\ allocCount' = IF allocCount < MaxMutexes THEN allocCount + 1 ELSE allocCount
  /\ UNCHANGED <<vars, scopes>>

Seed_FreeMutex ==  \* seeded fault: no EINUSE
  /\ UsesTty
  /\ \E m \in Mutex :
       mutex[m].used /\ mutex' = [mutex EXCEPT ![m].used = FALSE]
  /\ UNCHANGED <<vars, allocCount, scopes>>

\* kmt_free_mutex returns EINVAL or EINUSE when the mutex is free or owned.
FreeMutex ==
  /\ UsesTty
  /\ \E m \in Mutex :
       /\ mutex[m].used /\ mutex[m].owner = Nobody
       /\ mutex' = [mutex EXCEPT ![m].used = FALSE]
  /\ UNCHANGED <<vars, allocCount, scopes>>

IsOwned(m) == mutex[m].used /\ mutex[m].owner = Me

EnterTty(m, how) == scopes' = [scopes EXCEPT ![Me] = Append(@, [mutex |-> m, how |-> how])]

Seed_LockTty ==  \* seeded fault: kmt_is_mutex_owned is not asked
  /\ UsesTty
  /\ Len(scopes[Me]) < MaxNesting
  /\ \E m \in 0 .. allocCount - 1 :
       \/ IsOwned(m) /\ EnterTty(m, "locked") /\ UNCHANGED <<kmt, mutex>>
       \/ ~mutex[m].used /\ EnterTty(m, "bypassed") /\ UNCHANGED <<kmt, mutex>>
       \/ /\ mutex[m].used /\ mutex[m].owner = Nobody
          /\ mutex' = [mutex EXCEPT ![m].owner = Me]
          /\ EnterTty(m, "locked")
          /\ UNCHANGED kmt
       \/ /\ mutex[m].used /\ mutex[m].owner \notin {Me, Nobody}
          /\ mutex' = [mutex EXCEPT ![m].waiting = Append(@, Me)]
          /\ kmt' = kmt_schedule(StopPreempting(kmt), "IDLE_MUTEX", "call")
          /\ UNCHANGED scopes
  /\ UNCHANGED <<sleepers, handler, boot, cut, allocCount>>

\* tty_lock, with kmt_is_mutex_owned and kmt_lock_mutex.  A thread that waits
\* goes on only as the owner, and no step of kmt_unlock_mutex makes it one.
LockTty ==
  /\ UsesTty
  /\ Len(scopes[Me]) < MaxNesting
  /\ \E m \in 0 .. allocCount - 1 :
       \/ IsOwned(m) /\ EnterTty(m, "nested") /\ UNCHANGED <<kmt, mutex>>
       \/ ~mutex[m].used /\ EnterTty(m, "bypassed") /\ UNCHANGED <<kmt, mutex>>
       \/ /\ mutex[m].used /\ mutex[m].owner = Nobody
          /\ mutex' = [mutex EXCEPT ![m].owner = Me]
          /\ EnterTty(m, "locked")
          /\ UNCHANGED kmt
       \/ /\ mutex[m].used /\ mutex[m].owner \notin {Me, Nobody}
          /\ mutex' = [mutex EXCEPT ![m].waiting = Append(@, Me)]
          /\ kmt' = kmt_schedule(StopPreempting(kmt), "IDLE_MUTEX", "call")
          /\ UNCHANGED scopes
  /\ UNCHANGED <<sleepers, handler, boot, cut, allocCount>>

\* The loop of kmt_unlock_mutex drops waiters until it finds a terminated one.
HandOver(m) ==
  LET queue == mutex[m].waiting
      ended == {i \in DOMAIN queue : kmt.status[queue[i]] = "TERMINATED"}
  IN IF ended = {}
     THEN /\ kmt' = Halt(kmt, "no waiter")
          /\ mutex' = [mutex EXCEPT ![m].waiting = << >>]
     ELSE /\ kmt' = WakeIdle(kmt, queue[Min(ended)])
          /\ mutex' = [mutex EXCEPT ![m].owner = queue[Min(ended)],
                                    ![m].waiting = SubSeq(@, Min(ended) + 1, Len(@))]

UnlockMutex(m) ==
  IF ~IsOwned(m) THEN UNCHANGED <<kmt, mutex>>
  ELSE IF mutex[m].waiting # << >> THEN HandOver(m)
  ELSE mutex' = [mutex EXCEPT ![m].owner = Nobody] /\ UNCHANGED kmt

\* tty_unlock, which ignores ENOTOWNED.
UnlockTty ==
  /\ UsesTty
  /\ scopes[Me] # << >>
  /\ LET s == Last(scopes[Me]) IN
       IF s.how = "nested" THEN UNCHANGED <<kmt, mutex>> ELSE UnlockMutex(s.mutex)
  /\ scopes' = [scopes EXCEPT ![Me] = Front(@)]
  /\ UNCHANGED <<sleepers, handler, boot, cut, allocCount>>

\* A thread does not sleep or end in the middle of writing to a terminal, and
\* none sleeps until a time, so no call cuts such a sleep short.
OtherStep ==
  /\ \/ TimerStep
     \/ CreateThread
     \/ WakeupThread
     \/ scopes[Me] = << >> /\ (BootStep \/ Sleep \/ Kill)
  /\ UNCHANGED <<cut, mutexVars>>

MutexNext == CreateMutex \/ FreeMutex \/ LockTty \/ UnlockTty \/ OtherStep

MutexSpec == MutexInit /\ [][MutexNext]_allVars

-----------------------------------------------------------------------------
(* What makes the locks correct.                                           *)

Waits(t, m) == \E i \in DOMAIN mutex[m].waiting : mutex[m].waiting[i] = t
HasLocked(t, m) == \E i \in DOMAIN scopes[t] : scopes[t][i] = [mutex |-> m, how |-> "locked"]

\* A terminal belongs to one thread at a time, from the outermost scope it
\* locked to the end of that scope: the end of a nested scope does not release
\* it, nor does the end of a scope that was opened on a freed mutex, even when
\* the mutex was created again in between.
ScopesExclusive ==
  Alive =>
    \A m \in Mutex, t \in Thread : HasLocked(t, m) <=> mutex[m].owner = t

\* Who is queued at a mutex, and only who is, is blocked in IDLE_MUTEX; it is
\* queued once, at a mutex in use that another thread owns.
WaitersBlocked ==
  Alive =>
    /\ \A t \in Thread :
         kmt.status[t] = "IDLE_MUTEX" <=> \E m \in Mutex : Waits(t, m)
    /\ \A m, n \in Mutex : \A i \in DOMAIN mutex[m].waiting, j \in DOMAIN mutex[n].waiting :
         mutex[m].waiting[i] = mutex[n].waiting[j] => m = n /\ i = j
    /\ \A m \in Mutex : mutex[m].waiting # << >> =>
         mutex[m].used /\ mutex[m].owner # Nobody /\ ~Waits(mutex[m].owner, m)

-----------------------------------------------------------------------------
\* "wake up the next thread in the waiting queue, which is not terminated":
\* unlocking a mutex that a thread waits for hands it over.
UnlockHandsOver == kmt.panic # "no waiter"
=============================================================================
