-------------------------------- MODULE Kmt --------------------------------
(***************************************************************************)
(* The scheduler state of the multitasking kernel (g_kmt_ctx of            *)
(* syscore/mt/kernel.c) and the functions that change it, as operators     *)
(* from one state to the next.  Modules that add mutexes or RPC compose    *)
(* these operators into single steps: the kernel runs on one processor and *)
(* every function below runs with preemption disabled.                     *)
(***************************************************************************)
EXTENDS Naturals, Sequences, SequencesExt

CONSTANTS
  MaxThreads,   \* MAX_KERNEL_THREADS, 256 in the code
  MaxPrio,      \* the highest priority, 30 in the code
  AgeTicks      \* KMT_AGE_TICKS, 4 in the code

ASSUME KmtAssumption ==
  /\ MaxThreads \in Nat /\ MaxThreads >= 2
  /\ MaxPrio \in Nat /\ MaxPrio >= 1
  /\ AgeTicks \in Nat /\ AgeTicks >= 2

Thread == 0 .. MaxThreads - 1
Prio   == 0 .. MaxPrio
Boot   == 0        \* tcb_pool[0], set up by initialize_multitasking
Idle   == 1        \* the first thread kmt_create_thread makes

Status == {"TERMINATED", "READY", "RUNNING", "IDLE", "IDLE_SLEEP",
           "IDLE_MUTEX", "IDLE_RPC_CALLEE", "IDLE_RPC_CALLER"}

(***************************************************************************)
(* ready[p] lists the threads reachable from the head of queue p.  tail[p] *)
(* tells what the tail pointer is: null, the last reachable node, or       *)
(* "stale": a node the aging pass has unlinked.  What is pushed behind a   *)
(* stale tail cannot be reached from the head: those threads are lost.     *)
(*                                                                         *)
(* saved[t] is the stack of preemption flags thread t keeps in its open    *)
(* STOP_PREEMPTING scopes, resume[t] says where t continues: at its entry  *)
(* point, after the call it blocked in, or in the timer interrupt that     *)
(* preempted it.  irqOn is EFLAGS.IF, inService the bit of IRQ0 in the     *)
(* interrupt controller, cleared by PIC_EOI.                               *)
(***************************************************************************)
KmtState ==
  [status    : [Thread -> Status],
   priority  : [Thread -> Prio],
   base      : [Thread -> Prio],
   age       : [Thread -> Nat],
   ready     : [Prio -> Seq(Thread)],
   tail      : [Prio -> {"null", "last", "stale"}],
   bitmap    : SUBSET Prio,
   lost      : SUBSET Thread,
   current   : Thread,
   count     : 1 .. MaxThreads,
   preempt   : BOOLEAN,
   saved     : [Thread -> Seq(BOOLEAN)],
   resume    : [Thread -> {"fresh", "call", "irq"}],
   irqOn     : BOOLEAN,
   inService : BOOLEAN,
   panic     : {"none", "bitmap is zero", "no such thread", "not ready",
                "pool full", "null dereference", "callee terminated",
                "no request", "caller not waiting", "no waiter"}]

\* The state initialize_multitasking leaves: the boot thread runs, alone,
\* with interrupts on and preemption still off.
KmtInit ==
  [status    |-> [t \in Thread |-> IF t = Boot THEN "RUNNING" ELSE "TERMINATED"],
   priority  |-> [t \in Thread |-> 0],
   base      |-> [t \in Thread |-> 0],
   age       |-> [t \in Thread |-> 0],
   ready     |-> [p \in Prio |-> << >>],
   tail      |-> [p \in Prio |-> "null"],
   bitmap    |-> {},
   lost      |-> {},
   current   |-> Boot,
   count     |-> 1,
   preempt   |-> FALSE,
   saved     |-> [t \in Thread |-> << >>],
   resume    |-> [t \in Thread |-> "fresh"],
   irqOn     |-> TRUE,
   inService |-> FALSE,
   panic     |-> "none"]

Created(k) == {t \in Thread : t < k.count}

Halt(k, why) == [k EXCEPT !.panic = why]

(***************************************************************************)
(* The ready queues.                                                       *)
(***************************************************************************)
kmt_queue_push(k, p, t) ==
  IF k.tail[p] = "stale"
  THEN [k EXCEPT !.lost = @ \cup {t}]
  ELSE [k EXCEPT !.ready[p] = Append(@, t), !.tail[p] = "last"]

Seed_kmt_queue_pop(k, p) ==  \* seeded fault: the bit of an emptied queue stays set
  LET rest == Tail(k.ready[p]) IN
  [k EXCEPT !.ready[p] = rest, !.tail[p] = IF rest = << >> THEN "null" ELSE @]

\* kmt_queue_pop, and the caller's clearing of the bitmap bit.
kmt_queue_pop(k, p) ==
  LET rest == Tail(k.ready[p]) IN
  [k EXCEPT !.ready[p]  = rest,
            !.tail[p]   = IF rest = << >> THEN "null" ELSE @,
            !.bitmap    = IF rest = << >> THEN @ \ {p} ELSE @]

kmt_wakeup_thread(k, t) ==
  IF k.status[t] \in {"READY", "RUNNING", "TERMINATED"}
  THEN k
  ELSE [kmt_queue_push(k, k.priority[t], t)
          EXCEPT !.bitmap = @ \cup {k.priority[t]}, !.status[t] = "READY"]

\* "downgrade the thread's status to idle, and wake it up"
WakeIdle(k, t) == kmt_wakeup_thread([k EXCEPT !.status[t] = "IDLE"], t)

\* STOP_PREEMPTING() and the end of its scope, for the current thread.
StopPreempting(k) ==
  [k EXCEPT !.saved[k.current] = Append(@, k.preempt), !.preempt = FALSE]
RestoreFlags(k) ==
  [k EXCEPT !.preempt = Last(k.saved[k.current]), !.saved[k.current] = Front(@)]

(***************************************************************************)
(* kmt_schedule(new_status): retire the current thread, save where it      *)
(* continues, pick the head of the highest queue and switch to it.         *)
(***************************************************************************)
Seed_Retire(k, newStatus) ==  \* seeded fault: requeued while still RUNNING
  LET c == k.current IN
  IF newStatus = "READY"
  THEN kmt_wakeup_thread([k EXCEPT !.age[c] = 0, !.priority[c] = k.base[c]], c)
  ELSE [k EXCEPT !.status[c] = newStatus]

Retire(k, newStatus) ==
  LET c == k.current IN
  IF k.status[c] = "TERMINATED" THEN k
  ELSE IF newStatus = "READY"
  THEN WakeIdle([k EXCEPT !.age[c] = 0, !.priority[c] = k.base[c]], c)
  ELSE [k EXCEPT !.status[c] = newStatus]

Suspend(k, how) ==
  [k EXCEPT !.saved[k.current] = Append(@, k.preempt),
            !.resume[k.current] = how]

Seed_SwitchIn(k) ==  \* seeded fault: the flags of the last thread stay in force
  IF k.resume[k.current] = "fresh" THEN [k EXCEPT !.preempt = TRUE]
  ELSE [k EXCEPT !.saved[k.current] = Front(@),
                 !.irqOn     = @ \/ k.resume[k.current] = "irq",
                 !.inService = @ /\ k.resume[k.current] # "irq"]

\* A fresh thread starts in kmt_thread_start, which enables preemption; any
\* other one leaves its STOP_PREEMPTING scopes.  Only a thread that continues
\* inside the timer interrupt reaches PIC_EOI and iret.
SwitchIn(k) ==
  LET n == k.current IN
  IF k.resume[n] = "fresh" THEN [k EXCEPT !.preempt = TRUE]
  ELSE [k EXCEPT !.preempt   = Last(k.saved[n]),
                 !.saved[n]  = Front(@),
                 !.irqOn     = @ \/ k.resume[n] = "irq",
                 !.inService = @ /\ k.resume[n] # "irq"]

Seed_Dispatch(k) ==  \* seeded fault: the lowest set bit instead of the highest
  IF k.bitmap = {} THEN Halt(k, "bitmap is zero")
  ELSE LET p == Min(k.bitmap)
           n == Head(k.ready[p])
       IN SwitchIn([kmt_queue_pop(k, p) EXCEPT !.current = n, !.status[n] = "RUNNING"])

Dispatch(k) ==
  IF k.bitmap = {} THEN Halt(k, "bitmap is zero")
  ELSE LET p == Max(k.bitmap) IN
    IF k.ready[p] = << >> THEN Halt(k, "no such thread")
    ELSE LET n == Head(k.ready[p]) IN
      IF k.status[n] # "READY" THEN Halt(k, "not ready")
      ELSE SwitchIn([kmt_queue_pop(k, p)
                       EXCEPT !.current = n, !.status[n] = "RUNNING"])

kmt_schedule(k, newStatus, how) == Dispatch(Suspend(Retire(k, newStatus), how))

(***************************************************************************)
(* Threads.                                                                *)
(***************************************************************************)
kmt_create_thread(k, prio) ==
  LET t == k.count IN
  [k EXCEPT !.count = @ + 1, !.status[t] = "IDLE",
            !.priority[t] = prio, !.base[t] = prio, !.age[t] = 0]

kmt_kill_current_thread(k) ==
  kmt_schedule([k EXCEPT !.status[k.current] = "TERMINATED"],
               "TERMINATED", "call")

(***************************************************************************)
(* What a consistent kernel state is.                                      *)
(***************************************************************************)
Queued(k, t, p) == \E i \in DOMAIN k.ready[p] : k.ready[p][i] = t

QueuesHoldReady(k) ==
  \A p \in Prio : \A i \in DOMAIN k.ready[p] :
    k.status[k.ready[p][i]] = "READY" /\ k.ready[p][i] \notin k.lost

QueuedOnce(k) ==
  \A p, q \in Prio : \A i \in DOMAIN k.ready[p], j \in DOMAIN k.ready[q] :
    k.ready[p][i] = k.ready[q][j] => p = q /\ i = j

ReadyIsSomewhere(k) ==
  \A t \in Thread :
    k.status[t] = "READY" => t \in k.lost \/ \E p \in Prio : Queued(k, t, p)

BitsMatchQueues(k) ==
  \A p \in Prio :
    /\ p \in k.bitmap <=> k.ready[p] # << >>
    /\ k.tail[p] = "null" <=> k.ready[p] = << >>

OnlyCurrentRuns(k) ==
  \A t \in Thread : k.status[t] = "RUNNING" <=> t = k.current
=============================================================================
