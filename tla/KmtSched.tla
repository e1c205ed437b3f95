------------------------------ MODULE KmtSched ------------------------------
(***************************************************************************)
(* The preemptive scheduler: the calls a thread can make to create, wake,  *)
(* put to sleep and kill threads, and the timer interrupt that wakes       *)
(* sleepers, ages the ready queues and preempts.  The interrupt runs with  *)
(* interrupts off (the gates are interrupt gates), so nothing interleaves  *)
(* with its steps; it is split into steps because each is a loop iteration.*)
(***************************************************************************)
EXTENDS Kmt, FiniteSets

CONSTANTS
  MaxSleep,   \* bound on the ticks a thread asks to sleep
  MaxScope,   \* bound on the STOP_PREEMPTING scopes a thread opens
  MaxCut,     \* bound on the sleeps that calls of kmt_wakeup_thread cut short
  SpawnPrio   \* the priorities threads are created with

ASSUME SchedAssumption ==
  /\ MaxSleep \in Nat
  /\ MaxScope \in Nat
  /\ MaxCut \in Nat
  /\ SpawnPrio \subseteq Prio

VARIABLES
  kmt,        \* the kernel state of module Kmt
  sleepers,   \* the sleep heap: who asked to sleep and the ticks that are left
  handler,    \* where the timer interrupt is: its loop and its snapshot
  boot,       \* how far the boot thread is in kmt_spawn_idle_thread
  cut         \* history: how many sleeps calls of kmt_wakeup_thread cut short

vars == <<kmt, sleepers, handler, boot, cut>>

\* A thread woken by a call leaves its request behind and may add another one:
\* nth tells the requests of one thread apart.
Request == [thread : Thread, left : Nat, nth : Thread]
HandlerState == [pc : {"none", "wake", "age"}, todo : SUBSET Prio, pos : Nat \ {0}]
NoHandler == [pc |-> "none", todo |-> {}, pos |-> 1]

Init ==
  /\ kmt = KmtInit
  /\ sleepers = {}
  /\ handler = NoHandler
  /\ boot = "early"
  /\ cut = 0

-----------------------------------------------------------------------------
(* Calls of the running thread.                                            *)

ThreadRuns == handler.pc = "none" /\ kmt.panic = "none"
Me == kmt.current
\* The boot thread only hands over, and the idle thread never blocks: after
\* starting the syscore thread it spins.
IsThread == ThreadRuns /\ Me # Boot
IsWorker == IsThread /\ Me # Idle

\* kmt_spawn_idle_thread, up to the point where it enables preemption ...
SpawnIdle ==
  /\ ThreadRuns /\ boot = "early"
  /\ kmt' = [kmt_wakeup_thread(kmt_create_thread(kmt, 1), Idle)
               EXCEPT !.preempt = TRUE]
  /\ boot' = "enabled"
  /\ UNCHANGED <<sleepers, handler, cut>>

\* ... and its last call, which a timer interrupt may precede.
BootDies ==
  /\ ThreadRuns /\ boot = "enabled" /\ Me = Boot
  /\ kmt' = kmt_kill_current_thread(kmt)
  /\ boot' = "dead"
  /\ UNCHANGED <<sleepers, handler, cut>>

Seed_CreateThread ==  \* seeded fault: off by one in the pool check
  /\ IsThread
  /\ kmt.count <= MaxThreads
  /\ \E p \in SpawnPrio : kmt' = kmt_create_thread(kmt, p)
  /\ UNCHANGED <<sleepers, handler, boot, cut>>

CreateThread ==
  /\ IsThread
  /\ kmt.count < MaxThreads
  /\ \E p \in SpawnPrio : kmt' = kmt_create_thread(kmt, p)
  /\ UNCHANGED <<sleepers, handler, boot, cut>>

\* kmt_wakeup_thread of a thread that was just created, that called kmt_sleep,
\* or that sleeps until a time: nothing takes the request of the last one off
\* the sleep heap ("TODO: deal with waking up a sleeping thread").  Threads
\* that wait for a mutex or in a call are woken by KmtMutex and KmtRpc.
WakeupThread ==
  /\ IsThread
  /\ \E t \in Created(kmt) :
       /\ \/ kmt.status[t] = "IDLE" /\ UNCHANGED cut
          \/ kmt.status[t] = "IDLE_SLEEP" /\ cut < MaxCut /\ cut' = cut + 1
       /\ kmt' = kmt_wakeup_thread(kmt, t)
  /\ UNCHANGED <<sleepers, handler, boot>>

Sleep ==
  /\ IsWorker
  /\ kmt' = kmt_schedule(kmt, "IDLE", "call")
  /\ UNCHANGED <<sleepers, handler, boot, cut>>

\* The least number no request of thread t has.
UnusedNth(t, n) ==
  LET used == {s.nth : s \in {r \in sleepers : r.thread = t}}
  IN  n \notin used /\ \A m \in Thread : m < n => m \in used

\* kmt_sleep_until a time that is not past yet.
SleepUntil ==
  /\ IsWorker
  /\ IF Cardinality(sleepers) >= MaxThreads
     THEN kmt' = Halt(kmt, "pool full") /\ UNCHANGED sleepers
     ELSE \E d \in 1 .. MaxSleep, n \in Thread :
            /\ UnusedNth(Me, n)
            /\ sleepers' = sleepers \cup {[thread |-> Me, left |-> d, nth |-> n]}
            /\ kmt' = kmt_schedule(kmt, "IDLE_SLEEP", "call")
  /\ UNCHANGED <<handler, boot, cut>>

\* kmt_kill_current_thread, or the return of the thread's entry point.
Kill ==
  /\ IsWorker
  /\ kmt' = kmt_kill_current_thread(kmt)
  /\ UNCHANGED <<sleepers, handler, boot, cut>>

\* The code takes any byte: one above MaxPrio indexes past the queues and is
\* left out.  The node of a ready thread stays in the queue it is in.
OverridePriority ==
  /\ IsThread
  /\ \E t \in Created(kmt), p \in Prio :
       kmt' = [kmt EXCEPT !.priority[t] = p]
  /\ UNCHANGED <<sleepers, handler, boot, cut>>

\* STOP_PREEMPTING() in a thread's own code, and the end of its scope.
EnterScope ==
  /\ IsThread
  /\ Len(kmt.saved[Me]) < MaxScope
  /\ kmt' = StopPreempting(kmt)
  /\ UNCHANGED <<sleepers, handler, boot, cut>>

EndScope ==
  /\ IsThread
  /\ kmt.saved[Me] # << >>
  /\ kmt' = RestoreFlags(kmt)
  /\ UNCHANGED <<sleepers, handler, boot, cut>>

-----------------------------------------------------------------------------
(* The timer interrupt.                                                    *)

Seed_Elapsed == sleepers  \* seeded fault: the tick is not counted
Elapsed == {[s EXCEPT !.left = IF @ = 0 THEN 0 ELSE @ - 1] : s \in sleepers}

\* _timer_interrupt counts the tick.  The handler returns at once when
\* preemption is disabled, and the callback accumulator may skip it.
TickOnly ==
  /\ ThreadRuns /\ kmt.irqOn /\ ~kmt.inService
  /\ sleepers' = Elapsed
  /\ UNCHANGED <<kmt, handler, boot, cut>>

TimerInterrupt ==
  /\ ThreadRuns /\ kmt.irqOn /\ ~kmt.inService
  /\ kmt.preempt
  /\ sleepers' = Elapsed
  /\ kmt' = [kmt EXCEPT !.irqOn = FALSE, !.inService = TRUE]
  /\ handler' = [NoHandler EXCEPT !.pc = "wake"]
  /\ UNCHANGED <<boot, cut>>

In(pc) == handler.pc = pc /\ kmt.panic = "none"
Seed_Due == {s \in sleepers : s.left <= 1}  \* seeded fault: woken a tick early
Due == {s \in sleepers : s.left = 0}

Seed_WakeSleeper ==  \* seeded fault: the root stays in the heap
  /\ In("wake")
  /\ \E s \in Due : kmt' = WakeIdle(kmt, s.thread)
  /\ UNCHANGED <<sleepers, handler, boot, cut>>

WakeSleeper ==
  /\ In("wake")
  /\ \E s \in Due :
       /\ sleepers' = sleepers \ {s}
       /\ kmt' = WakeIdle(kmt, s.thread)
  /\ UNCHANGED <<handler, boot, cut>>

StartAging ==
  /\ In("wake") /\ Due = {}
  /\ handler' = [pc |-> "age", todo |-> kmt.bitmap, pos |-> 1]
  /\ UNCHANGED <<kmt, sleepers, boot, cut>>

\* The aging pass walks the queues of the snapshot from the highest priority
\* down, leaving out priority 0; pos is the place of the node it looks at.
Aging == In("age") /\ handler.todo \ {0} # {}
AgedQueue == Max(handler.todo)
AgedThread == kmt.ready[AgedQueue][handler.pos]
AtNode == Aging /\ handler.pos <= Len(kmt.ready[AgedQueue])

AgeNode ==
  /\ AtNode
  /\ kmt.age[AgedThread] + 1 < AgeTicks
  /\ kmt' = [kmt EXCEPT !.age[AgedThread] = @ + 1]
  /\ handler' = [handler EXCEPT !.pos = @ + 1]
  /\ UNCHANGED <<sleepers, boot, cut>>

Seed_Unlink(k, p, i) == k  \* seeded fault: the node stays in its old queue

Unlink(k, p, i) ==
  [k EXCEPT !.ready[p] = RemoveAt(@, i),
            !.tail[p]  = IF i = Len(k.ready[p]) THEN "stale" ELSE @]

\* Removing the node, the code does not touch the tail pointer nor the bit.
Promoted(k, p, i) ==
  LET t == k.ready[p][i]
      up == IF k.priority[t] + 1 > MaxPrio THEN MaxPrio ELSE k.priority[t] + 1
  IN WakeIdle([Unlink(k, p, i) EXCEPT !.age[t] = 0, !.priority[t] = up], t)

PromoteInner ==
  /\ AtNode /\ handler.pos > 1
  /\ kmt.age[AgedThread] + 1 >= AgeTicks
  /\ kmt' = Promoted(kmt, AgedQueue, handler.pos)
  /\ UNCHANGED <<sleepers, handler, boot, cut>>

\* The head has no previous node: node = prev_node; node = node->next.
PromoteHead ==
  /\ AtNode /\ handler.pos = 1
  /\ kmt.age[AgedThread] + 1 >= AgeTicks
  /\ kmt' = Halt(kmt, "null dereference")
  /\ UNCHANGED <<sleepers, handler, boot, cut>>

Seed_NextQueue ==  \* seeded fault: the pass does not leave an exhausted queue
  /\ Aging /\ handler.pos > Len(kmt.ready[AgedQueue])
  /\ UNCHANGED vars

NextQueue ==
  /\ Aging /\ handler.pos > Len(kmt.ready[AgedQueue])
  /\ handler' = [handler EXCEPT !.todo = @ \ {AgedQueue}, !.pos = 1]
  /\ UNCHANGED <<kmt, sleepers, boot, cut>>

\* kmt_schedule(THREAD_STATUS_READY), at the end of the handler.
Preempt ==
  /\ In("age") /\ handler.todo \ {0} = {}
  /\ kmt' = kmt_schedule(kmt, "READY", "irq")
  /\ handler' = NoHandler
  /\ UNCHANGED <<sleepers, boot, cut>>

HandlerStep ==
  WakeSleeper \/ StartAging \/ AgeNode \/ PromoteInner \/ PromoteHead
    \/ NextQueue \/ Preempt

BootStep == SpawnIdle \/ BootDies
ThreadStep ==
  CreateThread \/ WakeupThread \/ Sleep \/ SleepUntil \/ Kill
    \/ OverridePriority \/ EnterScope \/ EndScope
TimerStep == TickOnly \/ TimerInterrupt \/ HandlerStep

Next == BootStep \/ ThreadStep \/ TimerStep

Spec == Init /\ [][Next]_vars
\* The processor executes the instructions of an interrupt handler.
FairSpec == Spec /\ WF_vars(HandlerStep)

-----------------------------------------------------------------------------
(* What makes the scheduler correct.                                       *)

TypeOK ==
  /\ kmt \in KmtState
  /\ sleepers \in SUBSET Request
  /\ handler \in HandlerState
  /\ boot \in {"early", "enabled", "dead"}
  /\ cut \in 0 .. MaxCut

Alive == kmt.panic = "none"

\* kmt_wakeup_thread has not woken a thread out of kmt_sleep_until.  Once it
\* has, the request it left fires on a thread that may run, be queued, wait for
\* something else or have ended, and makes it ready whatever its status is.
NoSleepCut == cut = 0

\* As long as no call has cut a sleep short, a ready thread has exactly one
\* node: in one place of one ready queue, or among the nodes the aging pass has
\* cut off; and a queue holds ready threads only.  Every path that wakes,
\* requeues, ages or dispatches a thread must keep status and queues in step,
\* or kmt_schedule runs a thread twice.
ReadyQueuedOnce ==
  Alive /\ NoSleepCut =>
    QueuesHoldReady(kmt) /\ QueuedOnce(kmt) /\ ReadyIsSomewhere(kmt)

\* A bit of ready_priority_bitmap is set exactly when its queue has a head, and
\* a queue with a head has a tail, even after the request of a sleep cut short
\* has queued a thread twice: kmt_schedule never pops an empty queue.
BitmapExact == Alive => BitsMatchQueues(kmt)

\* As long as no call has cut a sleep short, exactly the current thread is
\* RUNNING, in the handler too.
OneRunning == Alive /\ NoSleepCut => OnlyCurrentRuns(kmt)

\* No sleeper is forgotten: a sleeping thread has a request in the sleep heap,
\* whatever calls and requests have woken it before.  Until a call cuts a sleep
\* short a request belongs to a thread that sleeps and is its only one, so that
\* no thread is woken out of another wait.
SleepersSleep ==
  Alive =>
    /\ \A t \in Thread : kmt.status[t] = "IDLE_SLEEP" => \E s \in sleepers : s.thread = t
    /\ NoSleepCut =>
         /\ \A s \in sleepers : kmt.status[s.thread] = "IDLE_SLEEP"
         /\ \A s, r \in sleepers : s.thread = r.thread => s = r

\* The preemption flag is global but its saved values are per thread: whatever
\* ran in between, preemption is off exactly while the running thread is
\* inside a STOP_PREEMPTING scope of its own.
PreemptionScoped ==
  ThreadRuns /\ boot # "early" => (kmt.preempt <=> kmt.saved[Me] = << >>)

\* As long as no call has cut a sleep short, kmt_schedule never pops an empty
\* queue nor meets a thread that is not ready.
NoBadDispatch == NoSleepCut => kmt.panic \notin {"no such thread", "not ready"}

\* When the processor changes hands, no queue above the one the new thread
\* came from still holds a thread, as long as no call has cut a sleep short
\* and a thread is in one queue.
HighestFirst ==
  [][Alive /\ Alive' /\ NoSleepCut /\ kmt'.current # kmt.current =>
       \A q \in Prio : Queued(kmt, kmt'.current, q) =>
         \A p \in Prio : p > q => kmt'.ready[p] = << >>]_vars

HasDueRequest(t) == \E s \in sleepers : s.thread = t /\ s.left = 0

\* A thread leaves its sleep when the request it made is due, or when a call of
\* kmt_wakeup_thread cuts the sleep short.  The first such call is the first
\* sleep that ends early: what the request it leaves behind does later (it ends
\* the thread's next sleep before its time) is outside the claim.
SleepsItsTime ==
  [][NoSleepCut =>
       \A t \in Thread :
         kmt.status[t] = "IDLE_SLEEP" /\ kmt'.status[t] # "IDLE_SLEEP" =>
           HasDueRequest(t) \/ cut' = cut + 1]_vars

\* The handler's three nested loops end: every interrupt leaves the handler,
\* or stops the kernel.
HandlerEnds == handler.pc # "none" ~> handler.pc = "none" \/ ~Alive

TicksKeepComing == []<>(handler.pc = "wake")

\* As long as the timer handler keeps being entered, a sleeping thread wakes.
\* The boot and the idle thread do not sleep.
SleepersWake ==
  TicksKeepComing =>
    \A t \in Thread \ {Boot, Idle} :
      kmt.status[t] = "IDLE_SLEEP" ~> kmt.status[t] # "IDLE_SLEEP"

-----------------------------------------------------------------------------
(* What the repository says of the scheduler, and the code does not do.    *)

\* "Caller is expected to disable IRQs before calling, and enable IRQs again
\* after function returns" (kmt_switch_task): thread code runs with IRQs on.
IrqsOnInThreads == ThreadRuns => kmt.irqOn

\* "if the thread has aged enough, we will promote it to the next priority
\* level": the promotion is carried out.
AgingPromotes == kmt.panic # "null dereference"
=============================================================================
