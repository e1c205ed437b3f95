------------------------------- MODULE KmtRpc -------------------------------
(***************************************************************************)
(* Remote procedure calls between threads, and the syscore thread that     *)
(* answers them, on top of the scheduler of module KmtSched.  The code     *)
(* runs every RPC function with preemption disabled, so each is one step   *)
(* up to the point where it blocks in kmt_schedule and one step after it.  *)
(***************************************************************************)
EXTENDS KmtSched

CONSTANTS
  Asked,         \* the requests the other threads make
  SyscorePrio    \* the priority of syscore, 6 in the code

Requests == {"echo", "echo into another size", "pages", "bad flags", "unknown"}
Codes == {"ESUCCESS", "EINVAL", "ENOMEM", "EUNKNOWNREQ"}

ASSUME RpcAssumption ==
  /\ Asked \subseteq Requests
  /\ SyscorePrio \in Prio
  /\ MaxThreads > 2

\* What syscore_thread_entry answers.
Answers(r) ==
  CASE r = "echo" -> {"ESUCCESS"}
    [] r \in {"echo into another size", "bad flags"} -> {"EINVAL"}
    [] r = "pages" -> {"ESUCCESS", "ENOMEM"}
    [] r = "unknown" -> {"EUNKNOWNREQ"}

VARIABLES
  rpcQueue,   \* threads[Server].rpc_head .. rpc_tail
  rpcReturn,  \* threads[t].rpc_return
  calling,    \* the request thread t has made and not returned from
  server      \* where the syscore thread is, and the descriptor it holds

rpcVars == <<rpcQueue, rpcReturn, calling, server>>
allVars == <<vars, rpcVars>>

Server == 2     \* syscore, which the idle thread creates first
None == "none"
NoCall == [caller |-> Boot, request |-> None]
Descriptor == [caller : Thread, request : Requests]

RpcInit ==
  /\ Init
  /\ rpcQueue = << >>
  /\ rpcReturn = [t \in Thread |-> None]
  /\ calling = [t \in Thread |-> None]
  /\ server = [pc |-> "setup", call |-> NoCall]

-----------------------------------------------------------------------------
(* The callers.                                                            *)

Outside == calling[Me] = None

Seed_CallNoWake ==  \* seeded fault: the listening callee is not woken
  /\ IsWorker /\ Me # Server /\ Outside
  /\ Server \in Created(kmt)
  /\ \E r \in Asked :
       LET k == StopPreempting(kmt)
       IN  /\ rpcQueue' = Append(rpcQueue, [caller |-> Me, request |-> r])
           /\ calling' = [calling EXCEPT ![Me] = r]
           /\ rpcReturn' = [rpcReturn EXCEPT ![Me] = "EPENDING"]
           /\ kmt' = IF rpcQueue = << >> /\ kmt.status[Server] = "TERMINATED"
                     THEN Halt(k, "callee terminated")
                     ELSE kmt_schedule(k, "IDLE_RPC_CALLER", "call")
  /\ UNCHANGED <<sleepers, handler, boot, cut, server>>

\* kmt_rpc_call queues the request, wakes a callee that waits for one, and
\* blocks until rpc_return is set.
Call ==
  /\ IsWorker /\ Me # Server /\ Outside
  /\ Server \in Created(kmt)
  /\ \E r \in Asked :
       LET k == StopPreempting(kmt)
           woken == IF rpcQueue = << >> /\ kmt.status[Server] = "IDLE_RPC_CALLEE"
                    THEN WakeIdle(k, Server) ELSE k
       IN  /\ rpcQueue' = Append(rpcQueue, [caller |-> Me, request |-> r])
           /\ calling' = [calling EXCEPT ![Me] = r]
           /\ rpcReturn' = [rpcReturn EXCEPT ![Me] = "EPENDING"]
           /\ kmt' = IF rpcQueue = << >> /\ kmt.status[Server] = "TERMINATED"
                     THEN Halt(k, "callee terminated")
                     ELSE kmt_schedule(woken, "IDLE_RPC_CALLER", "call")
  /\ UNCHANGED <<sleepers, handler, boot, cut, server>>

\* Back from kmt_schedule: the loop goes round while the answer is pending.
CallReturns ==
  /\ IsThread /\ ~Outside
  /\ IF rpcReturn[Me] = "EPENDING"
     THEN /\ kmt' = kmt_schedule(kmt, "IDLE_RPC_CALLER", "call")
          /\ UNCHANGED <<calling, rpcReturn>>
     ELSE /\ kmt' = RestoreFlags(kmt)
          /\ calling' = [calling EXCEPT ![Me] = None]
          /\ UNCHANGED rpcReturn
  /\ UNCHANGED <<sleepers, handler, boot, cut, rpcQueue, server>>

-----------------------------------------------------------------------------
(* The syscore thread.                                                     *)

AtServer(pcs) == IsWorker /\ Me = Server /\ server.pc \in pcs

Seed_TakeNewest ==  \* seeded fault: the newest request first
  /\ server' = [pc |-> "handling", call |-> Last(rpcQueue)]
  /\ rpcQueue' = Front(rpcQueue)

Take ==
  /\ server' = [pc |-> "handling", call |-> Head(rpcQueue)]
  /\ rpcQueue' = Tail(rpcQueue)

Seed_Listen ==  \* seeded fault: blocks without looking at the queue
  /\ AtServer({"setup", "loop"})
  /\ kmt' = kmt_schedule(StopPreempting(kmt), "IDLE_RPC_CALLEE", "call")
  /\ server' = [server EXCEPT !.pc = "listening"]
  /\ UNCHANGED <<sleepers, handler, boot, cut, rpcReturn, calling, rpcQueue>>

\* kmt_rpc_listen takes the first request, or blocks when there is none.
Listen ==
  /\ AtServer({"setup", "loop"})
  /\ IF rpcQueue # << >>
     THEN Take /\ UNCHANGED kmt
     ELSE /\ kmt' = kmt_schedule(StopPreempting(kmt), "IDLE_RPC_CALLEE", "call")
          /\ server' = [server EXCEPT !.pc = "listening"]
          /\ UNCHANGED rpcQueue
  /\ UNCHANGED <<sleepers, handler, boot, cut, rpcReturn, calling>>

\* Woken, it takes the request that is there now.
ListenReturns ==
  /\ AtServer({"listening"})
  /\ IF rpcQueue # << >>
     THEN Take /\ kmt' = RestoreFlags(kmt)
     ELSE kmt' = Halt(kmt, "no request") /\ UNCHANGED <<rpcQueue, server>>
  /\ UNCHANGED <<sleepers, handler, boot, cut, rpcReturn, calling>>

\* kmt_rpc_return sets the caller's rpc_return and wakes it.
Return ==
  /\ AtServer({"handling"})
  /\ LET caller == server.call.caller IN
       /\ \E code \in Answers(server.call.request) :
            rpcReturn' = [rpcReturn EXCEPT ![caller] = code]
       /\ kmt' = IF kmt.status[caller] # "IDLE_RPC_CALLER"
                 THEN Halt(kmt, "caller not waiting")
                 ELSE WakeIdle(kmt, caller)
  /\ server' = [pc |-> "loop", call |-> NoCall]
  /\ UNCHANGED <<sleepers, handler, boot, cut, rpcQueue, calling>>

ServerStep == Listen \/ ListenReturns \/ Return

\* syscore_spawn_thread, and lowering the idle thread, before syscore listens.
LowerIdle ==
  /\ AtServer({"setup"})
  /\ kmt' = [kmt EXCEPT !.priority[Idle] = 0]
  /\ UNCHANGED <<sleepers, handler, boot, cut>>

\* syscore_start_thread, called by the idle thread.
StartSyscore ==
  /\ IsThread
  /\ kmt.count = Server
  /\ kmt' = kmt_wakeup_thread(kmt_create_thread(kmt, SyscorePrio), Server)
  /\ UNCHANGED <<sleepers, handler, boot, cut>>

\* What threads do outside a call.  The idle thread starts syscore, syscore
\* creates the others; they sleep, wake threads they
\* created or that called kmt_sleep (the repository wakes no thread that sleeps
\* until a time: syscore.c:67, 205) and end.
OtherStep ==
  /\ \/ BootStep
     \/ TimerStep
     \/ Outside /\ Me = Idle /\ StartSyscore
     \/ AtServer({"setup"}) /\ CreateThread
     \/ Outside /\ (Me = Server => server.pc = "setup") /\ WakeupThread
     \/ Outside /\ Me # Server /\ (Sleep \/ SleepUntil \/ Kill)
     \/ LowerIdle
  /\ UNCHANGED <<cut, rpcVars>>

RpcNext == Call \/ CallReturns \/ ServerStep \/ OtherStep

RpcSpec == RpcInit /\ [][RpcNext]_allVars
\* The processor executes the instructions of the interrupt handler.  A thread
\* that runs again and again gets on, between the interrupts, with its work;
\* that of syscore, outside its setup, is only to listen and to answer.
RpcFairSpec ==
  RpcSpec /\ WF_allVars(HandlerStep /\ UNCHANGED rpcVars) /\ SF_allVars(ServerStep)

-----------------------------------------------------------------------------
(* What makes the calls correct.                                           *)

Calls == [i \in DOMAIN rpcQueue |-> rpcQueue[i].caller]
Unanswered ==
  IF server.pc = "handling" THEN <<server.call.caller>> \o Calls ELSE Calls

\* No wakeup is lost: syscore does not sleep on a request, and a thread blocks
\* in a call exactly while its request is queued or being handled.  None is
\* false: the panics of kmt_rpc_listen, woken without a request, and of
\* kmt_rpc_return, whose caller is not waiting, cannot happen.
NoLostWakeup ==
  /\ kmt.panic \notin {"callee terminated", "no request", "caller not waiting"}
  /\ Alive =>
       /\ kmt.status[Server] = "IDLE_RPC_CALLEE" => rpcQueue = << >>
       /\ \A t \in Thread :
            kmt.status[t] = "IDLE_RPC_CALLER" <=>
              \E i \in DOMAIN Unanswered : Unanswered[i] = t

\* The calls implement the promise of module RpcService.
Promise ==
  INSTANCE RpcService
  WITH Caller  <- Thread,
       Request <- Requests,
       asked   <- calling,
       pending <- Unanswered,
       answer  <- [t \in Thread |->
                     IF calling[t] # None /\ rpcReturn[t] # "EPENDING"
                     THEN rpcReturn[t] ELSE None]
ImplementsService == Promise!Spec

\* As long as the timer handler keeps being entered, every request is
\* answered, unless the aging pass cuts syscore off its queue.
RequestsAnswered ==
  TicksKeepComing =>
    \A t \in Thread \ {Boot, Idle, Server} :
      calling[t] # None ~>
        rpcReturn[t] # "EPENDING" \/ ~Alive \/ Server \in kmt.lost
=============================================================================
