---------------------------- MODULE KmtRpcProofs ----------------------------
(***************************************************************************)
(* The calls between threads, for any number of threads and requests: no   *)
(* wakeup is lost, and the calls implement module RpcService.  Open, the   *)
(* descriptors that are not answered yet, in order, ties the queue, the    *)
(* callers' fields and the threads' statuses together.                     *)
(***************************************************************************)
EXTENDS KmtRpc, KmtSchedProofs

RpcTypeOK ==
  /\ rpcQueue \in Seq(Descriptor)
  /\ rpcReturn \in [Thread -> {None, "EPENDING"} \cup Codes]
  /\ calling \in [Thread -> Requests \cup {None}]
  /\ server.pc \in {"setup", "loop", "listening", "handling"}
  /\ server = [pc |-> server.pc, call |-> server.call]
  /\ server.pc = "handling" => server.call \in Descriptor

\* The request syscore handles, and those behind it.
Open == IF server.pc = "handling" THEN <<server.call>> \o rpcQueue ELSE rpcQueue

InCall(q, t) == \E i \in DOMAIN q : q[i].caller = t
CallersDiffer(q) == \A i, j \in DOMAIN q : q[i].caller = q[j].caller => i = j
\* A caller waits for the answer to the request it made.
Pending(q) ==
  \A i \in DOMAIN q :
    calling[q[i].caller] = q[i].request /\ rpcReturn[q[i].caller] = "EPENDING"

\* The open descriptors are those of the threads blocked in kmt_rpc_call, one
\* each, and nobody else waits for an answer.
OpenInv ==
  /\ CallersDiffer(Open) /\ Pending(Open)
  /\ \A t \in Thread : kmt.status[t] = "IDLE_RPC_CALLER" <=> InCall(Open, t)
  /\ \A t \in Thread :
       calling[t] # None /\ rpcReturn[t] = "EPENDING" => kmt.status[t] = "IDLE_RPC_CALLER"

\* Syscore is blocked exactly while it listens to an empty queue; before it is
\* created nobody calls it, and afterwards it does not end.
ServerInv ==
  /\ kmt.status[Server] = "IDLE_RPC_CALLEE" <=> server.pc = "listening" /\ rpcQueue = << >>
  /\ kmt.count > Server => kmt.status[Server] # "TERMINATED"
  /\ kmt.count <= Server => rpcQueue = << >> /\ server.pc = "setup"

\* A thread inside a call, or listening, is in the scope that function opened.
CallInv ==
  /\ \A t \in Thread : calling[t] # None => rpcReturn[t] # None /\ OpenScopes(kmt, t) >= 1
  /\ server.pc = "listening" => OpenScopes(kmt, Server) >= 1
  /\ calling[Server] = None

RpcPanics == {"callee terminated", "no request", "caller not waiting"}

\* The inductive invariant.
RpcInv ==
  /\ IInv /\ RpcTypeOK
  /\ kmt.panic \notin RpcPanics
  /\ Alive => OpenInv /\ ServerInv /\ CallInv

-----------------------------------------------------------------------------
(* Sequences of descriptors.                                               *)

LEMMA AppendCall ==
  ASSUME NEW q \in Seq(Descriptor), NEW d \in Descriptor
  PROVE  LET a == Append(q, d)
         IN  /\ a \in Seq(Descriptor) /\ a # << >>
             /\ \A i \in DOMAIN a : a[i] = d \/ (i \in DOMAIN q /\ a[i] = q[i])
             /\ \A t : InCall(a, t) <=> InCall(q, t) \/ t = d.caller
             /\ CallersDiffer(q) /\ ~InCall(q, d.caller) => CallersDiffer(a)
<1> DEFINE a == Append(q, d)
<1>1. /\ a \in Seq(Descriptor) /\ DOMAIN q = 1 .. Len(q) /\ Len(q) \in Nat
      /\ DOMAIN a = 1 .. Len(q) + 1 /\ a # << >>
      /\ \A i \in DOMAIN q : a[i] = q[i]
      /\ a[Len(q) + 1] = d
  <2> DEFINE S == Descriptor
  <2>1. q \in Seq(S) /\ d \in S
    OBVIOUS
  <2> HIDE DEF S
  <2>2. /\ a \in Seq(S) /\ DOMAIN q = 1 .. Len(q) /\ Len(q) \in Nat
        /\ DOMAIN a = 1 .. Len(q) + 1 /\ a # << >>
        /\ \A i \in DOMAIN q : a[i] = q[i]
        /\ a[Len(q) + 1] = d
    BY <2>1, AppendOf
  <2> QED BY <2>2 DEF S
<1> HIDE DEF a
<1>2. \A i \in DOMAIN a : (i = Len(q) + 1 /\ a[i] = d) \/ (i \in DOMAIN q /\ a[i] = q[i])
  BY <1>1
<1>3. Len(q) + 1 \in DOMAIN a /\ \A i \in DOMAIN q : i \in DOMAIN a
  BY <1>1
<1>4. \A t : InCall(a, t) <=> InCall(q, t) \/ t = d.caller
  BY <1>1, <1>2, <1>3 DEF InCall
<1>5. CallersDiffer(q) /\ ~InCall(q, d.caller) => CallersDiffer(a)
  BY <1>2 DEF CallersDiffer, InCall
<1> QED BY <1>1, <1>2, <1>4, <1>5 DEF a

LEMMA FirstCall ==
  ASSUME NEW q \in Seq(Descriptor), q # << >>
  PROVE  /\ Head(q) \in Descriptor /\ Tail(q) \in Seq(Descriptor)
         /\ \A i \in DOMAIN Tail(q) : i + 1 \in DOMAIN q /\ Tail(q)[i] = q[i + 1]
         /\ InCall(q, Head(q).caller) /\ 1 \in DOMAIN q /\ Head(q) = q[1]
         /\ CallersDiffer(q) =>
              /\ CallersDiffer(Tail(q))
              /\ \A t : InCall(Tail(q), t) <=> InCall(q, t) /\ t # Head(q).caller
         /\ <<Head(q)>> \o Tail(q) = q
<1> DEFINE S == Descriptor
           r == Tail(q)
<1>1. q \in Seq(S)
  OBVIOUS
<1> HIDE DEF S
<1>2. /\ Head(q) \in S /\ r \in Seq(S) /\ Len(r) = Len(q) - 1 /\ Head(q) = q[1]
      /\ \A i \in 1 .. Len(r) : r[i] = q[i + 1]
  BY <1>1, HeadTailProperties
<1>3. Len(q) \in Nat /\ DOMAIN q = 1 .. Len(q) /\ DOMAIN r = 1 .. Len(r) /\ 1 \in DOMAIN q
  BY <1>1, <1>2
<1>4. <<Head(q)>> \o r = q
  <2> DEFINE h == Head(q)
             c == <<h>> \o r
  <2>1. h \in S
    BY <1>2
  <2> HIDE DEF h
  <2>2. <<h>> \in Seq(S) /\ Len(<<h>>) = 1 /\ <<h>>[1] = h
    BY <2>1
  <2>3. /\ c \in Seq(S) /\ Len(c) = 1 + Len(r)
        /\ \A i \in 1 .. 1 + Len(r) : c[i] = IF i <= 1 THEN <<h>>[i] ELSE r[i - 1]
    BY <2>2, <1>2, ConcatProperties
  <2> HIDE DEF c
  <2>4. Len(c) = Len(q) /\ Len(r) \in Nat
    BY <2>3, <1>2, <1>3
  <2>5. ASSUME NEW i \in 1 .. Len(q) PROVE c[i] = q[i]
    <3>1. CASE i = 1
      BY <3>1, <2>2, <2>3, <2>4, <1>2 DEF h
    <3>2. CASE i # 1
      <4>1. i - 1 \in 1 .. Len(r) /\ (i - 1) + 1 = i /\ ~(i <= 1) /\ i \in 1 .. 1 + Len(r)
        BY <3>2, <1>2, <1>3
      <4> QED BY <4>1, <2>3, <1>2
    <3> QED BY <3>1, <3>2
  <2>6. c = q
    BY <1>1, <2>3, <2>4, <2>5, SeqEqual
  <2> QED BY <2>6 DEF c, h
<1> HIDE DEF r
<1>5. \A i \in DOMAIN r : i + 1 \in DOMAIN q /\ r[i] = q[i + 1] /\ i + 1 # 1 /\ i \in Nat
  BY <1>2, <1>3
<1>6. \A i \in DOMAIN q : i = 1 \/ (i - 1 \in DOMAIN r /\ r[i - 1] = q[i])
  BY <1>2, <1>3
<1>7. ASSUME CallersDiffer(q)
      PROVE  /\ CallersDiffer(r)
             /\ \A t : InCall(r, t) <=> InCall(q, t) /\ t # Head(q).caller
  <2>1. CallersDiffer(r)
    <3> SUFFICES ASSUME NEW i \in DOMAIN r, NEW j \in DOMAIN r, r[i].caller = r[j].caller
                 PROVE  i = j
      BY DEF CallersDiffer
    <3>1. i + 1 = j + 1 /\ i \in Nat /\ j \in Nat
      BY <1>5, <1>7 DEF CallersDiffer
    <3> QED BY <3>1
  <2>2. ASSUME NEW t PROVE InCall(r, t) <=> InCall(q, t) /\ t # Head(q).caller
    <3>1. InCall(r, t) => InCall(q, t) /\ t # Head(q).caller
      <4> SUFFICES ASSUME NEW i \in DOMAIN r, r[i].caller = t
                   PROVE  InCall(q, t) /\ t # Head(q).caller
        BY DEF InCall
      <4>1. i + 1 \in DOMAIN q /\ q[i + 1].caller = t /\ i + 1 # 1
        BY <1>5
      <4>2. q[1].caller # t
        BY <4>1, <1>3, <1>7 DEF CallersDiffer
      <4> QED BY <4>1, <4>2, <1>2 DEF InCall
    <3>2. InCall(q, t) /\ t # Head(q).caller => InCall(r, t)
      <4> SUFFICES ASSUME NEW i \in DOMAIN q, q[i].caller = t, t # q[1].caller
                   PROVE  InCall(r, t)
        BY <1>2 DEF InCall
      <4>1. i - 1 \in DOMAIN r /\ r[i - 1].caller = t
        BY <1>6
      <4> QED BY <4>1 DEF InCall
    <3> QED BY <3>1, <3>2
  <2> QED BY <2>1, <2>2
<1>8. InCall(q, Head(q).caller)
  BY <1>2, <1>3 DEF InCall
<1> QED BY <1>2, <1>3, <1>4, <1>5, <1>7, <1>8 DEF r, S

\* A descriptor in front of a queue.
LEMMA FrontCall ==
  ASSUME NEW q \in Seq(Descriptor), NEW d \in Descriptor
  PROVE  LET c == <<d>> \o q
         IN  /\ c \in Seq(Descriptor) /\ c # << >> /\ Head(c) = d /\ Tail(c) = q
             /\ \A e \in Descriptor : <<d>> \o Append(q, e) = Append(c, e)
<1> DEFINE S == Descriptor
           c == <<d>> \o q
<1>1. q \in Seq(S) /\ d \in S
  OBVIOUS
<1> HIDE DEF S
<1>2. <<d>> \in Seq(S) /\ Len(<<d>>) = 1 /\ <<d>>[1] = d /\ Len(q) \in Nat
  BY <1>1
<1>3. /\ c \in Seq(S) /\ Len(c) = 1 + Len(q)
      /\ \A i \in 1 .. 1 + Len(q) : c[i] = IF i <= 1 THEN <<d>>[i] ELSE q[i - 1]
  BY <1>1, <1>2, ConcatProperties
<1> HIDE DEF c
<1>4. c # << >> /\ DOMAIN c = 1 .. Len(c)
  BY <1>2, <1>3
<1>5. /\ Head(c) = c[1] /\ Tail(c) \in Seq(S) /\ Len(Tail(c)) = Len(c) - 1
      /\ \A i \in 1 .. Len(Tail(c)) : Tail(c)[i] = c[i + 1]
  BY <1>3, <1>4, HeadTailProperties
<1>6. Head(c) = d
  BY <1>2, <1>3, <1>5
<1>7. Tail(c) = q
  <2>1. Len(Tail(c)) = Len(q)
    BY <1>2, <1>3, <1>5
  <2>2. ASSUME NEW i \in 1 .. Len(q) PROVE Tail(c)[i] = q[i]
    <3>1. i + 1 \in 1 .. 1 + Len(q) /\ ~(i + 1 <= 1) /\ (i + 1) - 1 = i
      BY <1>2
    <3> QED BY <3>1, <2>1, <1>3, <1>5
  <2> QED BY <1>1, <1>5, <2>1, <2>2, SeqEqual
<1>8. ASSUME NEW e \in S PROVE <<d>> \o Append(q, e) = Append(c, e)
  <2> DEFINE a == Append(q, e)
             b == <<d>> \o a
             f == Append(c, e)
  <2>1. /\ a \in Seq(S) /\ Len(a) = Len(q) + 1
        /\ \A i \in 1 .. Len(q) : a[i] = q[i]
        /\ a[Len(q) + 1] = e
    BY <1>1, AppendProperties
  <2> HIDE DEF a
  <2>2. /\ b \in Seq(S) /\ Len(b) = 1 + Len(a)
        /\ \A i \in 1 .. 1 + Len(a) : b[i] = IF i <= 1 THEN <<d>>[i] ELSE a[i - 1]
    BY <2>1, <1>2, ConcatProperties
  <2>3. /\ f \in Seq(S) /\ Len(f) = Len(c) + 1
        /\ \A i \in 1 .. Len(c) : f[i] = c[i]
        /\ f[Len(c) + 1] = e
    BY <1>3, AppendProperties
  <2> HIDE DEF b, f
  <2>4. Len(b) = Len(f)
    BY <1>2, <1>3, <2>1, <2>2, <2>3
  <2>5. ASSUME NEW i \in 1 .. Len(b) PROVE b[i] = f[i]
    <3>1. i \in 1 .. 2 + Len(q) /\ i \in Nat
      BY <1>2, <2>1, <2>2
    <3>2. CASE i = 1
      BY <3>2, <1>2, <1>3, <2>1, <2>2, <2>3
    <3>3. CASE i = 2 + Len(q)
      <4>1. i - 1 = Len(q) + 1 /\ ~(i <= 1) /\ i = Len(c) + 1 /\ i \in 1 .. 1 + Len(a)
        BY <3>3, <1>2, <1>3, <2>1
      <4> QED BY <4>1, <2>1, <2>2, <2>3
    <3>4. CASE i # 1 /\ i # 2 + Len(q)
      <4>1. /\ i - 1 \in 1 .. Len(q) /\ ~(i <= 1) /\ i \in 1 .. Len(c)
            /\ i \in 1 .. 1 + Len(a) /\ i \in 1 .. 1 + Len(q)
        BY <3>1, <3>4, <1>2, <1>3, <2>1
      <4>2. b[i] = a[i - 1] /\ a[i - 1] = q[i - 1] /\ f[i] = c[i] /\ c[i] = q[i - 1]
        BY <4>1, <1>3, <2>1, <2>2, <2>3
      <4> QED BY <4>2
    <3> QED BY <3>2, <3>3, <3>4
  <2>6. b = f
    BY <2>2, <2>3, <2>4, <2>5, SeqEqual
  <2> QED BY <2>6 DEF a, b, f
<1> QED BY <1>3, <1>4, <1>6, <1>7, <1>8 DEF c, S

-----------------------------------------------------------------------------
(* Every step keeps the invariant.                                         *)

LEMMA ServerIsThread == Server \in Thread /\ Server # Boot /\ Server # Idle
BY RpcAssumption, KmtAssumption DEF Server, Thread, Boot, Idle

LEMMA OpenIs ==
  ASSUME RpcTypeOK
  PROVE  /\ Open \in Seq(Descriptor)
         /\ server.pc # "handling" => Open = rpcQueue
         /\ server.pc = "handling" =>
              /\ server.call \in Descriptor /\ Open # << >>
              /\ Head(Open) = server.call /\ Tail(Open) = rpcQueue
              /\ \A e \in Descriptor : <<server.call>> \o Append(rpcQueue, e) = Append(Open, e)
<1>1. rpcQueue \in Seq(Descriptor)
  BY DEF RpcTypeOK
<1>2. CASE server.pc # "handling"
  BY <1>1, <1>2 DEF Open
<1>3. CASE server.pc = "handling"
  <2>1. server.call \in Descriptor
    BY <1>3 DEF RpcTypeOK
  <2>2. Open = <<server.call>> \o rpcQueue
    BY <1>3 DEF Open
  <2> QED BY <1>1, <1>3, <2>1, <2>2, FrontCall
<1> QED BY <1>2, <1>3

LEMMA ScopeCount ==
  ASSUME NEW k \in KmtState, NEW t \in Thread
  PROVE  /\ OpenScopes(k, t) \in Nat
         /\ t = k.current /\ OpenScopes(k, t) >= 1 => k.saved[t] # << >>
<1>1. k.saved[t] \in Seq(BOOLEAN)
  BY DEF KmtState
<1>2. Len(k.saved[t]) \in Nat /\ (k.saved[t] # << >> => Len(k.saved[t]) > 0)
      /\ (k.saved[t] = << >> => Len(k.saved[t]) = 0)
  BY <1>1
<1> QED BY <1>2 DEF OpenScopes, Nested

\* What the functions of the calls start from.
LEMMA InRpc ==
  ASSUME RpcInv, IsThread
  PROVE  /\ Alive /\ kmt \in KmtState /\ KernelInv(kmt) /\ SleepersInv(kmt, sleepers)
         /\ kmt.panic = "none" /\ boot \in {"enabled", "dead"}
         /\ sleepers \in SUBSET Request /\ handler \in HandlerState
         /\ Me \in Thread /\ Me = kmt.current /\ kmt.status[Me] = "RUNNING"
         /\ kmt.count \in Nat /\ Me < kmt.count
         /\ IInv /\ RpcTypeOK /\ OpenInv /\ ServerInv /\ CallInv
         /\ ~InCall(Open, Me)
<1>1. Alive /\ boot # "early" /\ IInv /\ RpcTypeOK /\ OpenInv /\ ServerInv /\ CallInv
  BY NotEarly DEF RpcInv, IsThread, ThreadRuns, Alive, Me
<1>2. /\ kmt \in KmtState /\ KernelInv(kmt) /\ SleepersInv(kmt, sleepers)
      /\ kmt.panic = "none" /\ boot \in {"enabled", "dead"}
      /\ sleepers \in SUBSET Request /\ handler \in HandlerState
  BY <1>1, RunningKernel
<1>3. Me \in Thread /\ Me = kmt.current /\ kmt.status[Me] = "RUNNING" /\ kmt.count \in Nat
  BY <1>2, FieldTypes DEF KernelInv, OnlyCurrentRuns, Me
<1>4. Me < kmt.count
  <2>1. ~(Me >= kmt.count)
    BY <1>2, <1>3 DEF KernelInv, Uncreated
  <2>2. Me \in Nat
    BY <1>2, <1>3, FieldTypes
  <2> QED BY <1>3, <2>1, <2>2
<1>5. ~InCall(Open, Me)
  BY <1>1, <1>3 DEF OpenInv
<1> QED BY <1>1, <1>2, <1>3, <1>4, <1>5

LEMMA SameOpen ==
  ASSUME OpenInv, Open' = Open, calling' = calling, rpcReturn' = rpcReturn,
         \A t \in Thread : kmt'.status[t] = "IDLE_RPC_CALLER"
                             <=> kmt.status[t] = "IDLE_RPC_CALLER"
  PROVE  OpenInv'
<1>1. CallersDiffer(Open)' /\ Pending(Open)'
  BY DEF OpenInv, CallersDiffer, Pending
<1>2. \A t \in Thread : InCall(Open, t)' <=> InCall(Open, t)
  BY DEF InCall
<1> QED BY <1>1, <1>2 DEF OpenInv

\* A step that leaves the variables of the calls alone and stays in the frame.
LEMMA FrameKeeps ==
  ASSUME RpcInv, Alive, IInv', NEW ended, Frame(ended, {}), Server \notin ended,
         UNCHANGED rpcVars
  PROVE  RpcInv'
<1>1. /\ rpcQueue' = rpcQueue /\ rpcReturn' = rpcReturn /\ calling' = calling
      /\ server' = server
  BY DEF rpcVars
<1>2. /\ IInv /\ RpcTypeOK /\ OpenInv /\ ServerInv /\ CallInv /\ kmt \in KmtState
  BY DEF RpcInv, IInv, Typed
<1>3. RpcTypeOK' /\ Open' = Open
  BY <1>1, <1>2 DEF RpcTypeOK, Open
<1>4. /\ \A t \in Thread, s \in OutsideWaits : kmt'.status[t] = s <=> kmt.status[t] = s
      /\ \A t \in Thread \ ended : kmt'.status[t] = "TERMINATED" => kmt.status[t] = "TERMINATED"
      /\ \A t \in Thread : t >= kmt.count /\ t < kmt'.count => kmt'.status[t] # "TERMINATED"
      /\ kmt'.count >= kmt.count
      /\ Alive' => \A t \in Thread : OpenScopes(kmt', t) = OpenScopes(kmt, t)
      /\ kmt'.panic \in {"none", "bitmap is zero", "pool full", "null dereference"}
  BY DEF Frame
<1>5. "IDLE_RPC_CALLER" \in OutsideWaits /\ "IDLE_RPC_CALLEE" \in OutsideWaits
  BY DEF OutsideWaits
<1>6. OpenInv'
  <2>1. \A t \in Thread : kmt'.status[t] = "IDLE_RPC_CALLER" <=> kmt.status[t] = "IDLE_RPC_CALLER"
    BY <1>4, <1>5
  <2> QED BY <1>1, <1>2, <1>3, <2>1, SameOpen
<1>7. ServerInv'
  <2>1. kmt.count \in Nat /\ kmt'.count \in Nat /\ Server \in Thread /\ Server \in Nat
    <3>1. kmt' \in KmtState
      BY DEF IInv, Typed
    <3> QED BY <1>2, <3>1, FieldTypes, ServerIsThread
  <2>2. kmt'.status[Server] = "IDLE_RPC_CALLEE" <=> kmt.status[Server] = "IDLE_RPC_CALLEE"
    BY <1>4, <1>5, <2>1
  <2>3. kmt'.count > Server => kmt'.status[Server] # "TERMINATED"
    <3>1. CASE kmt.count > Server
      BY <3>1, <1>2, <1>4, <2>1 DEF ServerInv
    <3>2. CASE ~(kmt.count > Server)
      <4>1. Server >= kmt.count /\ (kmt'.count > Server => Server < kmt'.count)
        BY <3>2, <2>1
      <4> QED BY <4>1, <1>4, <2>1
    <3> QED BY <3>1, <3>2
  <2>4. kmt'.count <= Server => kmt.count <= Server
    <3>1. kmt'.count >= kmt.count
      BY <1>4
    <3> QED BY <2>1, <3>1
  <2> QED BY <1>1, <1>2, <2>2, <2>3, <2>4 DEF ServerInv
<1>8. Alive' => CallInv'
  <2> SUFFICES ASSUME Alive' PROVE CallInv'
    OBVIOUS
  <2>1. \A t \in Thread : OpenScopes(kmt, t)' = OpenScopes(kmt, t)
    BY <1>4 DEF OpenScopes
  <2> QED BY <1>1, <1>2, <2>1, ServerIsThread DEF CallInv
<1>9. kmt'.panic \notin RpcPanics
  BY <1>4 DEF RpcPanics
<1> QED BY <1>3, <1>6, <1>7, <1>8, <1>9 DEF RpcInv

\* The step changes the flags of the current thread only.
LEMMA FlagsKeep ==
  ASSUME IInv, Alive, kmt.current # Boot, kmt' \in KmtState, KernelInv(kmt'),
         OnlyFlags(kmt, kmt'), UNCHANGED <<sleepers, handler, boot>>
  PROVE  IInv' /\ kmt'.panic = "none" /\ kmt'.status = kmt.status /\ kmt'.count = kmt.count
<1>1. /\ kmt \in KmtState /\ SleepersInv(kmt, sleepers)
      /\ kmt.panic = "none" /\ boot \in {"enabled", "dead"}
      /\ sleepers \in SUBSET Request /\ handler \in HandlerState
  BY NotEarly, RunningKernel
<1>2. SleepersInv(kmt', sleepers')
  BY <1>1 DEF SleepersInv, OnlyFlags
<1>3. kmt'.panic = "none" /\ kmt'.status = kmt.status /\ kmt'.count = kmt.count
  BY <1>1 DEF OnlyFlags
<1> QED BY <1>1, <1>2, <1>3, StepKeeps

\* A request of the running thread goes behind the open ones.
Asks ==
  \E r \in Requests :
    /\ Open' = Append(Open, [caller |-> Me, request |-> r])
    /\ calling' = [calling EXCEPT ![Me] = r]
    /\ rpcReturn' = [rpcReturn EXCEPT ![Me] = "EPENDING"]

\* kmt_rpc_call.
LEMMA CallKeeps == RpcInv /\ Call => RpcInv' /\ Asks
<1> SUFFICES ASSUME RpcInv, Call PROVE RpcInv' /\ Asks
  OBVIOUS
<1> DEFINE k == StopPreempting(kmt)
           woken == IF rpcQueue = << >> /\ kmt.status[Server] = "IDLE_RPC_CALLEE"
                    THEN WakeIdle(k, Server) ELSE k
<1>1. /\ IsThread /\ Me # Server /\ Outside /\ Server \in Created(kmt)
      /\ UNCHANGED <<sleepers, handler, boot, server>>
  BY DEF Call, IsWorker
<1>2. /\ Alive /\ kmt \in KmtState /\ KernelInv(kmt) /\ SleepersInv(kmt, sleepers)
      /\ kmt.panic = "none" /\ boot \in {"enabled", "dead"}
      /\ sleepers \in SUBSET Request /\ handler \in HandlerState
      /\ Me \in Thread /\ Me = kmt.current /\ kmt.status[Me] = "RUNNING"
      /\ kmt.count \in Nat /\ Me < kmt.count
      /\ IInv /\ RpcTypeOK /\ OpenInv /\ ServerInv /\ CallInv
      /\ ~InCall(Open, Me)
  BY <1>1, InRpc
<1>3. Server \in Thread /\ kmt.count > Server /\ kmt.status[Server] # "TERMINATED"
  BY <1>1, <1>2 DEF Created, ServerInv, Server
<1>4. PICK r \in Asked :
        /\ rpcQueue' = Append(rpcQueue, [caller |-> Me, request |-> r])
        /\ calling' = [calling EXCEPT ![Me] = r]
        /\ rpcReturn' = [rpcReturn EXCEPT ![Me] = "EPENDING"]
        /\ kmt' = kmt_schedule(woken, "IDLE_RPC_CALLER", "call")
  BY <1>3 DEF Call
\* The kernel state: syscore is ready if it listened, the caller blocked.
<1>5. /\ k \in KmtState /\ KernelInv(k) /\ OnlyFlags(kmt, k)
      /\ \A t \in Thread :
           OpenScopes(k, t) = IF t = Me THEN OpenScopes(kmt, t) + 1 ELSE OpenScopes(kmt, t)
  BY <1>2, StopPreemptingKeeps
<1> HIDE DEF k
<1>6. /\ woken \in KmtState /\ KernelInv(woken) /\ woken.panic = "none"
      /\ woken.current = Me /\ woken.count = kmt.count /\ woken.saved = k.saved
      /\ \A t \in Thread :
           woken.status[t] = IF t = Server /\ kmt.status[Server] = "IDLE_RPC_CALLEE"
                             THEN "READY" ELSE kmt.status[t]
  <2>1. k.status = kmt.status /\ k.current = Me /\ k.count = kmt.count /\ k.panic = "none"
    BY <1>2, <1>5 DEF OnlyFlags
  <2>2. CASE kmt.status[Server] = "IDLE_RPC_CALLEE"
    <3>1. rpcQueue = << >>
      BY <1>2, <2>2 DEF ServerInv
    <3>2. woken = WakeIdle(k, Server)
      BY <2>2, <3>1
    <3>3. k.status[Server] \notin {"READY", "RUNNING", "TERMINATED"}
      BY <2>1, <2>2
    <3> HIDE DEF woken
    <3>4. /\ woken \in KmtState /\ QueueInv(woken) /\ SameThreads(k, woken)
          /\ woken.status = [k.status EXCEPT ![Server] = "READY"]
      BY <1>3, <1>5, <3>2, <3>3, WakeIdleKeepsQueues DEF KernelInv
    <3>5. BaseInv(k) /\ ScopeInv(k) /\ k \in KmtState
      BY <1>5 DEF KernelInv, BaseInv
    <3>6. /\ BaseInv(woken) /\ ScopeInv(woken)
          /\ \A u \in Thread : woken.status[u] = IF u = Server THEN "READY" ELSE k.status[u]
      BY ZenonT(40), <1>3, <3>3, <3>4, <3>5, WakeKeepsBase
    <3> QED BY <2>1, <2>2, <3>4, <3>6 DEF KernelInv, BaseInv, SameThreads
  <2>3. CASE kmt.status[Server] # "IDLE_RPC_CALLEE"
    BY <1>5, <2>1, <2>3
  <2> QED BY <2>2, <2>3
<1> HIDE DEF woken
<1>7. /\ IInv' /\ kmt'.panic \in {"none", "bitmap is zero"} /\ kmt'.count = woken.count
      /\ \A t \in Thread, s \in Blocked :
           kmt'.status[t] = s <=> (IF t = Me THEN "IDLE_RPC_CALLER" ELSE woken.status[t]) = s
      /\ Alive' => SameScopes(woken, kmt')
  <2>1. SleepersInv(woken, sleepers)
    BY <1>2, <1>6 DEF SleepersInv, Request
  <2>2. "IDLE_RPC_CALLER" \in OutsideWaits
    BY DEF OutsideWaits
  <2>3. UNCHANGED <<sleepers, handler, boot>>
    BY <1>1
  <2>4. /\ sleepers \in SUBSET Request /\ handler \in HandlerState
        /\ boot \in {"enabled", "dead"}
    BY <1>2
  <2> QED BY <1>4, <1>6, <2>1, <2>2, <2>3, <2>4, WaitsOutside
<1>8. /\ "IDLE_RPC_CALLER" \in Blocked /\ "IDLE_RPC_CALLEE" \in Blocked
      /\ "TERMINATED" \in Blocked
  BY DEF Blocked, Status
<1>9. \A t \in Thread :
        /\ kmt'.status[t] = "IDLE_RPC_CALLER" <=> t = Me \/ kmt.status[t] = "IDLE_RPC_CALLER"
        /\ t = Server => kmt'.status[t] # "IDLE_RPC_CALLEE" /\ kmt'.status[t] # "TERMINATED"
  <2> SUFFICES ASSUME NEW t \in Thread
               PROVE  /\ kmt'.status[t] = "IDLE_RPC_CALLER"
                            <=> t = Me \/ kmt.status[t] = "IDLE_RPC_CALLER"
                      /\ t = Server => /\ kmt'.status[t] # "IDLE_RPC_CALLEE"
                                       /\ kmt'.status[t] # "TERMINATED"
    OBVIOUS
  <2>1. \A s \in Blocked :
          kmt'.status[t] = s <=> (IF t = Me THEN "IDLE_RPC_CALLER" ELSE woken.status[t]) = s
    BY <1>7
  <2>2. woken.status[t] = IF t = Server /\ kmt.status[Server] = "IDLE_RPC_CALLEE"
                          THEN "READY" ELSE kmt.status[t]
    BY <1>6
  <2>3. /\ kmt'.status[t] = "IDLE_RPC_CALLER"
             <=> (IF t = Me THEN "IDLE_RPC_CALLER" ELSE woken.status[t]) = "IDLE_RPC_CALLER"
        /\ kmt'.status[t] = "IDLE_RPC_CALLEE"
             <=> (IF t = Me THEN "IDLE_RPC_CALLER" ELSE woken.status[t]) = "IDLE_RPC_CALLEE"
        /\ kmt'.status[t] = "TERMINATED"
             <=> (IF t = Me THEN "IDLE_RPC_CALLER" ELSE woken.status[t]) = "TERMINATED"
    BY <1>8, <2>1
  <2> QED BY <1>1, <1>3, <2>2, <2>3
<1>10. Alive' => \A t \in Thread :
         OpenScopes(kmt', t) = IF t = Me THEN OpenScopes(kmt, t) + 1 ELSE OpenScopes(kmt, t)
  <2>1. k.current = Me
    BY <1>2, <1>5 DEF OnlyFlags
  <2>2. \A t \in Thread : OpenScopes(woken, t) = OpenScopes(k, t)
    BY <1>6, <2>1 DEF OpenScopes
  <2> QED BY <1>5, <1>7, <2>2 DEF SameScopes
\* The variables of the calls.
<1> DEFINE d == [caller |-> Me, request |-> r]
<1>11. d \in Descriptor /\ d.caller = Me /\ d.request = r /\ r \in Requests
  BY <1>2, RpcAssumption DEF Descriptor
<1>12. rpcQueue' = Append(rpcQueue, d)
  BY <1>4
<1> HIDE DEF d
<1>13. /\ rpcQueue \in Seq(Descriptor)
       /\ rpcReturn \in [Thread -> {None, "EPENDING"} \cup Codes]
       /\ calling \in [Thread -> Requests \cup {None}]
  BY <1>2 DEF RpcTypeOK
<1>14. rpcQueue' \in Seq(Descriptor) /\ rpcQueue' # << >>
  BY <1>11, <1>12, <1>13, AppendCall
<1>15. Open' = Append(Open, d) /\ Open \in Seq(Descriptor)
  <2>1. server' = server
    BY <1>1
  <2>2. CASE server.pc = "handling"
    <3>1. Open' = <<server.call>> \o rpcQueue'
      BY <2>1, <2>2 DEF Open
    <3> QED BY <2>2, <3>1, <1>2, <1>11, <1>12, OpenIs
  <2>3. CASE server.pc # "handling"
    <3>1. Open' = rpcQueue'
      BY <2>1, <2>3 DEF Open
    <3> QED BY <2>3, <3>1, <1>2, <1>12, OpenIs
  <2> QED BY <2>2, <2>3
<1>16. /\ \A t \in Thread : calling'[t] = IF t = Me THEN r ELSE calling[t]
       /\ \A t \in Thread : rpcReturn'[t] = IF t = Me THEN "EPENDING" ELSE rpcReturn[t]
  BY <1>4, <1>13
<1>17. RpcTypeOK'
  <2>1. calling' \in [Thread -> Requests \cup {None}]
    BY <1>4, <1>11, <1>13
  <2>2. rpcReturn' \in [Thread -> {None, "EPENDING"} \cup Codes]
    BY <1>4, <1>13
  <2> QED BY <1>1, <1>2, <1>14, <2>1, <2>2 DEF RpcTypeOK
<1>18. OpenInv'
  <2> DEFINE q == Append(Open, d)
  <2>1. /\ q \in Seq(Descriptor)
        /\ \A i \in DOMAIN q : q[i] = d \/ (i \in DOMAIN Open /\ q[i] = Open[i])
        /\ \A t : InCall(q, t) <=> InCall(Open, t) \/ t = Me
        /\ CallersDiffer(q)
    BY <1>2, <1>11, <1>15, AppendCall DEF OpenInv
  <2> HIDE DEF q
  <2>2. Open' = q
    BY <1>15 DEF q
  <2>3. \A i \in DOMAIN Open : Open[i].caller # Me /\ Open[i].caller \in Thread
    <3>1. \A i \in DOMAIN Open : Open[i] \in Descriptor
      BY <1>15
    <3> QED BY <1>2, <3>1 DEF InCall, Descriptor
  <2>4. Pending(Open)'
    <3> SUFFICES ASSUME NEW i \in DOMAIN q
                 PROVE  calling'[q[i].caller] = q[i].request /\ rpcReturn'[q[i].caller] = "EPENDING"
      BY <2>2 DEF Pending
    <3>1. CASE q[i] = d
      BY <3>1, <1>2, <1>11, <1>16
    <3>2. CASE i \in DOMAIN Open /\ q[i] = Open[i]
      BY <3>2, <2>3, <1>2, <1>16 DEF OpenInv, Pending
    <3> QED BY <2>1, <3>1, <3>2
  <2>5. CallersDiffer(Open)' /\ \A t \in Thread : InCall(Open, t)' <=> InCall(Open, t) \/ t = Me
    BY <2>1, <2>2 DEF CallersDiffer, InCall
  <2> QED BY <1>2, <1>9, <1>16, <2>4, <2>5 DEF OpenInv
<1>19. ServerInv'
  <2>1. /\ kmt'.status[Server] # "IDLE_RPC_CALLEE"
        /\ kmt'.status[Server] # "TERMINATED"
    BY <1>3, <1>9
  <2>2. kmt'.count = kmt.count
    BY <1>6, <1>7
  <2>3. ~(kmt.count <= Server)
    BY <1>2, <1>3 DEF Server
  <2> QED BY <1>14, <2>1, <2>2, <2>3 DEF ServerInv
<1>20. Alive' => CallInv'
  <2> SUFFICES ASSUME Alive' PROVE CallInv'
    OBVIOUS
  <2>1. \A t \in Thread : OpenScopes(kmt, t)' = OpenScopes(kmt', t) /\ OpenScopes(kmt, t) \in Nat
    BY <1>2, ScopeCount DEF OpenScopes
  <2>2. \A t \in Thread : OpenScopes(kmt, t)' >= OpenScopes(kmt, t)
    BY <1>10, <2>1
  <2>3. OpenScopes(kmt, Me) + 1 >= 1
    BY <1>2, <2>1
  <2>4. \A t \in Thread : calling'[t] # None => rpcReturn'[t] # None /\ OpenScopes(kmt, t)' >= 1
    <3> SUFFICES ASSUME NEW t \in Thread, calling'[t] # None
                 PROVE  rpcReturn'[t] # None /\ OpenScopes(kmt, t)' >= 1
      OBVIOUS
    <3>1. CASE t = Me
      BY <3>1, <1>10, <1>16, <2>1, <2>3 DEF None
    <3>2. CASE t # Me
      BY <3>2, <1>2, <1>10, <1>16, <2>1 DEF CallInv
    <3> QED BY <3>1, <3>2
  <2> QED BY <1>1, <1>2, <1>3, <1>10, <1>16, <2>1, <2>4 DEF CallInv
<1>21. kmt'.panic \notin RpcPanics
  BY <1>7 DEF RpcPanics
<1>22. Asks
  BY <1>4, <1>11, <1>15 DEF Asks, d
<1> QED BY <1>7, <1>17, <1>18, <1>19, <1>20, <1>21, <1>22 DEF RpcInv

\* Back in kmt_rpc_call the answer is there: the loop never goes round.
LEMMA CallReturnsKeeps ==
  RpcInv /\ CallReturns => RpcInv' /\ rpcReturn[Me] \notin {None, "EPENDING"}
<1> SUFFICES ASSUME RpcInv, CallReturns
             PROVE  RpcInv' /\ rpcReturn[Me] \notin {None, "EPENDING"}
  OBVIOUS
<1>1. IsThread /\ ~Outside /\ UNCHANGED <<sleepers, handler, boot, rpcQueue, server>>
  BY DEF CallReturns
<1>2. /\ Alive /\ kmt \in KmtState /\ KernelInv(kmt)
      /\ Me \in Thread /\ Me = kmt.current /\ kmt.status[Me] = "RUNNING"
      /\ IInv /\ RpcTypeOK /\ OpenInv /\ ServerInv /\ CallInv
      /\ ~InCall(Open, Me)
  BY <1>1, InRpc
<1>3. calling[Me] # None /\ rpcReturn[Me] # "EPENDING" /\ rpcReturn[Me] # None
      /\ OpenScopes(kmt, Me) >= 1
  BY <1>1, <1>2 DEF Outside, OpenInv, CallInv
<1>4. /\ kmt' = RestoreFlags(kmt) /\ calling' = [calling EXCEPT ![Me] = None]
      /\ rpcReturn' = rpcReturn
  BY <1>3 DEF CallReturns
<1>5. kmt.saved[kmt.current] # << >>
  BY <1>2, <1>3, ScopeCount
<1>6. /\ kmt' \in KmtState /\ KernelInv(kmt') /\ OnlyFlags(kmt, kmt')
      /\ \A t \in Thread : t # kmt.current => OpenScopes(kmt', t) = OpenScopes(kmt, t)
  BY <1>2, <1>4, <1>5, RestoreFlagsKeeps
<1>7. IInv' /\ kmt'.panic = "none" /\ kmt'.status = kmt.status /\ kmt'.count = kmt.count
  <2>1. kmt.current # Boot
    BY <1>1 DEF IsThread, Me
  <2> QED BY <1>1, <1>2, <1>6, <2>1, FlagsKeep
<1>8. \A t \in Thread : calling'[t] = IF t = Me THEN None ELSE calling[t]
  BY <1>2, <1>4 DEF RpcTypeOK
<1>9. RpcTypeOK'
  BY <1>1, <1>2, <1>4 DEF RpcTypeOK
<1>10. OpenInv'
  <2>1. Open' = Open /\ Open \in Seq(Descriptor)
    BY <1>1, <1>2, OpenIs DEF Open
  <2>2. \A i \in DOMAIN Open : Open[i].caller # Me /\ Open[i].caller \in Thread
    <3>1. \A i \in DOMAIN Open : Open[i] \in Descriptor
      BY <2>1
    <3> QED BY <1>2, <3>1 DEF InCall, Descriptor
  <2>3. Pending(Open)'
    BY <1>2, <1>4, <1>8, <2>1, <2>2 DEF OpenInv, Pending
  <2>4. CallersDiffer(Open)' /\ \A t \in Thread : InCall(Open, t)' <=> InCall(Open, t)
    BY <1>2, <2>1 DEF OpenInv, CallersDiffer, InCall
  <2> QED BY <1>2, <1>4, <1>7, <1>8, <2>3, <2>4 DEF OpenInv
<1>11. ServerInv'
  BY <1>1, <1>2, <1>7 DEF ServerInv
<1>12. CallInv'
  <2>1. Me # Server
    BY <1>2, <1>3 DEF CallInv
  <2>2. \A t \in Thread : t # Me => OpenScopes(kmt, t)' = OpenScopes(kmt, t)
    BY <1>2, <1>6 DEF OpenScopes
  <2> QED BY <1>1, <1>2, <1>4, <1>8, <2>1, <2>2, ServerIsThread DEF CallInv
<1>13. kmt'.panic \notin RpcPanics
  BY <1>7 DEF RpcPanics
<1> QED BY <1>3, <1>7, <1>9, <1>10, <1>11, <1>12, <1>13 DEF RpcInv

LEMMA TakeIs ==
  ASSUME RpcTypeOK, server.pc # "handling", rpcQueue # << >>, Take
  PROVE  /\ rpcQueue' \in Seq(Descriptor) /\ server'.pc = "handling"
         /\ server'.call \in Descriptor
         /\ server' = [pc |-> server'.pc, call |-> server'.call]
         /\ Open' = Open /\ Open' = <<server'.call>> \o rpcQueue'
<1>1. /\ server' = [pc |-> "handling", call |-> Head(rpcQueue)]
      /\ rpcQueue' = Tail(rpcQueue)
  BY DEF Take
<1>2. rpcQueue \in Seq(Descriptor)
  BY DEF RpcTypeOK
<1>3. /\ Head(rpcQueue) \in Descriptor /\ Tail(rpcQueue) \in Seq(Descriptor)
      /\ <<Head(rpcQueue)>> \o Tail(rpcQueue) = rpcQueue
  BY <1>2, FirstCall
<1>4. server'.pc = "handling" /\ server'.call = Head(rpcQueue)
  BY <1>1
<1>5. Open' = <<server'.call>> \o rpcQueue'
  BY <1>4 DEF Open
<1>6. Open = rpcQueue
  BY DEF Open
<1> QED BY <1>1, <1>3, <1>4, <1>5, <1>6

\* kmt_rpc_listen, up to the point where it blocks.
LEMMA ListenKeeps == RpcInv /\ Listen => RpcInv' /\ Open' = Open
<1> SUFFICES ASSUME RpcInv, Listen PROVE RpcInv' /\ Open' = Open
  OBVIOUS
<1>1. /\ IsThread /\ Me = Server /\ server.pc \in {"setup", "loop"}
      /\ UNCHANGED <<sleepers, handler, boot, cut, rpcReturn, calling>>
  BY DEF Listen, AtServer, IsWorker
<1>2. /\ Alive /\ kmt \in KmtState /\ KernelInv(kmt) /\ SleepersInv(kmt, sleepers)
      /\ kmt.panic = "none" /\ boot \in {"enabled", "dead"}
      /\ sleepers \in SUBSET Request /\ handler \in HandlerState
      /\ Me \in Thread /\ Me = kmt.current /\ kmt.status[Me] = "RUNNING"
      /\ kmt.count \in Nat /\ Me < kmt.count
      /\ IInv /\ RpcTypeOK /\ OpenInv /\ ServerInv /\ CallInv
      /\ ~InCall(Open, Me)
  BY <1>1, InRpc
<1>3. ~(kmt.count <= Server)
  BY <1>1, <1>2 DEF Server
<1>4. CASE rpcQueue # << >>
  <2>1. Take /\ kmt' = kmt
    BY <1>4 DEF Listen
  <2>2. /\ rpcQueue' \in Seq(Descriptor) /\ server'.pc = "handling"
        /\ server'.call \in Descriptor
        /\ server' = [pc |-> server'.pc, call |-> server'.call] /\ Open' = Open
    BY <1>1, <1>2, <1>4, <2>1, TakeIs
  <2>3. IInv'
    BY <1>1, <1>2, <2>1, StutterKeeps DEF vars
  <2>4. RpcTypeOK'
    BY <1>1, <1>2, <2>2 DEF RpcTypeOK
  <2>5. OpenInv'
    BY <1>1, <1>2, <2>1, <2>2, SameOpen
  <2>6. ServerInv'
    BY <1>1, <1>2, <1>3, <2>1, <2>2 DEF ServerInv
  <2>7. CallInv'
    BY <1>1, <1>2, <2>1, <2>2 DEF CallInv
  <2>8. kmt'.panic \notin RpcPanics
    BY <1>2, <2>1 DEF RpcPanics
  <2> QED BY <2>2, <2>3, <2>4, <2>5, <2>6, <2>7, <2>8 DEF RpcInv
<1>5. CASE rpcQueue = << >>
  <2> DEFINE k == StopPreempting(kmt)
  <2>1. /\ kmt' = kmt_schedule(k, "IDLE_RPC_CALLEE", "call")
        /\ server' = [server EXCEPT !.pc = "listening"] /\ rpcQueue' = rpcQueue
    BY <1>5 DEF Listen
  <2>2. /\ k \in KmtState /\ KernelInv(k) /\ OnlyFlags(kmt, k)
        /\ \A t \in Thread :
             OpenScopes(k, t) = IF t = Me THEN OpenScopes(kmt, t) + 1 ELSE OpenScopes(kmt, t)
    BY <1>2, StopPreemptingKeeps
  <2> HIDE DEF k
  <2>3. k.status = kmt.status /\ k.current = Me /\ k.panic = "none" /\ k.count = kmt.count
    BY <1>2, <2>2 DEF OnlyFlags
  <2>4. SleepersInv(k, sleepers)
    BY <1>2, <2>3 DEF SleepersInv
  <2>5. /\ IInv' /\ kmt'.panic \in {"none", "bitmap is zero"} /\ kmt'.count = k.count
        /\ \A t \in Thread, s \in Blocked :
             kmt'.status[t] = s <=> (IF t = Me THEN "IDLE_RPC_CALLEE" ELSE k.status[t]) = s
        /\ Alive' => SameScopes(k, kmt')
    <3>1. "IDLE_RPC_CALLEE" \in OutsideWaits
      BY DEF OutsideWaits
    <3>2. UNCHANGED <<sleepers, handler, boot>>
      BY <1>1
    <3>3. /\ sleepers \in SUBSET Request /\ handler \in HandlerState
          /\ boot \in {"enabled", "dead"}
      BY <1>2
    <3> QED BY <2>1, <2>2, <2>3, <2>4, <3>1, <3>2, <3>3, WaitsOutside
  <2>6. /\ "IDLE_RPC_CALLER" \in Blocked /\ "IDLE_RPC_CALLEE" \in Blocked
        /\ "TERMINATED" \in Blocked
    BY DEF Blocked, Status
  <2>7. /\ \A t \in Thread : kmt'.status[t] = "IDLE_RPC_CALLER" <=> kmt.status[t] = "IDLE_RPC_CALLER"
        /\ kmt'.status[Server] = "IDLE_RPC_CALLEE" /\ kmt'.status[Server] # "TERMINATED"
    <3>1. ASSUME NEW t \in Thread
          PROVE  kmt'.status[t] = "IDLE_RPC_CALLER" <=> kmt.status[t] = "IDLE_RPC_CALLER"
      <4>1. kmt'.status[t] = "IDLE_RPC_CALLER"
              <=> (IF t = Me THEN "IDLE_RPC_CALLEE" ELSE k.status[t]) = "IDLE_RPC_CALLER"
        BY <2>5, <2>6
      <4> QED BY <1>2, <2>3, <4>1
    <3>2. kmt'.status[Me] = "IDLE_RPC_CALLEE"
      BY <1>2, <2>5, <2>6
    <3> QED BY <1>1, <3>1, <3>2
  <2>8. /\ server'.pc = "listening" /\ server' = [pc |-> server'.pc, call |-> server'.call]
    BY <1>2, <2>1 DEF RpcTypeOK
  <2>9. RpcTypeOK' /\ Open' = Open
    <3>1. Open' = rpcQueue' /\ Open = rpcQueue
      BY <1>1, <2>8 DEF Open
    <3> QED BY <1>1, <1>2, <2>1, <2>8, <3>1 DEF RpcTypeOK
  <2>10. OpenInv'
    BY <1>1, <1>2, <2>7, <2>9, SameOpen
  <2>11. ServerInv'
    BY ZenonT(40), <1>3, <1>5, <2>1, <2>3, <2>5, <2>7, <2>8 DEF ServerInv
  <2>12. Alive' => CallInv'
    <3> SUFFICES ASSUME Alive' PROVE CallInv'
      OBVIOUS
    <3>1. \A t \in Thread : OpenScopes(kmt, t)' = OpenScopes(kmt', t) /\ OpenScopes(kmt, t) \in Nat
      BY <1>2, ScopeCount DEF OpenScopes
    <3>2. \A t \in Thread : OpenScopes(kmt', t) = OpenScopes(k, t)
      BY <2>5 DEF SameScopes
    <3>3. OpenScopes(kmt, Server)' >= 1
      <4>1. OpenScopes(kmt, Server)' = OpenScopes(kmt, Server) + 1
        BY <1>1, <1>2, <2>2, <3>1, <3>2
      <4> QED BY <1>1, <1>2, <3>1, <4>1
    <3>4. \A t \in Thread : t # Me => OpenScopes(kmt, t)' = OpenScopes(kmt, t)
      BY <2>2, <3>1, <3>2
    <3> QED BY <1>1, <1>2, <3>3, <3>4 DEF CallInv
  <2>13. kmt'.panic \notin RpcPanics
    BY <2>5 DEF RpcPanics
  <2> QED BY <2>5, <2>9, <2>10, <2>11, <2>12, <2>13 DEF RpcInv
<1> QED BY <1>4, <1>5

\* kmt_rpc_listen, woken: a request is there.
LEMMA ListenReturnsKeeps == RpcInv /\ ListenReturns => RpcInv' /\ Open' = Open
<1> SUFFICES ASSUME RpcInv, ListenReturns PROVE RpcInv' /\ Open' = Open
  OBVIOUS
<1>1. /\ IsThread /\ Me = Server /\ server.pc = "listening"
      /\ UNCHANGED <<sleepers, handler, boot, rpcReturn, calling>>
  BY DEF ListenReturns, AtServer, IsWorker
<1>2. /\ Alive /\ kmt \in KmtState /\ KernelInv(kmt)
      /\ Me \in Thread /\ Me = kmt.current /\ kmt.status[Me] = "RUNNING"
      /\ kmt.count \in Nat /\ Me < kmt.count
      /\ IInv /\ RpcTypeOK /\ OpenInv /\ ServerInv /\ CallInv
  BY <1>1, InRpc
<1>3. rpcQueue # << >>
  BY <1>1, <1>2 DEF ServerInv
<1>4. Take /\ kmt' = RestoreFlags(kmt)
  BY <1>3 DEF ListenReturns
<1>5. kmt.saved[kmt.current] # << >>
  BY <1>1, <1>2, ScopeCount DEF CallInv
<1>6. /\ kmt' \in KmtState /\ KernelInv(kmt') /\ OnlyFlags(kmt, kmt')
      /\ \A t \in Thread : t # kmt.current => OpenScopes(kmt', t) = OpenScopes(kmt, t)
  BY <1>2, <1>4, <1>5, RestoreFlagsKeeps
<1>7. IInv' /\ kmt'.panic = "none" /\ kmt'.status = kmt.status /\ kmt'.count = kmt.count
  <2>1. kmt.current # Boot
    BY <1>1 DEF IsThread, Me
  <2> QED BY <1>1, <1>2, <1>6, <2>1, FlagsKeep
<1>8. /\ rpcQueue' \in Seq(Descriptor) /\ server'.pc = "handling"
      /\ server'.call \in Descriptor
      /\ server' = [pc |-> server'.pc, call |-> server'.call] /\ Open' = Open
  BY <1>1, <1>2, <1>3, <1>4, TakeIs
<1>9. RpcTypeOK'
  BY <1>1, <1>2, <1>8 DEF RpcTypeOK
<1>10. OpenInv'
  BY <1>1, <1>2, <1>7, <1>8, SameOpen
<1>11. ServerInv'
  <2>1. ~(kmt.count <= Server)
    BY <1>1, <1>2 DEF Server
  <2> QED BY <1>1, <1>2, <1>7, <1>8, <2>1 DEF ServerInv
<1>12. CallInv'
  <2>1. \A t \in Thread : t # Me => OpenScopes(kmt, t)' = OpenScopes(kmt, t)
    BY <1>2, <1>6 DEF OpenScopes
  <2> QED BY <1>1, <1>2, <1>8, <2>1 DEF CallInv
<1>13. kmt'.panic \notin RpcPanics
  BY <1>7 DEF RpcPanics
<1> QED BY <1>7, <1>8, <1>9, <1>10, <1>11, <1>12, <1>13 DEF RpcInv

LEMMA AnswerCodes == \A r \in Requests : Answers(r) \subseteq Codes /\ Answers(r) # {}
BY DEF Requests, Answers, Codes

\* kmt_rpc_return: the caller waits.
LEMMA ReturnKeeps ==
  RpcInv /\ Return =>
    RpcInv' /\ Open # << >> /\ Head(Open) = server.call /\ Open' = Tail(Open)
<1> SUFFICES ASSUME RpcInv, Return
             PROVE  RpcInv' /\ Open # << >> /\ Head(Open) = server.call /\ Open' = Tail(Open)
  OBVIOUS
<1> DEFINE caller == server.call.caller
<1>1. /\ IsThread /\ Me = Server /\ server.pc = "handling"
      /\ UNCHANGED <<sleepers, handler, boot, rpcQueue, calling>>
      /\ server' = [pc |-> "loop", call |-> NoCall]
  BY DEF Return, AtServer, IsWorker
<1>2. /\ Alive /\ kmt \in KmtState /\ KernelInv(kmt) /\ SleepersInv(kmt, sleepers)
      /\ kmt.panic = "none" /\ boot \in {"enabled", "dead"}
      /\ sleepers \in SUBSET Request /\ handler \in HandlerState
      /\ Me \in Thread /\ Me = kmt.current /\ kmt.status[Me] = "RUNNING"
      /\ kmt.count \in Nat /\ Me < kmt.count
      /\ IInv /\ RpcTypeOK /\ OpenInv /\ ServerInv /\ CallInv
  BY <1>1, InRpc
<1>3. /\ Open \in Seq(Descriptor) /\ Open # << >> /\ Head(Open) = server.call
      /\ Tail(Open) = rpcQueue /\ server.call \in Descriptor
  BY <1>1, <1>2, OpenIs
<1>4. caller \in Thread /\ server.call.request \in Requests
  BY <1>3 DEF Descriptor
<1>5. /\ \A i \in DOMAIN Tail(Open) : i + 1 \in DOMAIN Open /\ Tail(Open)[i] = Open[i + 1]
      /\ InCall(Open, caller) /\ CallersDiffer(Tail(Open))
      /\ \A t : InCall(Tail(Open), t) <=> InCall(Open, t) /\ t # caller
  <2> DEFINE q == Open
  <2>1. q \in Seq(Descriptor) /\ q # << >> /\ CallersDiffer(q)
    BY <1>2, <1>3 DEF OpenInv
  <2> HIDE DEF q
  <2>2. /\ \A i \in DOMAIN Tail(q) : i + 1 \in DOMAIN q /\ Tail(q)[i] = q[i + 1]
        /\ InCall(q, Head(q).caller) /\ CallersDiffer(Tail(q))
        /\ \A t : InCall(Tail(q), t) <=> InCall(q, t) /\ t # Head(q).caller
    BY <2>1, FirstCall
  <2> QED BY <1>3, <2>2 DEF q
<1>6. kmt.status[caller] = "IDLE_RPC_CALLER"
  BY <1>2, <1>4, <1>5 DEF OpenInv
<1>7. kmt' = WakeIdle(kmt, caller)
  BY <1>6 DEF Return
<1>8. PICK code \in Codes : rpcReturn' = [rpcReturn EXCEPT ![caller] = code]
  BY <1>4, AnswerCodes DEF Return
<1> HIDE DEF caller
<1>9. /\ kmt' \in KmtState /\ QueueInv(kmt') /\ SameThreads(kmt, kmt')
      /\ kmt'.status = [kmt.status EXCEPT ![caller] = "READY"]
  BY <1>2, <1>4, <1>6, <1>7, WakeIdleKeepsQueues DEF KernelInv
<1>10. /\ BaseInv(kmt') /\ ScopeInv(kmt')
       /\ \A t \in Thread : kmt'.status[t] = IF t = caller THEN "READY" ELSE kmt.status[t]
  <2>1. BaseInv(kmt) /\ ScopeInv(kmt)
    BY <1>2 DEF KernelInv, BaseInv
  <2> QED BY <1>2, <1>4, <1>6, <1>9, <2>1, WakeKeepsBase
<1>11. kmt'.panic = "none" /\ kmt'.count = kmt.count /\ KernelInv(kmt')
  BY <1>2, <1>9, <1>10 DEF SameThreads, KernelInv, BaseInv
<1>12. IInv'
  <2>1. SleepersInv(kmt', sleepers')
    BY <1>1, <1>2, <1>6, <1>10 DEF SleepersInv, Request
  <2> QED BY <1>1, <1>2, <1>9, <1>11, <2>1, StepKeeps
<1>13. \A t \in Thread : rpcReturn'[t] = IF t = caller THEN code ELSE rpcReturn[t]
  BY <1>2, <1>8 DEF RpcTypeOK
<1>14. server'.pc = "loop" /\ server' = [pc |-> server'.pc, call |-> server'.call]
  BY <1>1
<1>15. RpcTypeOK'
  <2>1. rpcReturn' \in [Thread -> {None, "EPENDING"} \cup Codes]
    BY <1>2, <1>8 DEF RpcTypeOK
  <2> QED BY <1>1, <1>2, <1>14, <2>1 DEF RpcTypeOK
<1>16. Open' = Tail(Open)
  BY <1>1, <1>3, <1>14 DEF Open
<1>17. code \notin {None, "EPENDING"}
  BY DEF Codes, None
<1>18. OpenInv'
  <2> DEFINE q == Tail(Open)
  <2>1. /\ \A i \in DOMAIN q : i + 1 \in DOMAIN Open /\ q[i] = Open[i + 1]
        /\ CallersDiffer(q) /\ \A t : InCall(q, t) <=> InCall(Open, t) /\ t # caller
    BY <1>5 DEF caller
  <2>2. q \in Seq(Descriptor)
    BY <1>3, FirstCall
  <2> HIDE DEF q
  <2>3. Open' = q
    BY <1>16 DEF q
  <2>4. \A i \in DOMAIN q : q[i].caller # caller /\ q[i].caller \in Thread
    <3>1. \A i \in DOMAIN q : q[i] \in Descriptor
      BY <2>2
    <3> QED BY <2>1, <3>1 DEF InCall, Descriptor
  <2>5. Pending(Open)'
    <3> SUFFICES ASSUME NEW i \in DOMAIN q
                 PROVE  calling'[q[i].caller] = q[i].request /\ rpcReturn'[q[i].caller] = "EPENDING"
      BY <2>3 DEF Pending
    <3> QED BY <1>1, <1>2, <1>13, <2>1, <2>4 DEF OpenInv, Pending
  <2>6. /\ CallersDiffer(Open)'
        /\ \A t \in Thread : InCall(Open, t)' <=> InCall(Open, t) /\ t # caller
    BY <2>1, <2>3 DEF CallersDiffer, InCall
  <2>7. \A t \in Thread : kmt'.status[t] = "IDLE_RPC_CALLER" <=> InCall(Open, t)'
    BY <1>2, <1>10, <2>6 DEF OpenInv
  <2>8. \A t \in Thread :
          calling'[t] # None /\ rpcReturn'[t] = "EPENDING" => kmt'.status[t] = "IDLE_RPC_CALLER"
    BY <1>1, <1>2, <1>10, <1>13, <1>17 DEF OpenInv
  <2> QED BY <2>5, <2>6, <2>7, <2>8 DEF OpenInv
<1>19. ServerInv'
  <2>1. ~(kmt.count <= Server)
    BY <1>1, <1>2 DEF Server
  <2>2. /\ kmt.status[Server] = "RUNNING" /\ Server \in Thread
        /\ kmt'.status[Server] \in {"RUNNING", "READY"}
    BY <1>1, <1>2, <1>10
  <2> QED BY <1>11, <1>14, <2>1, <2>2 DEF ServerInv
<1>20. CallInv'
  <2>1. \A t \in Thread : OpenScopes(kmt, t)' = OpenScopes(kmt, t)
    BY <1>9 DEF OpenScopes, SameThreads
  <2> QED BY <1>1, <1>2, <1>13, <1>14, <1>17, <2>1 DEF CallInv
<1>21. kmt'.panic \notin RpcPanics
  BY <1>11 DEF RpcPanics
<1> QED BY <1>3, <1>12, <1>15, <1>16, <1>18, <1>19, <1>20, <1>21 DEF RpcInv

\* What the threads do outside a call.
LEMMA OtherStepKeeps == NoSleepCut /\ RpcInv /\ OtherStep => RpcInv'
<1> SUFFICES ASSUME NoSleepCut, RpcInv, OtherStep PROVE RpcInv'
  OBVIOUS
<1>1. IInv /\ UNCHANGED rpcVars /\ NoSleepCut /\ NoSleepCut'
  BY DEF RpcInv, OtherStep, NoSleepCut
<1>2. Server \notin {}
  OBVIOUS
<1>3. CASE SpawnIdle
  BY <1>1, <1>2, <1>3, SpawnIdleKeeps, FrameKeeps DEF SpawnIdle, ThreadRuns, Alive
<1>4. CASE BootDies
  <2>1. Server \notin {Me} /\ Alive
    BY <1>4, ServerIsThread DEF BootDies, ThreadRuns, Alive
  <2> QED BY <1>1, <1>4, <2>1, KillsKeep, FrameKeeps
<1>5. CASE TimerStep
  <2>1. Alive
    BY <1>5 DEF TimerStep, HandlerStep, TickOnly, TimerInterrupt, WakeSleeper, StartAging,
                AgeNode, PromoteInner, PromoteHead, NextQueue, Preempt, AtNode, Aging, In,
                ThreadRuns, Alive
  <2> QED BY <1>1, <1>2, <1>5, <2>1, TimerDoes, FrameKeeps
<1>6. CASE StartSyscore
  <2>1. /\ IsThread /\ kmt.count = Server /\ Alive
        /\ kmt' = kmt_wakeup_thread(kmt_create_thread(kmt, SyscorePrio), kmt.count)
        /\ UNCHANGED <<sleepers, handler, boot>>
    BY <1>6 DEF StartSyscore, IsThread, ThreadRuns, Alive
  <2>2. kmt.count < MaxThreads /\ SyscorePrio \in Prio
    BY <2>1, RpcAssumption, KmtAssumption DEF Server
  <2>3. IInv' /\ Frame({}, {})
    BY <1>1, <2>1, <2>2, StartsThread
  <2> QED BY <1>1, <1>2, <2>1, <2>3, FrameKeeps
<1>7. CASE CreateThread
  BY <1>1, <1>2, <1>7, CreateThreadKeeps, FrameKeeps DEF CreateThread, IsThread, ThreadRuns, Alive
<1>8. CASE WakeupThread
  BY <1>1, <1>2, <1>8, WakeupThreadKeeps, FrameKeeps DEF WakeupThread, IsThread, ThreadRuns, Alive
<1>9. CASE Sleep \/ SleepUntil
  BY <1>1, <1>2, <1>9, SleepsKeep, FrameKeeps
     DEF Sleep, SleepUntil, IsWorker, IsThread, ThreadRuns, Alive
<1>10. CASE Kill /\ Me # Server
  <2>1. Server \notin {Me} /\ Alive
    BY <1>10 DEF Kill, IsWorker, IsThread, ThreadRuns, Alive
  <2> QED BY <1>1, <1>10, <2>1, KillsKeep, FrameKeeps
<1>11. CASE LowerIdle
  <2>1. /\ IsThread /\ Alive /\ kmt' = [kmt EXCEPT !.priority[Idle] = 0]
        /\ UNCHANGED <<sleepers, handler, boot>>
    BY <1>11 DEF LowerIdle, AtServer, IsWorker, IsThread, ThreadRuns, Alive
  <2>2. Idle \in Thread /\ 0 \in Prio
    BY KmtAssumption DEF Idle, Thread, Prio
  <2>3. IInv' /\ Frame({}, {})
    BY <1>1, <2>1, <2>2, SetPriorityKeeps
  <2> QED BY <1>1, <1>2, <2>1, <2>3, FrameKeeps
<1> QED
  BY <1>3, <1>4, <1>5, <1>6, <1>7, <1>8, <1>9, <1>10, <1>11 DEF OtherStep, BootStep

LEMMA RpcInitKeeps == RpcInit => RpcInv
<1> SUFFICES ASSUME RpcInit PROVE RpcInv
  OBVIOUS
<1>1. /\ Init /\ rpcQueue = << >> /\ rpcReturn = [t \in Thread |-> None]
      /\ calling = [t \in Thread |-> None] /\ server = [pc |-> "setup", call |-> NoCall]
  BY DEF RpcInit
<1>2. IInv /\ kmt = KmtInit
  BY <1>1, InitKeeps DEF Init
<1>3. RpcTypeOK
  BY <1>1 DEF RpcTypeOK
<1>4. kmt.panic = "none" /\ kmt.count = 1
      /\ \A t \in Thread : kmt.status[t] = IF t = Boot THEN "RUNNING" ELSE "TERMINATED"
  BY <1>2 DEF KmtInit
<1>5. Open = << >> /\ \A t \in Thread : ~InCall(Open, t)
  BY <1>1 DEF Open, InCall
<1>6. OpenInv
  BY <1>1, <1>4, <1>5 DEF OpenInv, CallersDiffer, Pending
<1>7. ServerInv
  BY <1>1, <1>4, ServerIsThread DEF ServerInv, Server
<1>8. CallInv
  BY <1>1, ServerIsThread DEF CallInv
<1> QED BY <1>2, <1>3, <1>4, <1>6, <1>7, <1>8 DEF RpcInv, RpcPanics

LEMMA NoRpcCut == NoSleepCut /\ [RpcNext]_allVars => NoSleepCut'
BY DEF NoSleepCut, RpcNext, Call, CallReturns, ServerStep, Listen, ListenReturns, Return,
       OtherStep, allVars, vars

LEMMA RpcStepKeeps == NoSleepCut /\ RpcInv /\ [RpcNext]_allVars => RpcInv'
<1> SUFFICES ASSUME NoSleepCut, RpcInv, [RpcNext]_allVars PROVE RpcInv'
  OBVIOUS
<1>1. CASE UNCHANGED allVars
  <2>1. /\ kmt' = kmt /\ rpcQueue' = rpcQueue /\ rpcReturn' = rpcReturn
        /\ calling' = calling /\ server' = server /\ UNCHANGED vars
    BY <1>1 DEF allVars, rpcVars, vars
  <2>2. IInv' /\ RpcTypeOK' /\ Open' = Open
    BY <2>1, StutterKeeps DEF RpcInv, RpcTypeOK, Open
  <2>3. OpenInv => OpenInv'
    BY <2>1, <2>2, SameOpen
  <2>4. ServerInv => ServerInv'
    BY <2>1 DEF ServerInv
  <2>5. \A t \in Thread : OpenScopes(kmt, t)' = OpenScopes(kmt, t)
    BY <2>1 DEF OpenScopes
  <2>6. CallInv => CallInv'
    BY <2>1, <2>5, ServerIsThread DEF CallInv
  <2> QED BY <2>1, <2>2, <2>3, <2>4, <2>6 DEF RpcInv, Alive
<1>2. CASE Call
  BY <1>2, CallKeeps
<1>3. CASE CallReturns
  BY <1>3, CallReturnsKeeps
<1>4. CASE ServerStep
  BY <1>4, ListenKeeps, ListenReturnsKeeps, ReturnKeeps DEF ServerStep
<1>5. CASE OtherStep
  BY <1>5, OtherStepKeeps
<1> QED BY <1>1, <1>2, <1>3, <1>4, <1>5 DEF RpcNext

\* RpcInv holds in every state: among other things the answer a caller finds
\* is final, so the loop of kmt_rpc_call never goes round.  No thread wakes one
\* that sleeps.
THEOREM RpcInvariant == RpcSpec => [](NoSleepCut /\ RpcInv)
<1>1. RpcInit => NoSleepCut /\ RpcInv
  BY RpcInitKeeps DEF RpcInit, Init, NoSleepCut
<1>2. NoSleepCut /\ RpcInv /\ [RpcNext]_allVars => NoSleepCut' /\ RpcInv'
  BY RpcStepKeeps, NoRpcCut
<1> QED BY <1>1, <1>2, PTL DEF RpcSpec

-----------------------------------------------------------------------------
(* The callers of the open requests, as module RpcService sees them.       *)

CallersIn(q) == [i \in DOMAIN q |-> q[i].caller]

LEMMA CallersAre ==
  ASSUME NEW q \in Seq(Descriptor)
  PROVE  CallersIn(q) \in Seq(Thread) /\ Len(CallersIn(q)) = Len(q)
<1>1. Len(q) \in Nat /\ DOMAIN q = 1 .. Len(q) /\ \A i \in DOMAIN q : q[i] \in Descriptor
  OBVIOUS
<1>2. CallersIn(q) \in [1 .. Len(q) -> Thread]
  BY <1>1 DEF CallersIn, Descriptor
<1> QED BY <1>1, <1>2

LEMMA CallersAppend ==
  ASSUME NEW q \in Seq(Descriptor), NEW d \in Descriptor
  PROVE  CallersIn(Append(q, d)) = Append(CallersIn(q), d.caller)
<1> DEFINE a == Append(q, d)
           c == CallersIn(q)
           s == CallersIn(a)
           u == Append(c, d.caller)
<1>1. a \in Seq(Descriptor) /\ d.caller \in Thread
  BY AppendCall DEF Descriptor
<1>2. /\ Len(a) = Len(q) + 1 /\ Len(q) \in Nat /\ a[Len(q) + 1] = d
      /\ \A i \in 1 .. Len(q) : a[i] = q[i]
  <2> DEFINE S == Descriptor
  <2>1. q \in Seq(S) /\ d \in S
    OBVIOUS
  <2> HIDE DEF S
  <2> QED BY <2>1, AppendProperties
<1>3. c \in Seq(Thread) /\ Len(c) = Len(q) /\ s \in Seq(Thread) /\ Len(s) = Len(q) + 1
  BY <1>1, <1>2, CallersAre
<1>4. /\ \A i \in 1 .. Len(q) : c[i] = q[i].caller
      /\ \A i \in 1 .. Len(q) + 1 : s[i] = a[i].caller
  BY <1>1, <1>2, <1>3 DEF CallersIn
<1> HIDE DEF c, s, a
<1>5. /\ u \in Seq(Thread) /\ Len(u) = Len(q) + 1 /\ u[Len(q) + 1] = d.caller
      /\ \A i \in 1 .. Len(q) : u[i] = c[i]
  BY <1>1, <1>3, AppendProperties
<1> HIDE DEF u
<1>6. ASSUME NEW i \in 1 .. Len(s) PROVE s[i] = u[i]
  <2>1. i = Len(q) + 1 \/ i \in 1 .. Len(q)
    BY <1>2, <1>3
  <2> QED BY <1>2, <1>3, <1>4, <1>5, <2>1
<1>7. s = u
  BY <1>3, <1>5, <1>6, SeqEqual
<1> QED BY <1>7 DEF s, u, c, a

LEMMA CallersFirst ==
  ASSUME NEW q \in Seq(Descriptor), q # << >>
  PROVE  /\ CallersIn(q) # << >> /\ Head(CallersIn(q)) = Head(q).caller
         /\ Tail(CallersIn(q)) = CallersIn(Tail(q))
<1> DEFINE r == Tail(q)
           c == CallersIn(q)
           s == CallersIn(r)
<1>1. r \in Seq(Descriptor) /\ 1 \in DOMAIN q /\ Head(q) = q[1]
  BY FirstCall
<1>2. /\ Len(r) = Len(q) - 1 /\ Len(q) \in Nat /\ Len(q) > 0 /\ Len(r) \in Nat
      /\ \A i \in 1 .. Len(r) : r[i] = q[i + 1]
  <2> DEFINE S == Descriptor
  <2>1. q \in Seq(S)
    OBVIOUS
  <2> HIDE DEF S
  <2>2. /\ Len(r) = Len(q) - 1 /\ r \in Seq(S)
        /\ \A i \in 1 .. Len(r) : r[i] = q[i + 1]
    BY <2>1, HeadTailProperties
  <2> HIDE DEF r
  <2> QED BY <2>1, <2>2
<1>3. c \in Seq(Thread) /\ Len(c) = Len(q) /\ s \in Seq(Thread) /\ Len(s) = Len(r)
  BY <1>1, CallersAre
<1>4. /\ \A i \in 1 .. Len(q) : c[i] = q[i].caller
      /\ \A i \in 1 .. Len(r) : s[i] = r[i].caller
  BY <1>1, <1>2, <1>3 DEF CallersIn
<1> HIDE DEF c, s, r
<1>5. c # << >> /\ Head(c) = c[1]
  BY <1>2, <1>3
<1>6. /\ Tail(c) \in Seq(Thread) /\ Len(Tail(c)) = Len(c) - 1
      /\ \A i \in 1 .. Len(Tail(c)) : Tail(c)[i] = c[i + 1]
  BY <1>3, <1>5, HeadTailProperties
<1>7. ASSUME NEW i \in 1 .. Len(s) PROVE s[i] = Tail(c)[i]
  <2>1. i \in 1 .. Len(r) /\ i + 1 \in 1 .. Len(q) /\ i \in 1 .. Len(Tail(c))
    BY <1>2, <1>3, <1>6
  <2> QED BY <1>2, <1>4, <1>6, <2>1
<1>8. Len(s) = Len(Tail(c))
  BY <1>2, <1>3, <1>6
<1>9. s = Tail(c)
  BY <1>3, <1>6, <1>7, <1>8, SeqEqual
<1>10. Head(c) = Head(q).caller
  <2>1. 1 \in 1 .. Len(q)
    BY <1>2
  <2> QED BY <1>1, <1>4, <1>5, <2>1
<1> QED BY <1>5, <1>9, <1>10 DEF c, s, r

LEMMA UnansweredAre == RpcTypeOK => Unanswered = CallersIn(Open)
<1> SUFFICES ASSUME RpcTypeOK PROVE Unanswered = CallersIn(Open)
  OBVIOUS
<1>1. rpcQueue \in Seq(Descriptor) /\ Open \in Seq(Descriptor)
  BY OpenIs DEF RpcTypeOK
<1>2. Calls = CallersIn(rpcQueue)
  BY DEF Calls, CallersIn
<1>3. CASE server.pc # "handling"
  BY <1>2, <1>3 DEF Unanswered, Open
<1>4. CASE server.pc = "handling"
  <2> DEFINE c == CallersIn(Open)
             h == server.call.caller
  <2>1. /\ server.call \in Descriptor /\ Open # << >>
        /\ Head(Open) = server.call /\ Tail(Open) = rpcQueue
    BY <1>4, OpenIs
  <2>2. c # << >> /\ Head(c) = h /\ Tail(c) = Calls
    BY <1>1, <1>2, <2>1, CallersFirst
  <2>3. c \in Seq(Thread)
    BY <1>1, CallersAre
  <2>4. Unanswered = <<h>> \o Calls
    BY <1>4 DEF Unanswered
  <2> HIDE DEF c, h
  <2>5. <<Head(c)>> \o Tail(c) = c
    BY <2>2, <2>3, HeadTailProperties
  <2> QED BY <2>2, <2>4, <2>5 DEF c
<1> QED BY <1>3, <1>4

LEMMA UnansweredNext == RpcTypeOK' => (Unanswered = CallersIn(Open))'
BY UnansweredAre, PTL

\* Syscore does not sleep on a request, every caller blocks exactly while its
\* request is open, and the panics of the three functions cannot happen.
THEOREM NoWakeupIsLost == RpcSpec => []NoLostWakeup
<1>1. RpcInv => NoLostWakeup
  <2> SUFFICES ASSUME RpcInv PROVE NoLostWakeup
    OBVIOUS
  <2>1. ASSUME Alive
        PROVE  /\ kmt.status[Server] = "IDLE_RPC_CALLEE" => rpcQueue = << >>
               /\ \A t \in Thread :
                    kmt.status[t] = "IDLE_RPC_CALLER" <=>
                      \E i \in DOMAIN Unanswered : Unanswered[i] = t
    <3>1. OpenInv /\ ServerInv /\ RpcTypeOK
      BY <2>1 DEF RpcInv
    <3>2. Unanswered = CallersIn(Open)
      BY <3>1, UnansweredAre
    <3>3. \A t : InCall(Open, t) <=> \E i \in DOMAIN Unanswered : Unanswered[i] = t
      BY <3>2 DEF CallersIn, InCall
    <3> QED BY <3>1, <3>3 DEF OpenInv, ServerInv
  <2> QED BY <2>1 DEF RpcInv, RpcPanics, NoLostWakeup
<1> QED BY <1>1, RpcInvariant, PTL

-----------------------------------------------------------------------------
(* The refinement.                                                         *)

Answered ==
  [t \in Thread |->
     IF calling[t] # None /\ rpcReturn[t] # "EPENDING" THEN rpcReturn[t] ELSE None]

LEMMA PromiseVars ==
  /\ Promise!vars = <<calling, Unanswered, Answered>>
  /\ Promise!None = None
BY DEF Promise!vars, Promise!None, None, Answered

LEMMA InitImplements == RpcInit => Promise!Init
<1> SUFFICES ASSUME RpcInit PROVE Promise!Init
  OBVIOUS
<1>1. /\ rpcQueue = << >> /\ calling = [t \in Thread |-> None]
      /\ server = [pc |-> "setup", call |-> NoCall]
  BY DEF RpcInit
<1>2. Unanswered = << >>
  BY <1>1 DEF Unanswered, Calls
<1>3. Answered = [t \in Thread |-> None]
  BY <1>1 DEF Answered
<1> QED BY <1>1, <1>2, <1>3 DEF Promise!Init, Promise!None, None, Answered

\* kmt_rpc_call makes the request.
LEMMA CallImplements == RpcInv /\ Call => Promise!Ask(Me)
<1> SUFFICES ASSUME RpcInv, Call PROVE Promise!Ask(Me)
  OBVIOUS
<1>1. IsThread /\ Outside
  BY DEF Call, IsWorker
<1>2. Me \in Thread /\ RpcTypeOK /\ RpcTypeOK'
  BY <1>1, InRpc, CallKeeps DEF RpcInv
<1>3. PICK r \in Requests :
        /\ Open' = Append(Open, [caller |-> Me, request |-> r])
        /\ calling' = [calling EXCEPT ![Me] = r]
        /\ rpcReturn' = [rpcReturn EXCEPT ![Me] = "EPENDING"]
  BY CallKeeps DEF Asks
<1> DEFINE d == [caller |-> Me, request |-> r]
<1>4. d \in Descriptor /\ d.caller = Me /\ Open \in Seq(Descriptor)
  BY <1>2, OpenIs DEF Descriptor
<1>5. Unanswered' = Append(Unanswered, Me)
  <2>1. Unanswered = CallersIn(Open) /\ Unanswered' = CallersIn(Open)'
    BY <1>2, UnansweredAre, UnansweredNext
  <2>2. CallersIn(Open)' = CallersIn(Append(Open, d))
    BY <1>3 DEF CallersIn
  <2> HIDE DEF d
  <2> QED BY <1>4, <2>1, <2>2, CallersAppend
<1>6. Answered' = Answered
  <2> SUFFICES ASSUME NEW t \in Thread
               PROVE  (IF calling'[t] # None /\ rpcReturn'[t] # "EPENDING"
                       THEN rpcReturn'[t] ELSE None)
                      = IF calling[t] # None /\ rpcReturn[t] # "EPENDING"
                        THEN rpcReturn[t] ELSE None
    BY DEF Answered
  <2>1. CASE t = Me
    BY <1>1, <1>2, <1>3, <2>1 DEF RpcTypeOK, Outside
  <2>2. CASE t # Me
    BY <1>2, <1>3, <2>2 DEF RpcTypeOK
  <2> QED BY <2>1, <2>2
<1>7. calling[Me] = None
  BY <1>1 DEF Outside
<1> QED BY <1>3, <1>5, <1>6, <1>7 DEF Promise!Ask, Promise!None, None, Answered

\* kmt_rpc_call, back with the answer.
LEMMA CallReturnsImplements == RpcInv /\ CallReturns => \E c \in Thread : Promise!Finish(c)
<1> SUFFICES ASSUME RpcInv, CallReturns PROVE \E c \in Thread : Promise!Finish(c)
  OBVIOUS
<1>1. IsThread /\ ~Outside /\ rpcReturn[Me] \notin {None, "EPENDING"}
      /\ rpcQueue' = rpcQueue /\ server' = server
  BY CallReturnsKeeps DEF CallReturns
<1>2. calling' = [calling EXCEPT ![Me] = None] /\ rpcReturn' = rpcReturn
  BY <1>1 DEF CallReturns
<1>3. Me \in Thread /\ RpcTypeOK /\ calling[Me] # None
  BY <1>1, InRpc DEF Outside
<1>4. Answered[Me] = rpcReturn[Me] /\ Answered[Me] # None
  BY <1>1, <1>3 DEF Answered
<1>5. Answered' = [Answered EXCEPT ![Me] = None]
  <2>1. \A t \in Thread : calling'[t] = IF t = Me THEN None ELSE calling[t]
    BY <1>2, <1>3 DEF RpcTypeOK
  <2>2. \A t \in Thread : Answered'[t] = IF t = Me THEN None ELSE Answered[t]
    BY <1>2, <2>1 DEF Answered
  <2>3. /\ Answered' = [t \in Thread |-> Answered'[t]] /\ DOMAIN Answered = Thread
    BY DEF Answered
  <2> QED BY <1>3, <2>2, <2>3
<1>6. Unanswered' = Unanswered
  BY <1>1 DEF Unanswered, Calls
<1>7. PICK c \in Thread : c = Me
  BY <1>3
<1>8. Promise!Finish(c)
  BY <1>2, <1>4, <1>5, <1>6, <1>7 DEF Promise!Finish, Promise!None, None, Answered
<1> QED BY <1>8

\* kmt_rpc_return answers the oldest request.
LEMMA ReturnImplements == RpcInv /\ Return => Promise!Serve
<1> SUFFICES ASSUME RpcInv, Return PROVE Promise!Serve
  OBVIOUS
<1> DEFINE c == server.call.caller
<1>1. /\ Open # << >> /\ Head(Open) = server.call /\ Open' = Tail(Open) /\ RpcTypeOK'
  BY ReturnKeeps DEF RpcInv
<1>2. /\ IsThread /\ calling' = calling /\ server.pc = "handling"
      /\ \E code \in Answers(server.call.request) : rpcReturn' = [rpcReturn EXCEPT ![c] = code]
  BY DEF Return, AtServer, IsWorker
<1>3. RpcTypeOK /\ OpenInv /\ Open \in Seq(Descriptor) /\ server.call \in Descriptor
  BY <1>2, InRpc, OpenIs
<1>4. c \in Thread /\ server.call.request \in Requests
  BY <1>3 DEF Descriptor
<1>5. PICK code \in Answers(server.call.request) : rpcReturn' = [rpcReturn EXCEPT ![c] = code]
  BY <1>2
<1>6. code \in Codes
  BY <1>4, <1>5, AnswerCodes
<1>7. calling[c] = server.call.request
  <2>1. 1 \in DOMAIN Open /\ Head(Open) = Open[1]
    BY <1>1, <1>3, FirstCall
  <2> QED BY <1>1, <1>3, <2>1 DEF OpenInv, Pending
<1>8. Unanswered # << >> /\ Head(Unanswered) = c /\ Unanswered' = Tail(Unanswered)
  <2>1. Unanswered = CallersIn(Open) /\ Unanswered' = CallersIn(Open)'
    BY <1>1, <1>3, UnansweredAre, UnansweredNext
  <2>2. CallersIn(Open)' = CallersIn(Tail(Open))
    BY <1>1 DEF CallersIn
  <2> QED BY <1>1, <1>3, <2>1, <2>2, CallersFirst
<1> HIDE DEF c
<1>9. Answered' = [Answered EXCEPT ![c] = code]
  <2>1. \A t \in Thread : rpcReturn'[t] = IF t = c THEN code ELSE rpcReturn[t]
    BY <1>3, <1>5 DEF RpcTypeOK
  <2>2. calling[c] # None /\ code # "EPENDING"
    BY <1>4, <1>6, <1>7 DEF Requests, Codes, None
  <2>3. \A t \in Thread : Answered'[t] = IF t = c THEN code ELSE Answered[t]
    BY <1>2, <2>1, <2>2 DEF Answered
  <2>4. Answered' = [t \in Thread |-> Answered'[t]] /\ DOMAIN Answered = Thread
    BY DEF Answered
  <2> QED BY <1>4, <2>3, <2>4
<1>10. \E a \in Answers(calling[Head(Unanswered)]) :
         Answered' = [Answered EXCEPT ![Head(Unanswered)] = a]
  BY <1>5, <1>7, <1>8, <1>9
<1> QED BY <1>2, <1>8, <1>10 DEF Promise!Serve, Answered

\* The other steps do not show: syscore takes a request it still has to answer.
LEMMA OthersStutter ==
  ASSUME Open' = Open, RpcTypeOK, RpcTypeOK', calling' = calling, rpcReturn' = rpcReturn
  PROVE  UNCHANGED Promise!vars
<1>1. Unanswered = CallersIn(Open) /\ Unanswered' = CallersIn(Open)'
  BY UnansweredAre, UnansweredNext
<1>2. CallersIn(Open)' = CallersIn(Open)
  BY DEF CallersIn
<1>3. Answered' = Answered
  BY DEF Answered
<1> QED BY <1>1, <1>2, <1>3 DEF Promise!vars, Answered

LEMMA StepImplements ==
  NoSleepCut /\ RpcInv /\ [RpcNext]_allVars => [Promise!Next]_Promise!vars
<1> SUFFICES ASSUME NoSleepCut, RpcInv, [RpcNext]_allVars PROVE [Promise!Next]_Promise!vars
  OBVIOUS
<1>1. RpcTypeOK /\ RpcTypeOK'
  BY RpcStepKeeps DEF RpcInv
<1>2. CASE Call
  <2>1. Me \in Thread
    BY <1>2, InRpc DEF Call, IsWorker
  <2>2. Promise!Ask(Me)
    BY <1>2, CallImplements
  <2> QED BY <2>1, <2>2 DEF Promise!Next
<1>3. CASE CallReturns
  BY <1>3, CallReturnsImplements DEF Promise!Next
<1>4. CASE Return
  BY <1>4, ReturnImplements DEF Promise!Next
<1>5. CASE Listen \/ ListenReturns
  <2>1. Open' = Open /\ calling' = calling /\ rpcReturn' = rpcReturn
    BY <1>5, ListenKeeps, ListenReturnsKeeps DEF Listen, ListenReturns
  <2> QED BY <1>1, <2>1, OthersStutter
<1>6. CASE UNCHANGED rpcVars
  <2>1. Open' = Open /\ calling' = calling /\ rpcReturn' = rpcReturn
    BY <1>6 DEF rpcVars, Open
  <2> QED BY <1>1, <2>1, OthersStutter
<1> QED BY <1>2, <1>3, <1>4, <1>5, <1>6 DEF RpcNext, ServerStep, OtherStep, allVars

\* The calls implement the service: one request at a time, in the order they
\* were made, each answered once, and a caller sees its own answer.
THEOREM CallsImplementService == RpcSpec => ImplementsService
<1>1. RpcInit => Promise!Init
  BY InitImplements
<1>2. NoSleepCut /\ RpcInv /\ [RpcNext]_allVars => [Promise!Next]_Promise!vars
  BY StepImplements
<1> QED BY <1>1, <1>2, RpcInvariant, PTL DEF RpcSpec, ImplementsService, Promise!Spec
=============================================================================
