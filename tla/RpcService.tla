----------------------------- MODULE RpcService -----------------------------
(***************************************************************************)
(* What a remote procedure call of the kernel promises: the callee takes   *)
(* the requests of its callers one at a time and in the order they were    *)
(* made, answers each of them once, and a caller goes on with the answer   *)
(* to the request it made and no other.                                    *)
(***************************************************************************)
EXTENDS Naturals, Sequences

CONSTANTS
  Caller,      \* who may call
  Request,     \* what may be asked
  Answers(_)   \* the return codes a request may get

None == "none"

VARIABLES
  asked,     \* asked[c]: the request caller c waits for, or None
  pending,   \* the callers whose request is not answered, in order
  answer     \* answer[c]: the code caller c is about to see, or None

vars == <<asked, pending, answer>>

Init ==
  /\ asked = [c \in Caller |-> None]
  /\ pending = << >>
  /\ answer = [c \in Caller |-> None]

Ask(c) ==
  /\ asked[c] = None
  /\ \E r \in Request : asked' = [asked EXCEPT ![c] = r]
  /\ pending' = Append(pending, c)
  /\ UNCHANGED answer

Serve ==
  /\ pending # << >>
  /\ pending' = Tail(pending)
  /\ \E a \in Answers(asked[Head(pending)]) :
       answer' = [answer EXCEPT ![Head(pending)] = a]
  /\ UNCHANGED asked

Finish(c) ==
  /\ answer[c] # None
  /\ asked' = [asked EXCEPT ![c] = None]
  /\ answer' = [answer EXCEPT ![c] = None]
  /\ UNCHANGED pending

Next == Serve \/ \E c \in Caller : Ask(c) \/ Finish(c)

Spec == Init /\ [][Next]_vars
=============================================================================
