---------------------------- MODULE AsioExecutor ----------------------------
(***************************************************************************)
(* The part of a started Service that UDPServer and UDPClient run on: the  *)
(* io threads and the order in which they run the handlers of ONE server   *)
(* or client.                                                              *)
(*                                                                         *)
(* Two modes exist.  In Service(threads, false) every io_service has one   *)
(* thread, so a posted handler and the completion of an asynchronous       *)
(* operation both go to the tail of the scheduler's op_queue_ and run in   *)
(* that order.  In Service(threads, true) one io_service has all the       *)
(* threads, and the object's strand serialises its handlers: post() puts a *)
(* handler into the strand, but a completion first waits in op_queue_, is  *)
(* popped by some thread, and enters the strand only when that thread      *)
(* reaches strand.dispatch().  A thread may be delayed in between.         *)
(*                                                                         *)
(* Both modes share the sequence "ready", the handlers in the order in     *)
(* which they will run (op_queue_ in the first mode, the strand's ready    *)
(* and waiting queues in the second).  A handler stays at the head of      *)
(* "ready" until its last step.                                            *)
(***************************************************************************)
EXTENDS Integers, Sequences, FiniteSets

CONSTANTS
  IoThreads,       \* the threads that run the io_service of the object
  StrandRequired,  \* Service::_strand_required: TRUE in the pool mode
  NoThread,        \* no thread is inside a handler
  NoHandler        \* the thread carries no completion

(***************************************************************************)
(* Without strands an io_service has exactly one thread.                   *)
(***************************************************************************)
ASSUME ModeAssumption ==
  /\ StrandRequired \in BOOLEAN
  /\ NoThread \notin IoThreads
  /\ ~StrandRequired => \E t \in IoThreads : IoThreads = {t}

VARIABLES
  ready,    \* handlers in execution order; the head may be executing
  queue,    \* pool mode: completions in op_queue_, not yet in the strand
  carried,  \* pool mode: the completion each thread has popped and not yet dispatched
  runner,   \* the thread inside a handler that takes several steps
  step,     \* the next step of the handler at the head of "ready"
  alive     \* threads still in io_service::run()

execVars == <<ready, queue, carried, runner, step, alive>>

ExecInit ==
  /\ ready = <<>>
  /\ queue = <<>>
  /\ carried = [t \in IoThreads |-> NoHandler]
  /\ runner = NoThread
  /\ step = "begin"
  /\ alive = IoThreads

(***************************************************************************)
(* Where posted handlers and completions go.  "rest" is what is left of    *)
(* "ready" when the caller has removed its own handler from the head.      *)
(***************************************************************************)
Post(rest, posted) == ready' = rest \o posted

Complete(rest, completions) ==
  /\ ready' = IF StrandRequired THEN rest ELSE rest \o completions
  /\ queue' = IF StrandRequired THEN queue \o completions ELSE queue

Free(t) == t \in alive /\ carried[t] = NoHandler /\ runner # t

(***************************************************************************)
(* Thread t pops a completion from op_queue_ (pool mode).                  *)
(***************************************************************************)
PopCompletion(t) ==
  /\ StrandRequired
  /\ Free(t)
  /\ queue # <<>>
  /\ carried' = [carried EXCEPT ![t] = Head(queue)]
  /\ queue' = Tail(queue)
  /\ UNCHANGED <<ready, runner, step, alive>>

(***************************************************************************)
(* ... and enters the strand with it.  When the strand is unlocked the     *)
(* thread runs the handler at once, which is the case of an empty "ready"; *)
(* otherwise the handler waits behind the ones already in the strand.      *)
(***************************************************************************)
Dispatch(t) ==
  /\ carried[t] # NoHandler
  /\ ready' = Append(ready, carried[t])
  /\ carried' = [carried EXCEPT ![t] = NoHandler]
  /\ UNCHANGED <<queue, runner, step, alive>>

(***************************************************************************)
(* Thread t is at step s of a handler of kind k: it begins the head of     *)
(* "ready", or goes on with the handler it is inside.                      *)
(***************************************************************************)
Begins(t, k) ==
  /\ ready # <<>>
  /\ Head(ready).h = k
  /\ step = "begin"
  /\ Free(t)

Continues(t, s) == step = s /\ runner = t

EnterStep(t, s) == runner' = t /\ step' = s

LeaveHandler == runner' = NoThread /\ step' = "begin"

FinishHandler == Post(Tail(ready), <<>>) /\ LeaveHandler
=============================================================================
