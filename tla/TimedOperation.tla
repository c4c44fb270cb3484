--------------------------- MODULE TimedOperation ---------------------------
(***************************************************************************)
(* Send and Receive with a timeout (udp_server.cpp, udp_client.cpp): the   *)
(* caller arms a timer, starts the socket operation and waits until both   *)
(* completions have counted themselves in "done"; the first one sets the   *)
(* error and cancels the other.  The four functions are copies of one      *)
(* pattern and differ in what follows the wait.                            *)
(*                                                                         *)
(* The completions are not bound to the strand: any io thread pops the     *)
(* head of op_queue_.  async_done_handler is one step, for it holds the    *)
(* mutex; "received = read" follows it outside of the mutex.               *)
(***************************************************************************)
EXTENDS Integers, Sequences, FiniteSets

CONSTANTS
  IoThreads,  \* the threads of the io_service; the caller is not one of them
  Sizes,      \* bytes an operation may transfer
  IsClient,   \* UDPClient: an error other than timed_out disconnects
  MayClose,   \* whether Stop or a disconnect may close the socket meanwhile
  MaxCalls    \* bound on the calls

ASSUME TimedAssumption ==
  /\ Sizes \subseteq Nat \ {0}
  /\ {IsClient, MayClose} \subseteq BOOLEAN
  /\ MaxCalls \in Nat

VARIABLES
  pc,      \* where the caller is
  calls,   \* auxiliary: the number of the current call
  done,    \* the locals done, error and sent/received of the call
  error,
  value,
  result,  \* what the last call returned
  timer,   \* the timer's wait
  op,      \* the socket operation
  moved,   \* auxiliary: the bytes the operation has transferred
  q,       \* op_queue_
  at,      \* what each io thread is doing
  write,   \* the assignment of value each io thread has yet to make
  socket   \* "open" or "closed"

callVars == <<pc, calls, done, error, value, result>>

opVars == <<timer, op, moved, q>>

vars == <<callVars, opVars, at, write, socket>>

Writes == [call : 0..MaxCalls, n : Sizes \cup {0}]

NoWrite == [call |-> 0, n |-> 0]

TypeOK ==
  /\ pc \in {"idle", "arm", "start", "wait", "report"}
  /\ calls \in 0..MaxCalls
  /\ done \in 0..2
  /\ error \in {"none", "timed_out", "error", "aborted"}
  /\ {value, result, moved} \subseteq Sizes \cup {0}
  /\ timer \in {"off", "armed", "expired", "cancelled", "counted"}
  /\ op \in {"off", "pending", "ok", "error", "aborted", "counted"}
  /\ q \in Seq({"timer", "op"})
  /\ at \in [IoThreads -> {"run", "write", "dead"}]
  /\ write \in [IoThreads -> Writes]
  /\ socket \in {"open", "closed"}

Init ==
  /\ pc = "idle"
  /\ calls = 0
  /\ done = 0
  /\ error = "none"
  /\ value = 0
  /\ result = 0
  /\ timer = "off"
  /\ op = "off"
  /\ moved = 0
  /\ q = <<>>
  /\ at = [t \in IoThreads |-> "run"]
  /\ write = [t \in IoThreads |-> NoWrite]
  /\ socket = "open"
-----------------------------------------------------------------------------
(***************************************************************************)
(* The caller.                                                             *)
(***************************************************************************)
Begin ==
  /\ pc = "idle"
  /\ calls < MaxCalls
  /\ socket = "open"
  /\ pc' = "arm"
  /\ calls' = calls + 1
  /\ done' = 0
  /\ error' = "none"
  /\ value' = 0
  /\ timer' = "off"
  /\ op' = "off"
  /\ moved' = 0
  /\ UNCHANGED <<result, q, at, write, socket>>

ArmTimer ==
  /\ pc = "arm"
  /\ pc' = "start"
  /\ timer' = "armed"
  /\ UNCHANGED <<calls, done, error, value, result, op, moved, q, at, write, socket>>

(***************************************************************************)
(* async_send_to or async_receive_from.  On a socket that has been closed  *)
(* meanwhile the operation completes at once with bad_descriptor.          *)
(***************************************************************************)
StartOp ==
  /\ pc = "start"
  /\ pc' = "wait"
  /\ \/ socket = "open" /\ op' = "pending" /\ UNCHANGED q
     \/ socket = "closed" /\ op' = "error" /\ q' = Append(q, "op")
  /\ UNCHANGED <<calls, done, error, value, result, timer, moved, at, write, socket>>

WaitDone_One ==
  /\ pc = "wait"
  /\ done >= 1
  /\ pc' = "report"
  /\ UNCHANGED <<calls, done, error, value, result, opVars, at, write, socket>>

WaitDone ==
  /\ pc = "wait"
  /\ done = 2
  /\ pc' = "report"
  /\ UNCHANGED <<calls, done, error, value, result, opVars, at, write, socket>>

(***************************************************************************)
(* The caller reads the value and returns.  A client disconnects after an  *)
(* error other than timed_out.                                             *)
(***************************************************************************)
Report ==
  /\ pc = "report"
  /\ pc' = "idle"
  /\ result' = value
  /\ socket' = IF IsClient /\ error \notin {"none", "timed_out"} THEN "closed" ELSE socket
  /\ UNCHANGED <<calls, done, error, value, opVars, at, write>>
-----------------------------------------------------------------------------
(***************************************************************************)
(* The timer expires; the operation ends by itself.  Some io thread of the *)
(* service notices.                                                        *)
(***************************************************************************)
Served == \E t \in IoThreads : at[t] # "dead"

TimerExpires ==
  /\ Served
  /\ timer = "armed"
  /\ timer' = "expired"
  /\ q' = Append(q, "timer")
  /\ UNCHANGED <<callVars, op, moved, at, write, socket>>

OpEnds ==
  /\ Served
  /\ op = "pending"
  /\ \/ op' = "ok" /\ moved' \in Sizes
     \/ op' = "error" /\ UNCHANGED moved
  /\ q' = Append(q, "op")
  /\ UNCHANGED <<callVars, timer, at, write, socket>>

(***************************************************************************)
(* A handler closes the socket: that of UDPServer::Stop, or a disconnect,  *)
(* which the abort of the client's own pending receive brings about too.   *)
(***************************************************************************)
Close(t) ==
  /\ MayClose
  /\ at[t] = "run"
  /\ socket = "open"
  /\ socket' = "closed"
  /\ \/ op = "pending" /\ op' = "aborted" /\ q' = Append(q, "op")
     \/ op # "pending" /\ UNCHANGED <<op, q>>
  /\ UNCHANGED <<callVars, timer, moved, at, write>>
-----------------------------------------------------------------------------
(***************************************************************************)
(* async_done_handler(r), called by the completion c of thread t, which    *)
(* goes on to "next".  _socket.cancel() throws when the socket is closed:  *)
(* the timer is not cancelled, and the exception ends the thread.          *)
(***************************************************************************)
Counts(c) ==
  /\ timer' = IF c = "timer" THEN "counted" ELSE timer
  /\ op' = IF c = "op" THEN "counted" ELSE op

Cancels(c) ==
  LET aborts == c = "timer" /\ op = "pending"
      stops == c = "op" /\ timer = "armed"
  IN  /\ timer' = IF c = "timer" THEN "counted" ELSE IF stops THEN "cancelled" ELSE timer
      /\ op' = IF c = "op" THEN "counted" ELSE IF aborts THEN "aborted" ELSE op
      /\ q' = Tail(q) \o (IF aborts THEN <<"op">> ELSE IF stops THEN <<"timer">> ELSE <<>>)

AsyncDone_LastWins(t, c, r, next) ==
  /\ done' = done + 1
  /\ error' = r
  /\ \/ done = 0 /\ socket = "open" /\ Cancels(c) /\ at' = [at EXCEPT ![t] = next]
     \/ done = 0 /\ socket = "closed" /\ Counts(c) /\ q' = Tail(q) /\ at' = [at EXCEPT ![t] = "dead"]
     \/ done > 0 /\ Counts(c) /\ q' = Tail(q) /\ at' = [at EXCEPT ![t] = next]

AsyncDone_NoCancel(t, c, r, next) ==
  /\ done' = done + 1
  /\ error' = IF done = 0 THEN r ELSE error
  /\ Counts(c)
  /\ q' = Tail(q)
  /\ at' = [at EXCEPT ![t] = next]

AsyncDone(t, c, r, next) ==
  /\ done' = done + 1
  /\ error' = IF done = 0 THEN r ELSE error
  /\ \/ done = 0 /\ socket = "open" /\ Cancels(c) /\ at' = [at EXCEPT ![t] = next]
     \/ done = 0 /\ socket = "closed" /\ Counts(c) /\ q' = Tail(q) /\ at' = [at EXCEPT ![t] = "dead"]
     \/ done > 0 /\ Counts(c) /\ q' = Tail(q) /\ at' = [at EXCEPT ![t] = next]

Pops(t, c) == at[t] = "run" /\ q # <<>> /\ Head(q) = c

TimerHandler(t) ==
  /\ Pops(t, "timer")
  /\ AsyncDone(t, "timer", IF timer = "expired" THEN "timed_out" ELSE "aborted", "run")
  /\ UNCHANGED <<pc, calls, value, result, moved, write, socket>>

OpHandler(t) ==
  /\ Pops(t, "op")
  /\ AsyncDone(t, "op", IF op = "ok" THEN "none" ELSE op, "write")
  /\ write' = [write EXCEPT ![t] = [call |-> calls, n |-> moved]]
  /\ UNCHANGED <<pc, calls, value, result, moved, socket>>

(***************************************************************************)
(* "sent = write" or "received = read".  When the call has returned, the   *)
(* variable is gone: the write does nothing or hits that of the next call. *)
(***************************************************************************)
AssignValue(t) ==
  /\ at[t] = "write"
  /\ \/ write[t].call = calls /\ pc # "idle" /\ value' = write[t].n
     \/ (write[t].call # calls \/ pc = "idle") /\ value' \in {value, write[t].n}
  /\ at' = [at EXCEPT ![t] = "run"]
  /\ write' = [write EXCEPT ![t] = NoWrite]
  /\ UNCHANGED <<pc, calls, done, error, result, opVars, socket>>
-----------------------------------------------------------------------------
CallerStep == ArmTimer \/ StartOp \/ WaitDone \/ Report

ThreadStep(t) == TimerHandler(t) \/ OpHandler(t) \/ AssignValue(t)

Next ==
  \/ Begin
  \/ CallerStep
  \/ TimerExpires
  \/ OpEnds
  \/ \E t \in IoThreads : ThreadStep(t) \/ Close(t)

Spec == Init /\ [][Next]_vars

(***************************************************************************)
(* Fairness: the caller and the io threads go on and the timer expires.    *)
(* The operation need not end by itself: no datagram may arrive.           *)
(***************************************************************************)
FairSpec ==
  /\ Spec
  /\ WF_vars(CallerStep)
  /\ WF_vars(TimerExpires)
  /\ \A t \in IoThreads : WF_vars(ThreadStep(t))
-----------------------------------------------------------------------------
(***************************************************************************)
(* When the wait is over neither completion is outstanding: no handler     *)
(* will lock the mutex or count in "done" once these are out of scope.     *)
(***************************************************************************)
NothingOutstanding ==
  pc \in {"report", "idle"} /\ calls > 0 => timer = "counted" /\ op = "counted" /\ q = <<>>

(***************************************************************************)
(* A call without an error returns what its operation transferred.  (With  *)
(* one io thread: with two, the timer's completion can end the wait while  *)
(* the other thread has not assigned the value yet.)                       *)
(***************************************************************************)
FirstResultReturned == pc = "report" /\ error = "none" => value = moved /\ moved > 0

(***************************************************************************)
(* A call that waits before either completion has run returns, unless a    *)
(* thread has died in _socket.cancel().  (If the timer's completion runs   *)
(* before the operation is started, nothing cancels the operation.)        *)
(***************************************************************************)
TimedCallReturns == pc = "wait" /\ done = 0 ~> pc = "idle" \/ \E t \in IoThreads : at[t] = "dead"
-----------------------------------------------------------------------------
(***************************************************************************)
(* The inductive invariant behind NothingOutstanding.  "done" counts the   *)
(* completions that have run, each at most once; op_queue_ holds exactly   *)
(* the ones that are due; and the caller's position says which exist.      *)
(***************************************************************************)
TimerDue == timer \in {"expired", "cancelled"}

OpDue == op \in {"ok", "error", "aborted"}

CountInv ==
  done = (IF timer = "counted" THEN 1 ELSE 0) + (IF op = "counted" THEN 1 ELSE 0)

QueueInv ==
  \/ TimerDue /\ OpDue /\ q \in {<<"timer", "op">>, <<"op", "timer">>}
  \/ TimerDue /\ ~OpDue /\ q = <<"timer">>
  \/ ~TimerDue /\ OpDue /\ q = <<"op">>
  \/ ~TimerDue /\ ~OpDue /\ q = <<>>

CallerInv ==
  /\ calls = 0 => pc = "idle" /\ timer = "off" /\ op = "off"
  /\ pc = "arm" => timer = "off" /\ op = "off"
  /\ pc = "start" => timer # "off" /\ op = "off"
  /\ pc = "wait" => timer # "off" /\ op # "off"
  /\ pc \in {"report", "idle"} /\ calls > 0 => timer = "counted" /\ op = "counted"

TimedInv == CountInv /\ QueueInv /\ CallerInv

(***************************************************************************)
(* The one behind FirstResultReturned: when the operation was first, its   *)
(* only thread has assigned the value, is about to, or has died.           *)
(***************************************************************************)
OpWasFirst == pc # "idle" /\ done > 0 /\ error = "none"

Assigned == value = moved /\ \A t \in IoThreads : at[t] # "write"

Assigning == done = 1 /\ \A t \in IoThreads : at[t] = "write" /\ write[t] = [call |-> calls, n |-> moved]

Died == done = 1 /\ \A t \in IoThreads : at[t] = "dead"

ValueInv ==
  /\ op = "ok" => moved > 0
  /\ OpWasFirst => op = "counted" /\ moved > 0 /\ (Assigned \/ Assigning \/ Died)
=============================================================================
