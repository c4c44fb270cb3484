----------------------------- MODULE AsioSocket -----------------------------
(***************************************************************************)
(* The asio udp::socket of one server or client: the open descriptor and   *)
(* the reactor's per-descriptor queues of pending operations.  An          *)
(* operation that has completed, failed or been aborted becomes a handler  *)
(* of the executor (AsioExecutor).                                         *)
(*                                                                         *)
(* A handler or operation is a record                                      *)
(*   h    : what it is ("recv" and "send" are operations)                  *)
(*   res  : the error_code it completes with                               *)
(*   buf  : the size of the buffer that asio was given                     *)
(*   n    : bytes received, or the size of the message to send             *)
(*   sess : auxiliary: the opening of the socket it was started under      *)
(***************************************************************************)
EXTENDS AsioExecutor

VARIABLES
  socket,    \* "open" or "closed"
  readOps,   \* descriptor_state::op_queue_[read_op]
  writeOps,  \* descriptor_state::op_queue_[write_op]
  session    \* auxiliary: how often the socket has been opened and bound

sockVars == <<socket, readOps, writeOps, session>>

Results == {"none", "ok", "error", "aborted"}

Kinds == {"start", "stop", "connect", "resolve", "resolved", "disconnect", "recv", "send"}

Handler == [h : Kinds, res : Results, buf : Nat, n : Nat, sess : Nat]

ASSUME NoHandlerAssumption == NoHandler \notin Handler

PostedHandler(k) == [h |-> k, res |-> "none", buf |-> 0, n |-> 0, sess |-> 0]

RecvOp(cap, s) == [h |-> "recv", res |-> "none", buf |-> cap, n |-> 0, sess |-> s]

SendOp(len, msg, s) == [h |-> "send", res |-> "none", buf |-> len, n |-> msg, sess |-> s]

Finished(op, r, k) == [op EXCEPT !.res = r, !.n = k]

SockInit ==
  /\ socket = "closed"
  /\ readOps = <<>>
  /\ writeOps = <<>>
  /\ session = 0

SockTypeOK ==
  /\ ready \in Seq(Handler)
  /\ queue \in Seq(Handler)
  /\ carried \in [IoThreads -> Handler \cup {NoHandler}]
  /\ runner \in IoThreads \cup {NoThread}
  /\ alive \in SUBSET IoThreads
  /\ socket \in {"open", "closed"}
  /\ readOps \in Seq(Handler)
  /\ writeOps \in Seq(Handler)
  /\ session \in Nat

(***************************************************************************)
(* close() and cancel(): every pending operation, reads first, becomes a   *)
(* completion with operation_aborted.                                      *)
(***************************************************************************)
AbortAll(ops) == [i \in 1..Len(ops) |-> Finished(ops[i], "aborted", ops[i].n)]

AbortedOps == AbortAll(readOps) \o AbortAll(writeOps)

(***************************************************************************)
(* The reactor finishes the first pending operation of a queue: perform()  *)
(* succeeds at once, or later when epoll reports the descriptor ready.  A  *)
(* datagram of d bytes is cut to the buffer.  Some io thread does this.    *)
(***************************************************************************)
KernelReceives(d) ==
  /\ alive # {}
  /\ readOps # <<>>
  /\ LET op == Head(readOps)
         got == IF d < op.buf THEN d ELSE op.buf
     IN  Complete(ready, <<Finished(op, "ok", got)>>)
  /\ readOps' = Tail(readOps)
  /\ UNCHANGED <<carried, runner, step, alive, socket, writeOps, session>>

KernelFailsReceive ==
  /\ alive # {}
  /\ readOps # <<>>
  /\ Complete(ready, <<Finished(Head(readOps), "error", 0)>>)
  /\ readOps' = Tail(readOps)
  /\ UNCHANGED <<carried, runner, step, alive, socket, writeOps, session>>

KernelSends(result) ==
  /\ alive # {}
  /\ writeOps # <<>>
  /\ Complete(ready, <<Finished(Head(writeOps), result, Head(writeOps).n)>>)
  /\ writeOps' = Tail(writeOps)
  /\ UNCHANGED <<carried, runner, step, alive, socket, readOps, session>>

(***************************************************************************)
(* The completions of operations of kind k that have not run yet: waiting, *)
(* popped by a thread, or in execution order.                              *)
(***************************************************************************)
InSeq(s, k) == \E i \in 1..Len(s) : s[i].h = k

CompletionOf(k) ==
  \/ InSeq(queue, k)
  \/ InSeq(ready, k)
  \/ \E t \in IoThreads : carried[t] # NoHandler /\ carried[t].h = k

(***************************************************************************)
(* ... and how many there are.                                             *)
(***************************************************************************)
Positions(s, k) == {i \in 1..Len(s) : s[i].h = k}

Count(s, k) == Cardinality(Positions(s, k))

CarriersOf(k) == {t \in IoThreads : carried[t] # NoHandler /\ carried[t].h = k}

Completions(k) == Count(queue, k) + Count(ready, k) + Cardinality(CarriersOf(k))

Receptions == Len(readOps) + Completions("recv")
=============================================================================
