----------------------------- MODULE UDPServer ------------------------------
(***************************************************************************)
(* UDPServer (source/server/asio/udp_server.cpp): one server object, the   *)
(* io threads that run its handlers, and one application thread that calls *)
(* Start, Stop, Restart, Multicast and SendAsync.                          *)
(*                                                                         *)
(* Handlers of the server never overlap (AsioExecutor), so a handler is    *)
(* split only where the application thread can see or disturb its middle:  *)
(* the stop handler (close, _started, the rest) and, when the application  *)
(* calls SendAsync, the send handler (_sending, the rest).  A call of the  *)
(* application thread is split at every access to shared state.            *)
(*                                                                         *)
(* The virtual callbacks onStarted, onReceived and onSent stand for user   *)
(* code: each may call ReceiveAsync, SendAsync, both or none.  Byte and    *)
(* datagram counters, options and endpoints are left out; a message is its *)
(* size.                                                                   *)
(***************************************************************************)
EXTENDS AsioSocket

CONSTANTS
  SockBuf,       \* SO_RCVBUF, what option_receive_buffer_size() returns
  RecvLimit,     \* _receive_buffer_limit, 0 for none
  SendLimit,     \* _send_buffer_limit, 0 for none
  Datagrams,     \* sizes of the datagrams that arrive
  Messages,      \* sizes that user code passes to SendAsync
  AppCalls,      \* what the application thread calls
  StartMayFail,  \* whether open() or bind() may throw
  MaxSessions,   \* bound on the number of times the server is started
  MaxReady       \* bound on the handlers waiting when the application posts

ASSUME SizesAssumption ==
  /\ SockBuf \in Nat \ {0}
  /\ RecvLimit \in Nat /\ SendLimit \in Nat
  /\ Datagrams \subseteq Nat
  /\ Messages \subseteq Nat \ {0}
  /\ AppCalls \subseteq {"Start", "Stop", "Restart", "Multicast", "SendAsync"}
  /\ StartMayFail \in BOOLEAN
  /\ MaxSessions \in Nat /\ MaxReady \in Nat

VARIABLES
  started,    \* _started
  receiving,  \* _receiving
  sending,    \* _sending
  rbuf,       \* _receive_buffer.size()
  sbuf,       \* _send_buffer.size()
  app,        \* where the application thread is
  msg         \* the size its current SendAsync call was given

srvVars == <<started, receiving, sending, rbuf, sbuf>>

appVars == <<app, msg>>

vars == <<execVars, sockVars, srvVars, appVars>>

AppAt ==
  {"idle", "start_post", "stop_post", "restart_post", "restart_spin", "restart_check",
   "send_to", "send_assign", "send_flag", "send_start"}

TypeOK ==
  /\ SockTypeOK
  /\ step \in {"begin", "stop_flag", "stop_clear", "sent"}
  /\ started \in BOOLEAN
  /\ receiving \in BOOLEAN
  /\ sending \in BOOLEAN
  /\ rbuf \in Nat
  /\ sbuf \in Nat
  /\ app \in AppAt
  /\ msg \in Nat

Init ==
  /\ ExecInit
  /\ SockInit
  /\ started = FALSE
  /\ receiving = FALSE
  /\ sending = FALSE
  /\ rbuf = 0
  /\ sbuf = 0
  /\ app = "idle"
  /\ msg = 0
-----------------------------------------------------------------------------
(***************************************************************************)
(* User code inside a callback of a started server.  rcv, snd, sb and cap  *)
(* are _receiving, _sending and the two buffer sizes when it is called, s  *)
(* the session.  TryReceive returns at once when _receiving is set;        *)
(* SendAsync returns when _sending is set, for size 0, and for a message   *)
(* over the limit.  (The latter calls onSent(0), whose calls are again     *)
(* among the ones chosen here.)                                            *)
(***************************************************************************)
Accepted(m) == m # 0 /\ ~(m > SendLimit /\ SendLimit > 0)

CallbackSends == IF "SendAsync" \in AppCalls THEN {0} ELSE {0} \cup Messages

TryReceive_NoGuard(wanted, rcv, cap, s) ==
  /\ receiving' = (rcv \/ wanted)
  /\ readOps' = IF wanted THEN Append(readOps, RecvOp(cap, s)) ELSE readOps

TryReceive(wanted, rcv, cap, s) ==
  /\ receiving' = (rcv \/ wanted)
  /\ readOps' = IF wanted /\ ~rcv THEN Append(readOps, RecvOp(cap, s)) ELSE readOps

SendAsync_NoGuard(m, snd, sb, s) ==
  /\ sbuf' = IF Accepted(m) THEN m ELSE sb
  /\ sending' = (snd \/ Accepted(m))
  /\ writeOps' = IF Accepted(m) THEN Append(writeOps, SendOp(m, m, s)) ELSE writeOps

SendAsync(m, snd, sb, s) ==
  IF ~snd /\ Accepted(m)
  THEN /\ sbuf' = m
       /\ sending' = TRUE
       /\ writeOps' = Append(writeOps, SendOp(m, m, s))
  ELSE /\ sbuf' = sb
       /\ sending' = snd
       /\ UNCHANGED writeOps

Callback(rcv, cap, snd, sb, s) ==
  \E wanted \in BOOLEAN, m \in CallbackSends :
    /\ TryReceive(wanted, rcv, cap, s)
    /\ SendAsync(m, snd, sb, s)
-----------------------------------------------------------------------------
(***************************************************************************)
(* The start handler.  open() throws when an earlier attempt left the      *)
(* socket open, and like bind() it may fail for other reasons.  The        *)
(* exception leaves io_service::run(), and with it the thread.             *)
(***************************************************************************)
StartHandlerIgnored(t) ==
  /\ Begins(t, "start")
  /\ started
  /\ FinishHandler
  /\ UNCHANGED <<queue, carried, alive, sockVars, srvVars, appVars>>

StartHandler_NoFlag(t) ==
  /\ Begins(t, "start")
  /\ ~started
  /\ socket = "closed"
  /\ FinishHandler
  /\ UNCHANGED <<queue, carried, alive, sockVars, srvVars, appVars>>

StartHandler(t) ==
  /\ Begins(t, "start")
  /\ ~started
  /\ socket = "closed"
  /\ socket' = "open"
  /\ session' = session + 1
  /\ rbuf' = SockBuf
  /\ started' = TRUE
  /\ Callback(receiving, SockBuf, sending, sbuf, session + 1)
  /\ FinishHandler
  /\ UNCHANGED <<queue, carried, alive, appVars>>

StartHandlerThrows(t) ==
  /\ Begins(t, "start")
  /\ ~started
  /\ \/ socket = "open" /\ UNCHANGED socket
     \/ socket = "closed" /\ StartMayFail /\ socket' \in {"open", "closed"}
  /\ alive' = alive \ {t}
  /\ FinishHandler
  /\ UNCHANGED <<queue, carried, readOps, writeOps, session, srvVars, appVars>>

(***************************************************************************)
(* The stop handler: close() aborts the pending operations, _started is    *)
(* cleared, then _receiving, _sending and the send buffer.                 *)
(***************************************************************************)
StopHandlerIgnored(t) ==
  /\ Begins(t, "stop")
  /\ ~started
  /\ FinishHandler
  /\ UNCHANGED <<queue, carried, alive, sockVars, srvVars, appVars>>

StopHandlerClose(t) ==
  /\ Begins(t, "stop")
  /\ started
  /\ socket' = "closed"
  /\ Complete(ready, AbortedOps)
  /\ readOps' = <<>>
  /\ writeOps' = <<>>
  /\ EnterStep(t, "stop_flag")
  /\ UNCHANGED <<carried, alive, session, srvVars, appVars>>

StopHandlerFlag(t) ==
  /\ Continues(t, "stop_flag")
  /\ started' = FALSE
  /\ EnterStep(t, "stop_clear")
  /\ UNCHANGED <<ready, queue, carried, alive, sockVars, receiving, sending, rbuf, sbuf, appVars>>

StopHandlerClear(t) ==
  /\ Continues(t, "stop_clear")
  /\ receiving' = FALSE
  /\ sending' = FALSE
  /\ sbuf' = 0
  /\ FinishHandler
  /\ UNCHANGED <<queue, carried, alive, sockVars, started, rbuf, appVars>>
-----------------------------------------------------------------------------
(***************************************************************************)
(* The receive handler: nothing but _receiving on a stopped server; else   *)
(* onReceived, and after it the buffer is doubled if the datagram filled   *)
(* it and the limit allows.                                                *)
(***************************************************************************)
Grown_ChecksOldSize(c) ==
  IF c.res = "ok" /\ rbuf = c.n /\ ~(c.n > RecvLimit /\ RecvLimit > 0) THEN 2 * c.n ELSE rbuf

Grown_OffByOne(c) ==
  IF c.res = "ok" /\ rbuf <= c.n + 1 /\ ~(2 * c.n > RecvLimit /\ RecvLimit > 0)
  THEN 2 * rbuf
  ELSE rbuf

Grown(c) ==
  IF c.res = "ok" /\ rbuf = c.n /\ ~(2 * c.n > RecvLimit /\ RecvLimit > 0)
  THEN 2 * c.n
  ELSE rbuf

ReceiveHandlerStopped(t) ==
  /\ Begins(t, "recv")
  /\ ~started
  /\ receiving' = FALSE
  /\ FinishHandler
  /\ UNCHANGED <<queue, carried, alive, sockVars, started, sending, rbuf, sbuf, appVars>>

ReceiveHandler_KeepsFlag(t) ==
  /\ Begins(t, "recv")
  /\ started
  /\ Callback(receiving, rbuf, sending, sbuf, session)
  /\ rbuf' = Grown(Head(ready))
  /\ FinishHandler
  /\ UNCHANGED <<queue, carried, alive, socket, session, started, appVars>>

ReceiveHandler(t) ==
  /\ Begins(t, "recv")
  /\ started
  /\ Callback(FALSE, rbuf, sending, sbuf, session)
  /\ rbuf' = Grown(Head(ready))
  /\ FinishHandler
  /\ UNCHANGED <<queue, carried, alive, socket, session, started, appVars>>

(***************************************************************************)
(* The send handler clears _sending first.  On a started server it then    *)
(* empties the send buffer (unless the operation failed or sent nothing)   *)
(* and calls onSent.                                                       *)
(***************************************************************************)
SentSomething(c) == c.res = "ok" /\ c.buf > 0

SendHandlerFlag_KeepsFlag(t) ==
  /\ Begins(t, "send")
  /\ EnterStep(t, "sent")
  /\ UNCHANGED <<ready, queue, carried, alive, sockVars, srvVars, appVars>>

SendHandlerFlag(t) ==
  /\ Begins(t, "send")
  /\ sending' = FALSE
  /\ EnterStep(t, "sent")
  /\ UNCHANGED <<ready, queue, carried, alive, sockVars, started, receiving, rbuf, sbuf, appVars>>

SendHandlerStopped(t) ==
  /\ Continues(t, "sent")
  /\ ~started
  /\ FinishHandler
  /\ UNCHANGED <<queue, carried, alive, sockVars, srvVars, appVars>>

SendHandlerRest(t) ==
  /\ Continues(t, "sent")
  /\ started
  /\ LET c == Head(ready)
     IN  \/ /\ c.res = "ok" /\ c.buf = 0
            /\ UNCHANGED <<receiving, readOps, sending, sbuf, writeOps>>
         \/ /\ c.res # "ok" \/ c.buf > 0
            /\ Callback(receiving, rbuf, sending, IF SentSomething(c) THEN 0 ELSE sbuf, session)
  /\ FinishHandler
  /\ UNCHANGED <<queue, carried, alive, socket, session, started, rbuf, appVars>>
-----------------------------------------------------------------------------
(***************************************************************************)
(* The application thread.  Start and Stop test _started, then post; the   *)
(* calls that return at the test change nothing.  Restart is Stop, a spin  *)
(* until _started is clear, and Start.                                     *)
(***************************************************************************)
Goto(from, to) == app = from /\ app' = to

AppStart ==
  /\ "Start" \in AppCalls
  /\ session < MaxSessions
  /\ Goto("idle", "start_post")
  /\ ~started
  /\ UNCHANGED <<execVars, sockVars, srvVars, msg>>

AppStartPost_Front ==
  /\ Goto("start_post", "idle")
  /\ Len(ready) < MaxReady
  /\ ready' = IF step = "begin"
              THEN <<PostedHandler("start")>> \o ready
              ELSE <<Head(ready), PostedHandler("start")>> \o Tail(ready)
  /\ UNCHANGED <<queue, carried, runner, step, alive, sockVars, srvVars, msg>>

AppStartPost ==
  /\ Goto("start_post", "idle")
  /\ Len(ready) < MaxReady
  /\ Post(ready, <<PostedHandler("start")>>)
  /\ UNCHANGED <<queue, carried, runner, step, alive, sockVars, srvVars, msg>>

AppStop ==
  /\ \/ "Stop" \in AppCalls /\ Goto("idle", "stop_post")
     \/ "Restart" \in AppCalls /\ session < MaxSessions /\ Goto("idle", "restart_post")
  /\ started
  /\ UNCHANGED <<execVars, sockVars, srvVars, msg>>

AppStopPost_Lost ==
  /\ Goto("stop_post", "idle") \/ Goto("restart_post", "restart_spin")
  /\ Len(ready) < MaxReady
  /\ UNCHANGED <<execVars, sockVars, srvVars, msg>>

AppStopPost ==
  /\ Goto("stop_post", "idle") \/ Goto("restart_post", "restart_spin")
  /\ Len(ready) < MaxReady
  /\ Post(ready, <<PostedHandler("stop")>>)
  /\ UNCHANGED <<queue, carried, runner, step, alive, sockVars, srvVars, msg>>

AppRestartSpin_NoWait ==
  /\ Goto("restart_spin", "restart_check")
  /\ UNCHANGED <<execVars, sockVars, srvVars, msg>>

AppRestartSpin ==
  /\ Goto("restart_spin", "restart_check")
  /\ ~started
  /\ UNCHANGED <<execVars, sockVars, srvVars, msg>>

AppRestartCheck ==
  /\ Goto("restart_check", IF started THEN "idle" ELSE "start_post")
  /\ UNCHANGED <<execVars, sockVars, srvVars, msg>>

(***************************************************************************)
(* Multicast (Send): test _started, then send_to() on the calling thread.  *)
(***************************************************************************)
AppMulticast ==
  /\ "Multicast" \in AppCalls
  /\ Goto("idle", "send_to")
  /\ started
  /\ UNCHANGED <<execVars, sockVars, srvVars, msg>>

AppMulticastSend ==
  /\ Goto("send_to", "idle")
  /\ UNCHANGED <<execVars, sockVars, srvVars, msg>>

(***************************************************************************)
(* SendAsync called by the application thread: test, fill the buffer, set  *)
(* _sending, and start the operation on whatever the buffer then holds.    *)
(* On a closed socket it completes at once with bad_descriptor.            *)
(***************************************************************************)
AppSendAsync_NoGuard ==
  /\ "SendAsync" \in AppCalls
  /\ Goto("idle", "send_assign")
  /\ started
  /\ \E m \in Messages : Accepted(m) /\ msg' = m
  /\ UNCHANGED <<execVars, sockVars, srvVars>>

AppSendAsync ==
  /\ "SendAsync" \in AppCalls
  /\ Goto("idle", "send_assign")
  /\ ~sending
  /\ started
  /\ \E m \in Messages : Accepted(m) /\ msg' = m
  /\ UNCHANGED <<execVars, sockVars, srvVars>>

AppSendAssign ==
  /\ Goto("send_assign", "send_flag")
  /\ sbuf' = msg
  /\ UNCHANGED <<execVars, sockVars, started, receiving, sending, rbuf, msg>>

AppSendFlag ==
  /\ Goto("send_flag", "send_start")
  /\ sending' = TRUE
  /\ UNCHANGED <<execVars, sockVars, started, receiving, rbuf, sbuf, msg>>

AppSendStart ==
  /\ Goto("send_start", "idle")
  /\ LET op == SendOp(sbuf, msg, session)
     IN  \/ /\ socket = "open"
            /\ writeOps' = Append(writeOps, op)
            /\ UNCHANGED execVars
         \/ /\ socket = "closed"
            /\ Complete(ready, <<Finished(op, "error", msg)>>)
            /\ UNCHANGED <<carried, runner, step, alive, writeOps>>
  /\ UNCHANGED <<socket, readOps, session, srvVars, msg>>
-----------------------------------------------------------------------------
HandlerStep(t) ==
  \/ StartHandlerIgnored(t) \/ StartHandler(t) \/ StartHandlerThrows(t)
  \/ StopHandlerIgnored(t) \/ StopHandlerClose(t) \/ StopHandlerFlag(t) \/ StopHandlerClear(t)
  \/ ReceiveHandlerStopped(t) \/ ReceiveHandler(t)
  \/ SendHandlerFlag(t) \/ SendHandlerStopped(t) \/ SendHandlerRest(t)

ThreadStep(t) ==
  \/ HandlerStep(t)
  \/ PopCompletion(t) /\ UNCHANGED <<sockVars, srvVars, appVars>>
  \/ Dispatch(t) /\ UNCHANGED <<sockVars, srvVars, appVars>>

AppBegins == AppStart \/ AppStop \/ AppMulticast \/ AppSendAsync

AppContinues ==
  \/ AppStartPost \/ AppStopPost \/ AppRestartSpin \/ AppRestartCheck
  \/ AppMulticastSend \/ AppSendAssign \/ AppSendFlag \/ AppSendStart

KernelSend == (\E r \in {"ok", "error"} : KernelSends(r)) /\ UNCHANGED <<srvVars, appVars>>

KernelReceive ==
  /\ (\E d \in Datagrams : KernelReceives(d)) \/ KernelFailsReceive
  /\ UNCHANGED <<srvVars, appVars>>

Next ==
  \/ \E t \in IoThreads : ThreadStep(t)
  \/ AppBegins
  \/ AppContinues
  \/ KernelSend
  \/ KernelReceive

Spec == Init /\ [][Next]_vars

(***************************************************************************)
(* Fairness: an io thread that can take a step eventually does, the        *)
(* operating system eventually takes a datagram from the send queue, and a *)
(* call that the application has begun goes on.  Nothing obliges the       *)
(* application to call, or a datagram to arrive.                           *)
(***************************************************************************)
FairSpec ==
  /\ Spec
  /\ \A t \in IoThreads : WF_vars(ThreadStep(t))
  /\ WF_vars(AppContinues)
  /\ WF_vars(KernelSend)
-----------------------------------------------------------------------------
(***************************************************************************)
(* At most one receive is pending on the socket.  All receives write to    *)
(* the same _receive_buffer and _receive_endpoint, and TryReceive guards   *)
(* against a second one with _receiving alone.                             *)
(***************************************************************************)
OneReceiveInFlight == Len(readOps) <= 1

(***************************************************************************)
(* While the server is started, the completion that runs next belongs to   *)
(* the current session: an operation aborted by an earlier Stop is not     *)
(* taken for one of the restarted server.                                  *)
(***************************************************************************)
NoStaleCompletion ==
  started /\ ready # <<>> /\ Head(ready).h \in {"recv", "send"} => Head(ready).sess = session

(***************************************************************************)
(* A pending send still points to the bytes its caller passed: the buffer  *)
(* was full when the operation was started, and neither a later SendAsync  *)
(* nor a handler has changed _send_buffer since.                           *)
(***************************************************************************)
SendIntegrity ==
  \A i \in 1..Len(writeOps) : writeOps[i].buf = writeOps[i].n /\ sbuf = writeOps[i].n

(***************************************************************************)
(* At most one send is pending on the socket, whoever calls SendAsync: all *)
(* sends read the same _send_buffer.                                       *)
(***************************************************************************)
OneSendInFlight == Len(writeOps) <= 1

(***************************************************************************)
(* With several io threads an aborted receive can complete after a restart *)
(* and clear _receiving although the new session's receive is pending, so  *)
(* OneReceiveInFlight is lost.  The damage is bounded: at most one receive *)
(* per opening of the socket is ever pending.                              *)
(***************************************************************************)
ReceivesBoundedByRestarts == Len(readOps) <= session

(***************************************************************************)
(* While no datagram fills the buffer, a pending receive was given the     *)
(* buffer that is still in place.  (A datagram of exactly the buffer's     *)
(* size makes the receive handler resize _receive_buffer after onReceived, *)
(* which has usually started the next receive on the old storage.)         *)
(***************************************************************************)
ReceiveBufferStable ==
  (\A d \in Datagrams : d < SockBuf) => \A i \in 1..Len(readOps) : readOps[i].buf = rbuf

(***************************************************************************)
(* Doubling the receive buffer respects SetupReceiveBufferLimit.           *)
(***************************************************************************)
BufferWithinLimit == RecvLimit >= SockBuf => rbuf <= RecvLimit

(***************************************************************************)
(* _receiving is set only while a receive is pending or its completion is  *)
(* still to run.  Otherwise every later ReceiveAsync would return at once  *)
(* and the server would never hear anything again.                         *)
(***************************************************************************)
NotDeaf == receiving => readOps # <<>> \/ CompletionOf("recv")

(***************************************************************************)
(* The same of _sending and SendAsync.                                     *)
(***************************************************************************)
NotMute == sending => writeOps # <<>> \/ CompletionOf("send") \/ app = "send_start"

(***************************************************************************)
(* Multicast never calls send_to() on a socket that the stop handler has   *)
(* closed (for an application that uses Restart and not Stop).             *)
(***************************************************************************)
MulticastOnOpenSocket == app = "send_to" => socket = "open"

(***************************************************************************)
(* Restart returns, and the server it restarts comes up again.             *)
(***************************************************************************)
RestartReturns == app = "restart_post" ~> app = "idle"

StartTakesEffect == app = "start_post" ~> started

(***************************************************************************)
(* Every accepted SendAsync is answered: _sending is eventually clear and  *)
(* the next message can be sent.                                           *)
(***************************************************************************)
SendsComplete == sending ~> ~sending
-----------------------------------------------------------------------------
(***************************************************************************)
(* The inductive invariants behind the proofs (UDPServerProofs).           *)
(*                                                                         *)
(* In every mode: a handler in the middle of its steps is still at the     *)
(* head of "ready".                                                        *)
(***************************************************************************)
HeadInExecution ==
  /\ step \in {"stop_flag", "stop_clear"} => ready # <<>> /\ Head(ready).h = "stop"
  /\ step = "sent" => ready # <<>> /\ Head(ready).h = "send"
  /\ step = "stop_flag" => started
  /\ step = "stop_clear" => ~started

(***************************************************************************)
(* The reactor's queues hold operations of their kind, and _sending is     *)
(* backed by an operation other than the one whose handler is past its     *)
(* first step.                                                             *)
(***************************************************************************)
OpKinds ==
  /\ \A i \in 1..Len(readOps) : readOps[i].h = "recv"
  /\ \A i \in 1..Len(writeOps) : writeOps[i].h = "send"

SendBacked ==
  sending => \/ writeOps # <<>>
             \/ app = "send_start"
             \/ InSeq(queue, "send")
             \/ InSeq(IF step = "sent" THEN Tail(ready) ELSE ready, "send")
             \/ \E t \in IoThreads : carried[t] # NoHandler /\ carried[t].h = "send"

(***************************************************************************)
(* With one io thread.  A stop that is still to take effect has no start   *)
(* behind it, and a start that is still to take effect has no stop behind  *)
(* it and no completion of the previous session: whatever is aborted by    *)
(* the stop handler runs before the start that Restart posts.              *)
(***************************************************************************)
Precedes(s, k, l) ==
  \A i, j \in 1..Len(s) : s[i].h = k /\ s[j].h = l => i < j

AtMostOne(s, k) ==
  \A i, j \in 1..Len(s) : s[i].h = k /\ s[j].h = k => i = j

OfSession(s, n) ==
  \A i \in 1..Len(s) : s[i].h \in {"recv", "send"} => s[i].sess = n

InSendAsync == app \in {"send_assign", "send_flag", "send_start"}

OrderInv ==
  /\ queue = <<>>
  /\ \A t \in IoThreads : carried[t] = NoHandler
  /\ started =>
       /\ Precedes(ready, "start", "stop")
       /\ app = "start_post" => ~InSeq(ready, "stop")
  /\ ~started =>
       /\ \A k \in {"stop", "recv", "send"} : Precedes(ready, k, "start")
       /\ app \in {"stop_post", "restart_post"} \/ InSendAsync => ~InSeq(ready, "start")

PendingInv ==
  /\ started /\ step # "stop_flag" => socket = "open"
  /\ step = "stop_flag" => socket = "closed"
  /\ ~started \/ step = "stop_flag" => readOps = <<>> /\ writeOps = <<>>
  /\ InSendAsync /\ ~started => socket = "closed"

ReceiveInv ==
  /\ Len(readOps) <= 1
  /\ readOps # <<>> => ~InSeq(ready, "recv")
  /\ AtMostOne(ready, "recv")
  /\ started /\ ~receiving => readOps = <<>> /\ ~InSeq(ready, "recv")

SessionInv ==
  started => OfSession(ready, session) /\ OfSession(readOps, session) /\ OfSession(writeOps, session)

SingleThreadInv == OrderInv /\ PendingInv /\ ReceiveInv /\ SessionInv

(***************************************************************************)
(* The sends with one io thread.  "sent" is the step between the two parts *)
(* of the send handler, in which the application's SendAsync may begin: it *)
(* finds no other send pending or to complete.                             *)
(***************************************************************************)
SendsToCome == IF step = "sent" THEN Tail(ready) ELSE ready

NoSend == writeOps = <<>> /\ ~InSeq(SendsToCome, "send")

WriteInv ==
  /\ Len(writeOps) <= 1
  /\ writeOps # <<>> => ~InSeq(SendsToCome, "send")
  /\ AtMostOne(SendsToCome, "send")
  /\ started /\ ~sending => NoSend
  /\ InSendAsync => "SendAsync" \in AppCalls /\ NoSend
  /\ app = "send_start" /\ started => sending

IntegrityInv == "SendAsync" \notin AppCalls => SendIntegrity /\ (step = "sent" => writeOps = <<>>)

(***************************************************************************)
(* When the application calls Restart and never Stop, a stop handler that  *)
(* has not cleared _started yet has Restart spinning on it, and there is   *)
(* one at most.                                                            *)
(***************************************************************************)
StopsToCome == IF step = "stop_clear" THEN Tail(ready) ELSE ready

RestartInv ==
  /\ ~InSeq(queue, "stop")
  /\ \A t \in IoThreads : carried[t] = NoHandler \/ carried[t].h # "stop"
  /\ started /\ step # "stop_flag" => socket = "open"
  /\ AtMostOne(StopsToCome, "stop")
  /\ InSeq(StopsToCome, "stop") => started /\ app = "restart_spin"
  /\ app \in {"restart_post", "send_to"} => started
  /\ app # "stop_post"

(***************************************************************************)
(* In every mode, while datagrams are smaller than the buffer: pending     *)
(* receives were given SockBuf bytes, no completion reports that many, and *)
(* so the receive handler leaves the buffer at the size the start handler  *)
(* gave it.                                                                *)
(***************************************************************************)
Short == {c \in Handler : c.h = "recv" /\ c.res = "ok" => c.n < SockBuf}

Receives == {c \in Handler : c.h = "recv" /\ c.buf = SockBuf}

BufferInv ==
  /\ ready \in Seq(Short)
  /\ queue \in Seq(Short)
  /\ carried \in [IoThreads -> Short \cup {NoHandler}]
  /\ readOps \in Seq(Receives)
  /\ readOps # <<>> \/ started => rbuf = SockBuf

(***************************************************************************)
(* In every mode: the receives that are pending or still to complete are   *)
(* no more than the times the socket has been opened, and fewer whenever   *)
(* TryReceive would let another one through.                               *)
(***************************************************************************)
ReceptionInv ==
  /\ IsFiniteSet(CarriersOf("recv"))
  /\ Receptions <= session
  /\ started /\ ~receiving => Receptions < session
=============================================================================
