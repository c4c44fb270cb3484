----------------------------- MODULE UDPClient ------------------------------
(***************************************************************************)
(* UDPClient (source/server/asio/udp_client.cpp) as client.cpp uses it:    *)
(* one MulticastClient, the io threads that run its handlers, and the main *)
(* thread that calls ConnectAsync, ReconnectAsync and DisconnectAndStop.   *)
(*                                                                         *)
(* The callbacks are those of MulticastClient: onConnected and onReceived  *)
(* call ReceiveAsync, onDisconnected sleeps and, unless _stop is set,      *)
(* calls ConnectAsync.  With CallbackSends they may call SendAsync too.    *)
(*                                                                         *)
(* A handler is split where the main thread can see or disturb its middle: *)
(* a disconnect is close(), the flags, and onDisconnected.  dispatch()     *)
(* from inside a handler runs the disconnect at once, as part of it.       *)
(***************************************************************************)
EXTENDS AsioSocket

CONSTANTS
  SockBuf,           \* SO_RCVBUF
  Datagrams,         \* sizes of the datagrams that arrive
  AppCalls,          \* what the main thread calls
  CallbackSends,     \* whether callbacks call SendAsync
  OpsMayFail,        \* whether receives and sends may end with an error
  ConnectMayFail,    \* whether open(), bind() or joining the group may throw
  PromptMain,        \* whether a call of the main thread gets done within the second
                     \* that onDisconnected sleeps
  MaxSessions,       \* the main thread begins calls in this many sessions
  MaxOpened,         \* bound on the sessions, those of onDisconnected included
  MaxReady           \* bound on the handlers waiting when a call begins

ASSUME ClientAssumption ==
  /\ SockBuf \in Nat \ {0}
  /\ Datagrams \subseteq Nat
  /\ AppCalls \subseteq {"Connect", "Resolve", "Reconnect", "Stop"}
  /\ {CallbackSends, OpsMayFail, ConnectMayFail, PromptMain} \subseteq BOOLEAN
  /\ {MaxSessions, MaxOpened, MaxReady} \subseteq Nat

VARIABLES
  connected,  \* _connected
  resolving,  \* _resolving
  receiving,  \* _receiving
  sending,    \* _sending
  rbuf,       \* _receive_buffer.size()
  lookups,    \* async_resolve operations in progress
  stop,       \* MulticastClient::_stop
  app         \* where the main thread is

cltVars == <<connected, resolving, receiving, sending, rbuf, lookups>>

appVars == <<stop, app>>

vars == <<execVars, sockVars, cltVars, appVars>>

AppAt ==
  {"idle", "connect_post", "resolve_post", "reconn_cancel", "reconn_post", "reconn_spin",
   "reconn_check", "stop_test", "stop_cancel", "stop_post", "stop_spin", "done"}

TypeOK ==
  /\ SockTypeOK
  /\ step \in {"begin", "close", "lost"}
  /\ connected \in BOOLEAN
  /\ resolving \in BOOLEAN
  /\ receiving \in BOOLEAN
  /\ sending \in BOOLEAN
  /\ rbuf \in Nat
  /\ lookups \in Nat
  /\ stop \in BOOLEAN
  /\ app \in AppAt

Init ==
  /\ ExecInit
  /\ SockInit
  /\ connected = FALSE
  /\ resolving = FALSE
  /\ receiving = FALSE
  /\ sending = FALSE
  /\ rbuf = 0
  /\ lookups = 0
  /\ stop = FALSE
  /\ app = "idle"
-----------------------------------------------------------------------------
(***************************************************************************)
(* What callbacks of a connected client do: ReceiveAsync, which returns at *)
(* once when _receiving (rcv) is set, and possibly SendAsync, which does   *)
(* so when _sending (snd) is set.                                          *)
(***************************************************************************)
TryReceive(rcv, cap, s) ==
  /\ receiving' = TRUE
  /\ readOps' = IF rcv THEN readOps ELSE Append(readOps, RecvOp(cap, s))

SendAsync(snd, s) ==
  \/ sending' = snd /\ UNCHANGED writeOps
  \/ CallbackSends /\ ~snd /\ sending' = TRUE /\ writeOps' = Append(writeOps, SendOp(1, 1, s))

(***************************************************************************)
(* Connect(): open, bind, _connected, onConnected.                         *)
(***************************************************************************)
Connects ==
  /\ session < MaxOpened
  /\ socket = "closed"
  /\ socket' = "open"
  /\ session' = session + 1
  /\ rbuf' = SockBuf
  /\ connected' = TRUE
  /\ TryReceive(receiving, SockBuf, session + 1)
  /\ SendAsync(sending, session + 1)

(***************************************************************************)
(* Connect() throws: the socket was left open by an earlier failure, open  *)
(* or bind fails, or JoinMulticastGroup fails when _connected is set       *)
(* already.  The exception ends the thread.                                *)
(***************************************************************************)
ConnectThrows(t) ==
  /\ \/ socket = "open" /\ UNCHANGED <<socket, session, rbuf, connected>>
     \/ /\ ConnectMayFail
        /\ session < MaxOpened
        /\ socket = "closed"
        /\ \/ socket' \in {"open", "closed"} /\ UNCHANGED <<session, rbuf, connected>>
           \/ socket' = "open" /\ session' = session + 1 /\ rbuf' = SockBuf /\ connected' = TRUE
  /\ alive' = alive \ {t}
  /\ UNCHANGED <<receiving, sending, readOps, writeOps>>

ConnectHandlerIgnored(t) ==
  /\ Begins(t, "connect")
  /\ connected
  /\ FinishHandler
  /\ UNCHANGED <<queue, carried, alive, sockVars, cltVars, appVars>>

ConnectHandler(t) ==
  /\ Begins(t, "connect")
  /\ ~connected
  /\ (Connects /\ UNCHANGED alive) \/ ConnectThrows(t)
  /\ FinishHandler
  /\ UNCHANGED <<queue, carried, resolving, lookups, appVars>>
-----------------------------------------------------------------------------
(***************************************************************************)
(* ConnectAsync(resolver): the posted handler starts a lookup, whose       *)
(* completion connects, or reports the failure to onDisconnected.          *)
(***************************************************************************)
ResolveHandlerIgnored(t) ==
  /\ Begins(t, "resolve")
  /\ connected \/ resolving
  /\ FinishHandler
  /\ UNCHANGED <<queue, carried, alive, sockVars, cltVars, appVars>>

ResolveHandler(t) ==
  /\ Begins(t, "resolve")
  /\ ~connected /\ ~resolving
  /\ resolving' = TRUE
  /\ lookups' = lookups + 1
  /\ FinishHandler
  /\ UNCHANGED <<queue, carried, alive, sockVars, connected, receiving, sending, rbuf, appVars>>

ResolvedHandlerIgnored_KeepsFlag(t) ==
  /\ Begins(t, "resolved")
  /\ connected
  /\ FinishHandler
  /\ UNCHANGED <<queue, carried, alive, sockVars, cltVars, appVars>>

ResolvedHandlerIgnored(t) ==
  /\ Begins(t, "resolved")
  /\ connected
  /\ resolving' = FALSE
  /\ FinishHandler
  /\ UNCHANGED <<queue, carried, alive, sockVars, connected, receiving, sending, rbuf, lookups, appVars>>

ResolvedHandler(t) ==
  /\ Begins(t, "resolved")
  /\ ~connected
  /\ Head(ready).res = "ok"
  /\ resolving' = FALSE
  /\ (Connects /\ UNCHANGED alive) \/ ConnectThrows(t)
  /\ FinishHandler
  /\ UNCHANGED <<queue, carried, lookups, appVars>>

ResolvedHandlerFails(t) ==
  /\ Begins(t, "resolved")
  /\ ~connected
  /\ Head(ready).res = "error"
  /\ resolving' = FALSE
  /\ EnterStep(t, "lost")
  /\ UNCHANGED <<ready, queue, carried, alive, sockVars, connected, receiving, sending, rbuf, lookups, appVars>>

(***************************************************************************)
(* The resolver's own thread finishes a lookup.                            *)
(***************************************************************************)
LookupDone ==
  /\ lookups > 0
  /\ lookups' = lookups - 1
  /\ \E r \in {"ok", "error"} : Complete(ready, <<Finished(PostedHandler("resolved"), r, 0)>>)
  /\ UNCHANGED <<carried, runner, step, alive, sockVars, connected, resolving, receiving, sending, rbuf, appVars>>
-----------------------------------------------------------------------------
(***************************************************************************)
(* DisconnectInternal(): close() aborts the pending operations, the flags  *)
(* are cleared, and onDisconnected posts the next connect unless _stop is  *)
(* set by then.  ops and wops are the operations pending at close().       *)
(***************************************************************************)
Closes_NoClose(t, ops, wops) ==
  /\ readOps' = ops
  /\ writeOps' = wops
  /\ EnterStep(t, "close")
  /\ UNCHANGED <<ready, queue, carried, alive, socket, session>>

Closes(t, ops, wops) ==
  /\ socket' = "closed"
  /\ Complete(ready, AbortAll(ops) \o AbortAll(wops))
  /\ readOps' = <<>>
  /\ writeOps' = <<>>
  /\ EnterStep(t, "close")
  /\ UNCHANGED <<carried, alive, session>>


DisconnectFlags(t) ==
  /\ Continues(t, "close")
  /\ resolving' = FALSE
  /\ connected' = FALSE
  /\ receiving' = FALSE
  /\ sending' = FALSE
  /\ EnterStep(t, "lost")
  /\ UNCHANGED <<ready, queue, carried, alive, sockVars, rbuf, lookups, appVars>>

OnDisconnected(t) ==
  /\ Continues(t, "lost")
  /\ PromptMain => app \in {"idle", "done"}
  /\ Post(Tail(ready), IF stop THEN <<>> ELSE <<PostedHandler("connect")>>)
  /\ LeaveHandler
  /\ UNCHANGED <<queue, carried, alive, sockVars, cltVars, appVars>>

DisconnectHandlerIgnored(t) ==
  /\ Begins(t, "disconnect")
  /\ ~connected
  /\ FinishHandler
  /\ UNCHANGED <<queue, carried, alive, sockVars, cltVars, appVars>>

DisconnectHandler(t) ==
  /\ Begins(t, "disconnect")
  /\ connected
  /\ Closes(t, readOps, writeOps)
  /\ UNCHANGED <<cltVars, appVars>>
-----------------------------------------------------------------------------
(***************************************************************************)
(* The receive handler.  A datagram that fills the buffer doubles it: no   *)
(* operation of UDPClient sets _receive_buffer_limit, which stays 0.       *)
(* After an error, an aborted operation included, the handler calls        *)
(* DisconnectInternalAsync(true): cancel() and, inline, the disconnect.    *)
(***************************************************************************)
FillsBuffer(c) == rbuf = c.n

ReceiveHandlerStopped(t) ==
  /\ Begins(t, "recv")
  /\ ~connected
  /\ receiving' = FALSE
  /\ FinishHandler
  /\ UNCHANGED <<queue, carried, alive, sockVars, connected, resolving, sending, rbuf, lookups, appVars>>

ReceiveHandler_NoRearm(t) ==
  /\ Begins(t, "recv")
  /\ connected
  /\ Head(ready).res = "ok"
  /\ receiving' = FALSE
  /\ FinishHandler
  /\ UNCHANGED <<queue, carried, alive, sockVars, connected, resolving, sending, rbuf, lookups, appVars>>

ReceiveHandler_RearmsTwice(t) ==
  /\ Begins(t, "recv")
  /\ connected
  /\ Head(ready).res = "ok"
  /\ receiving' = TRUE
  /\ readOps' = readOps \o <<RecvOp(rbuf, session), RecvOp(rbuf, session)>>
  /\ FinishHandler
  /\ UNCHANGED <<queue, carried, alive, socket, writeOps, session, connected, resolving, sending, rbuf, lookups, appVars>>

ReceiveHandler(t) ==
  /\ Begins(t, "recv")
  /\ connected
  /\ Head(ready).res = "ok"
  /\ TryReceive(FALSE, rbuf, session)
  /\ SendAsync(sending, session)
  /\ rbuf' = IF FillsBuffer(Head(ready)) THEN 2 * rbuf ELSE rbuf
  /\ FinishHandler
  /\ UNCHANGED <<queue, carried, alive, socket, session, connected, resolving, lookups, appVars>>

ReceiveHandlerFails(t) ==
  /\ Begins(t, "recv")
  /\ connected
  /\ Head(ready).res # "ok"
  /\ receiving' = FALSE
  /\ Closes(t, readOps, writeOps)
  /\ UNCHANGED <<connected, resolving, sending, rbuf, lookups, appVars>>

(***************************************************************************)
(* The send handler; onSent may call SendAsync again.                      *)
(***************************************************************************)
SendHandler_KeepsFlag(t) ==
  /\ Begins(t, "send")
  /\ ~connected \/ Head(ready).res = "ok"
  /\ FinishHandler
  /\ UNCHANGED <<queue, carried, alive, sockVars, cltVars, appVars>>

SendHandler(t) ==
  /\ Begins(t, "send")
  /\ ~connected \/ Head(ready).res = "ok"
  /\ IF connected THEN SendAsync(FALSE, session) ELSE sending' = FALSE /\ UNCHANGED writeOps
  /\ FinishHandler
  /\ UNCHANGED <<queue, carried, alive, socket, readOps, session, connected, resolving, receiving, rbuf, lookups, appVars>>

SendHandlerFails(t) ==
  /\ Begins(t, "send")
  /\ connected
  /\ Head(ready).res # "ok"
  /\ sending' = FALSE
  /\ Closes(t, readOps, writeOps)
  /\ UNCHANGED <<connected, resolving, receiving, rbuf, lookups, appVars>>
-----------------------------------------------------------------------------
(***************************************************************************)
(* The main thread of client.cpp.  ConnectAsync tests _connected and       *)
(* posts.  DisconnectAsync tests it, cancels the pending operations and    *)
(* posts; ReconnectAsync then spins until _connected is clear and calls    *)
(* ConnectAsync.                                                           *)
(***************************************************************************)
Goto(from, to) == app = from /\ app' = to

CallBounds == session < MaxSessions /\ Len(ready) < MaxReady

AppConnect ==
  /\ "Connect" \in AppCalls
  /\ CallBounds
  /\ Goto("idle", "connect_post")
  /\ ~connected
  /\ UNCHANGED <<execVars, sockVars, cltVars, stop>>

AppResolve ==
  /\ "Resolve" \in AppCalls
  /\ CallBounds
  /\ Goto("idle", "resolve_post")
  /\ ~connected /\ ~resolving
  /\ UNCHANGED <<execVars, sockVars, cltVars, stop>>

AppReconnect ==
  /\ "Reconnect" \in AppCalls
  /\ CallBounds
  /\ Goto("idle", "reconn_cancel")
  /\ connected
  /\ UNCHANGED <<execVars, sockVars, cltVars, stop>>

AppPosts(k) ==
  /\ Post(ready, <<PostedHandler(k)>>)
  /\ UNCHANGED <<queue, carried, runner, step, alive, sockVars, cltVars, stop>>

AppConnectPost == Goto("connect_post", "idle") /\ AppPosts("connect")

AppResolvePost == Goto("resolve_post", "idle") /\ AppPosts("resolve")

AppCancel ==
  /\ Goto("reconn_cancel", "reconn_post") \/ Goto("stop_cancel", "stop_post")
  /\ Complete(ready, AbortedOps)
  /\ readOps' = <<>>
  /\ writeOps' = <<>>
  /\ UNCHANGED <<carried, runner, step, alive, socket, session, cltVars, stop>>

AppDisconnectPost ==
  /\ Goto("reconn_post", "reconn_spin") \/ Goto("stop_post", "stop_spin")
  /\ AppPosts("disconnect")

AppReconnectSpin ==
  /\ Goto("reconn_spin", "reconn_check")
  /\ ~connected
  /\ UNCHANGED <<execVars, sockVars, cltVars, stop>>

AppReconnectCheck ==
  /\ Goto("reconn_check", IF connected THEN "idle" ELSE "connect_post")
  /\ UNCHANGED <<execVars, sockVars, cltVars, stop>>

(***************************************************************************)
(* DisconnectAndStop: _stop, DisconnectAsync (which does nothing when the  *)
(* client is not connected), and a spin until it is not connected.         *)
(***************************************************************************)
AppStop ==
  /\ "Stop" \in AppCalls
  /\ Goto("idle", "stop_test")
  /\ stop' = TRUE
  /\ UNCHANGED <<execVars, sockVars, cltVars>>

AppStopTest ==
  /\ Goto("stop_test", IF connected THEN "stop_cancel" ELSE "stop_spin")
  /\ UNCHANGED <<execVars, sockVars, cltVars, stop>>

AppStopSpin ==
  /\ Goto("stop_spin", "done")
  /\ ~connected
  /\ UNCHANGED <<execVars, sockVars, cltVars, stop>>
-----------------------------------------------------------------------------
HandlerStep(t) ==
  \/ ConnectHandlerIgnored(t) \/ ConnectHandler(t)
  \/ ResolveHandlerIgnored(t) \/ ResolveHandler(t)
  \/ ResolvedHandlerIgnored(t) \/ ResolvedHandler(t) \/ ResolvedHandlerFails(t)
  \/ DisconnectHandlerIgnored(t) \/ DisconnectHandler(t) \/ DisconnectFlags(t) \/ OnDisconnected(t)
  \/ ReceiveHandlerStopped(t) \/ ReceiveHandler(t) \/ ReceiveHandlerFails(t)
  \/ SendHandler(t) \/ SendHandlerFails(t)

ThreadStep(t) ==
  \/ HandlerStep(t)
  \/ PopCompletion(t) /\ UNCHANGED <<sockVars, cltVars, appVars>>
  \/ Dispatch(t) /\ UNCHANGED <<sockVars, cltVars, appVars>>

AppBegins == AppConnect \/ AppResolve \/ AppReconnect \/ AppStop

AppContinues ==
  \/ AppConnectPost \/ AppResolvePost \/ AppCancel \/ AppDisconnectPost
  \/ AppReconnectSpin \/ AppReconnectCheck \/ AppStopTest \/ AppStopSpin

KernelSend ==
  /\ KernelSends("ok") \/ (OpsMayFail /\ KernelSends("error"))
  /\ UNCHANGED <<cltVars, appVars>>

KernelReceive ==
  /\ (\E d \in Datagrams : KernelReceives(d)) \/ (OpsMayFail /\ KernelFailsReceive)
  /\ UNCHANGED <<cltVars, appVars>>

Next ==
  \/ \E t \in IoThreads : ThreadStep(t)
  \/ AppBegins
  \/ AppContinues
  \/ LookupDone
  \/ KernelSend
  \/ KernelReceive

Spec == Init /\ [][Next]_vars

(***************************************************************************)
(* Fairness: io threads, the resolver and a call of the main thread that   *)
(* has begun go on, and the operating system sends what is queued.         *)
(* Datagrams need not arrive.                                              *)
(***************************************************************************)
FairSpec ==
  /\ Spec
  /\ \A t \in IoThreads : WF_vars(ThreadStep(t))
  /\ WF_vars(AppContinues)
  /\ WF_vars(LookupDone)
  /\ WF_vars(KernelSend)
-----------------------------------------------------------------------------
(***************************************************************************)
(* A connected client that is not inside a handler is listening: its flag  *)
(* is set, and a receive is pending or its completion is still to run.     *)
(* (An io thread that died in onConnected is the exception.)               *)
(***************************************************************************)
Listening ==
  connected /\ step = "begin" /\ alive = IoThreads
    => receiving /\ (readOps # <<>> \/ CompletionOf("recv"))

(***************************************************************************)
(* A session adds at most one receive to those that are pending.  (More    *)
(* than one may be: a completion of the previous session that runs after   *)
(* the reconnect re-arms itself next to the receive of the new session.)   *)
(***************************************************************************)
ReceivesBoundedBySessions == Len(readOps) <= session

(***************************************************************************)
(* Nothing is pending on the socket of a disconnected client.              *)
(***************************************************************************)
QuietWhenDisconnected == ~connected => readOps = <<>> /\ writeOps = <<>>

(***************************************************************************)
(* _sending is set only while a send is pending or its completion is still *)
(* to run: SendAsync is never refused for good.                            *)
(***************************************************************************)
NotMute == sending => writeOps # <<>> \/ CompletionOf("send")

(***************************************************************************)
(* A lookup in progress or its completion is what _resolving stands for.   *)
(***************************************************************************)
ResolvingBacked == resolving => lookups > 0 \/ CompletionOf("resolved")


(***************************************************************************)
(* When the user stops typing '!', the reconnects come to an end with a    *)
(* client that is connected and stays so (if it has connected once, no     *)
(* operation fails and it is not stopped): the connect handlers posted by  *)
(* onDisconnected and by ReconnectAsync, and the late disconnect handler,  *)
(* do not chase one another for ever.                                      *)
(***************************************************************************)
Settles == session > 0 ~> [](connected \/ stop)

(***************************************************************************)
(* DisconnectAndStop returns.                                              *)
(***************************************************************************)
StopReturns == app = "stop_test" ~> app = "done"
-----------------------------------------------------------------------------
(***************************************************************************)
(* The inductive invariant behind ReceivesBoundedBySessions: the receives  *)
(* that are pending or still to complete are no more than the times the    *)
(* socket has been opened.                                                 *)
(***************************************************************************)
ReceptionInv ==
  /\ IsFiniteSet(CarriersOf("recv"))
  /\ Receptions <= session
=============================================================================
