-------------------------- MODULE UDPServerProofs ---------------------------
(***************************************************************************)
(* Proofs about UDPServer for every value of its constants.                *)
(***************************************************************************)
EXTENDS UDPServer, AsioProofs

LEMMA CallbackTyped ==
  ASSUME TypeOK, NEW rcv \in BOOLEAN, NEW cap \in Nat, NEW snd \in BOOLEAN,
         NEW sb \in Nat, NEW s \in Nat, Callback(rcv, cap, snd, sb, s)
  PROVE  /\ receiving' \in BOOLEAN /\ sending' \in BOOLEAN /\ sbuf' \in Nat
         /\ readOps' \in Seq(Handler) /\ writeOps' \in Seq(Handler)
<1> PICK wanted \in BOOLEAN, m \in CallbackSends :
      TryReceive(wanted, rcv, cap, s) /\ SendAsync(m, snd, sb, s)
  BY DEF Callback
<1>1. m \in Nat
  BY SizesAssumption DEF CallbackSends
<1>2. RecvOp(cap, s) \in Handler /\ SendOp(m, m, s) \in Handler
  BY <1>1, RecvOpFacts, SendOpFacts
<1>3. receiving' \in BOOLEAN /\ readOps' \in Seq(Handler)
  BY <1>2 DEF TryReceive, TypeOK, SockTypeOK
<1>4. sending' \in BOOLEAN /\ sbuf' \in Nat /\ writeOps' \in Seq(Handler)
  <2>1. CASE ~snd /\ Accepted(m)
    <3>1. sbuf' = m /\ sending' = TRUE /\ writeOps' = Append(writeOps, SendOp(m, m, s))
      BY ZenonT(30), <2>1 DEF SendAsync
    <3>2. QED
      BY <3>1, <1>1, <1>2 DEF TypeOK, SockTypeOK
  <2>2. CASE ~(~snd /\ Accepted(m))
    BY ZenonT(30), <2>2 DEF SendAsync, TypeOK, SockTypeOK
  <2>3. QED
    BY <2>1, <2>2
<1>5. QED
  BY <1>3, <1>4

LEMMA TypeInit == Init => TypeOK /\ HeadInExecution
<1> SUFFICES ASSUME Init PROVE TypeOK /\ HeadInExecution
  OBVIOUS
<1> USE DEF Init, ExecInit, SockInit
<1>1. SockTypeOK
  <2>1. <<>> \in Seq(Handler)
    BY EmptySeq
  <2>2. carried \in [IoThreads -> Handler \cup {NoHandler}]
    OBVIOUS
  <2>3. QED
    BY <2>1, <2>2 DEF SockTypeOK
<1>2. QED
  BY ZenonT(30), <1>1 DEF TypeOK, HeadInExecution, AppAt

(***************************************************************************)
(* Type correctness is preserved by every step.                            *)
(***************************************************************************)
LEMMA TypeHandlerStep ==
  ASSUME TypeOK, HeadInExecution, NEW t \in IoThreads, HandlerStep(t)
  PROVE  TypeOK'
<1> USE DEF TypeOK, SockTypeOK, execVars, sockVars, srvVars, appVars
<1>1. CASE StartHandlerIgnored(t)
  BY <1>1, FinishHandlerFacts DEF StartHandlerIgnored, Begins
<1>2. CASE StartHandler(t)
  <2>1. SockBuf \in Nat /\ session + 1 \in Nat
    BY SizesAssumption
  <2>2. Callback(receiving, SockBuf, sending, sbuf, session + 1)
    BY <1>2 DEF StartHandler
  <2>3. /\ receiving' \in BOOLEAN /\ sending' \in BOOLEAN /\ sbuf' \in Nat
        /\ readOps' \in Seq(Handler) /\ writeOps' \in Seq(Handler)
    BY <2>1, <2>2, CallbackTyped
  <2>4. QED
    BY <1>2, <2>1, <2>3, FinishHandlerFacts DEF StartHandler, Begins
<1>3. CASE StartHandlerThrows(t)
  BY <1>3, FinishHandlerFacts DEF StartHandlerThrows, Begins
<1>4. CASE StopHandlerIgnored(t)
  BY <1>4, FinishHandlerFacts DEF StopHandlerIgnored, Begins
<1>5. CASE StopHandlerClose(t)
  <2>1. AbortedOps \in Seq(Handler)
    BY AbortAllFacts, ConcatProperties DEF AbortedOps
  <2>2. ready' \in Seq(Handler) /\ queue' \in Seq(Handler)
    BY <1>5, <2>1, CompleteTyped DEF StopHandlerClose
  <2>3. QED
    BY <1>5, <2>2 DEF StopHandlerClose, EnterStep
<1>6. CASE StopHandlerFlag(t)
  BY ZenonT(30), <1>6 DEF StopHandlerFlag, EnterStep
<1>7. CASE StopHandlerClear(t)
  BY ZenonT(30), <1>7, FinishHandlerFacts DEF StopHandlerClear, Continues, HeadInExecution
<1>8. CASE ReceiveHandlerStopped(t)
  BY ZenonT(30), <1>8, FinishHandlerFacts DEF ReceiveHandlerStopped, Begins
<1>9. CASE ReceiveHandler(t)
  <2>1. Callback(FALSE, rbuf, sending, sbuf, session)
    BY ZenonT(30), <1>9 DEF ReceiveHandler
  <2>2. /\ receiving' \in BOOLEAN /\ sending' \in BOOLEAN /\ sbuf' \in Nat
        /\ readOps' \in Seq(Handler) /\ writeOps' \in Seq(Handler)
    BY ZenonT(30), <2>1, CallbackTyped
  <2>3. Head(ready).n \in Nat
    BY SMTT(30), <1>9, TailTyped DEF ReceiveHandler, Begins, Handler
  <2>4. rbuf' \in Nat
    BY <1>9, <2>3 DEF ReceiveHandler, Grown
  <2>5. QED
    BY <1>9, <2>2, <2>4, FinishHandlerFacts DEF ReceiveHandler, Begins
<1>10. CASE SendHandlerFlag(t)
  BY ZenonT(30), <1>10 DEF SendHandlerFlag, EnterStep
<1>11. CASE SendHandlerStopped(t)
  BY <1>11, FinishHandlerFacts DEF SendHandlerStopped, Continues, HeadInExecution
<1>12. CASE SendHandlerRest(t)
  <2> DEFINE sb == IF SentSomething(Head(ready)) THEN 0 ELSE sbuf
  <2>1. /\ receiving' \in BOOLEAN /\ sending' \in BOOLEAN /\ sbuf' \in Nat
        /\ readOps' \in Seq(Handler) /\ writeOps' \in Seq(Handler)
    <3>1. CASE UNCHANGED <<receiving, readOps, sending, sbuf, writeOps>>
      BY <3>1
    <3>2. CASE Callback(receiving, rbuf, sending, sb, session)
      <4>1. sb \in Nat
        OBVIOUS
      <4> HIDE DEF sb
      <4>2. QED
        BY <3>2, <4>1, CallbackTyped
    <3>3. QED
      BY <1>12, <3>1, <3>2 DEF SendHandlerRest
  <2>2. QED
    BY <1>12, <2>1, FinishHandlerFacts DEF SendHandlerRest, Continues, HeadInExecution
<1>13. QED
  BY <1>1, <1>2, <1>3, <1>4, <1>5, <1>6, <1>7, <1>8, <1>9, <1>10, <1>11, <1>12 DEF HandlerStep

(***************************************************************************)
(* Every other step adds at most at the tail of "ready" and leaves the     *)
(* handler in execution alone.                                             *)
(***************************************************************************)
OtherStep ==
  \/ \E t \in IoThreads :
       (PopCompletion(t) \/ Dispatch(t)) /\ UNCHANGED <<sockVars, srvVars, appVars>>
  \/ AppBegins
  \/ AppContinues
  \/ KernelSend
  \/ KernelReceive

LEMMA NextIsHandlerOrOther ==
  Next => OtherStep \/ \E t \in IoThreads : HandlerStep(t)
BY DEF Next, ThreadStep, OtherStep

LEMMA OtherStepTyped ==
  ASSUME TypeOK, OtherStep
  PROVE  /\ TypeOK'
         /\ \E x \in Seq(Handler) : ready' = ready \o x
         /\ UNCHANGED <<step, started>>
<1> USE DEF TypeOK, SockTypeOK, execVars, sockVars, srvVars, appVars
<1>0. <<>> \in Seq(Handler) /\ ready \o <<>> = ready
  BY EmptySeq, ConcatEmptySeq
<1>1. ASSUME NEW t \in IoThreads, PopCompletion(t), UNCHANGED <<sockVars, srvVars, appVars>>
      PROVE  TypeOK' /\ ready' = ready /\ UNCHANGED <<step, started>>
  <2>1. Head(queue) \in Handler /\ Tail(queue) \in Seq(Handler)
    BY <1>1, HeadTailProperties DEF PopCompletion
  <2>2. QED
    BY <1>1, <2>1 DEF PopCompletion
<1>2. ASSUME NEW t \in IoThreads, Dispatch(t), UNCHANGED <<sockVars, srvVars, appVars>>
      PROVE  /\ TypeOK' /\ UNCHANGED <<step, started>>
             /\ \E x \in Seq(Handler) : ready' = ready \o x
  <2>1. carried[t] \in Handler
    BY <1>2 DEF Dispatch
  <2>2. ready' \in Seq(Handler) /\ ready' = ready \o <<carried[t]>>
    BY <1>2, <2>1, AppendProperties, AppendIsConcat DEF Dispatch
  <2>3. <<carried[t]>> \in Seq(Handler)
    BY <2>1
  <2>4. TypeOK' /\ UNCHANGED <<step, started>>
    BY <1>2, <2>2 DEF Dispatch
  <2>5. QED
    BY ZenonT(30), <2>2, <2>3, <2>4
<1>3. ASSUME AppBegins \/ AppRestartSpin \/ AppRestartCheck \/ AppMulticastSend
      PROVE  TypeOK' /\ ready' = ready /\ UNCHANGED <<step, started>>
  <2> USE DEF AppAt, Goto
  <2>1. CASE AppStart \/ AppStop \/ AppMulticast
    BY <2>1 DEF AppStart, AppStop, AppMulticast
  <2>2. CASE AppSendAsync
    BY <2>2, SizesAssumption DEF AppSendAsync
  <2>3. CASE AppRestartSpin \/ AppRestartCheck \/ AppMulticastSend
    BY <2>3 DEF AppRestartSpin, AppRestartCheck, AppMulticastSend
  <2>4. QED
    BY <1>3, <2>1, <2>2, <2>3 DEF AppBegins
<1>4. ASSUME AppStartPost \/ AppStopPost
      PROVE  /\ TypeOK' /\ UNCHANGED <<step, started>>
             /\ \E x \in Seq(Handler) : ready' = ready \o x
  <2>1. PICK k \in {"start", "stop"} : Post(ready, <<PostedHandler(k)>>)
    BY <1>4 DEF AppStartPost, AppStopPost
  <2>2. <<PostedHandler(k)>> \in Seq(Handler)
    BY PostedHandlerFacts DEF Kinds
  <2>3. ready' = ready \o <<PostedHandler(k)>> /\ ready' \in Seq(Handler)
    BY <2>1, <2>2, ConcatProperties DEF Post
  <2>4. TypeOK' /\ UNCHANGED <<step, started>>
    BY <1>4, <2>3 DEF AppStartPost, AppStopPost, Goto, AppAt
  <2>5. QED
    BY ZenonT(30), <2>2, <2>3, <2>4
<1>5. ASSUME AppSendAssign \/ AppSendFlag
      PROVE  TypeOK' /\ ready' = ready /\ UNCHANGED <<step, started>>
  BY ZenonT(30), <1>5 DEF AppSendAssign, AppSendFlag, Goto, AppAt
<1>6. ASSUME NEW c \in Handler, Complete(ready, <<c>>)
      PROVE  /\ ready' \in Seq(Handler) /\ queue' \in Seq(Handler)
             /\ \E x \in Seq(Handler) : ready' = ready \o x
  <2>1. <<c>> \in Seq(Handler)
    OBVIOUS
  <2>2. ready' \in Seq(Handler) /\ queue' \in Seq(Handler)
    BY ZenonT(30), <1>6, <2>1, CompleteTyped
  <2>3. ready' = ready \o <<>> \/ ready' = ready \o <<c>>
    BY <1>6, <1>0 DEF Complete
  <2>4. QED
    BY ZenonT(30), <1>0, <2>1, <2>2, <2>3
<1>7. ASSUME AppSendStart
      PROVE  /\ TypeOK' /\ UNCHANGED <<step, started>>
             /\ \E x \in Seq(Handler) : ready' = ready \o x
  <2> DEFINE op == SendOp(sbuf, msg, session)
  <2>1. op \in Handler /\ Finished(op, "error", msg) \in Handler
    BY ZenonT(30), SendOpFacts, FinishedFacts DEF Results
  <2>2. CASE socket = "open"
    <3>1. writeOps' = Append(writeOps, op) /\ UNCHANGED execVars
      BY <1>7, <2>2 DEF AppSendStart
    <3>2. writeOps' \in Seq(Handler)
      BY <2>1, <3>1
    <3>3. QED
      BY ZenonT(30), <1>7, <1>0, <3>1, <3>2 DEF AppSendStart, Goto, AppAt
  <2>3. CASE socket = "closed"
    <3>1. Complete(ready, <<Finished(op, "error", msg)>>)
      BY <1>7, <2>3 DEF AppSendStart
    <3>2. /\ ready' \in Seq(Handler) /\ queue' \in Seq(Handler)
          /\ \E x \in Seq(Handler) : ready' = ready \o x
      BY ZenonT(30), <2>1, <3>1, <1>6
    <3>3. QED
      BY ZenonT(30), <1>7, <2>3, <3>2 DEF AppSendStart, Goto, AppAt
  <2>4. QED
    BY ZenonT(30), <2>2, <2>3
<1>8. ASSUME KernelSend \/ KernelReceive
      PROVE  /\ TypeOK' /\ UNCHANGED <<step, started>>
             /\ \E x \in Seq(Handler) : ready' = ready \o x
  <2>1. ASSUME NEW r \in {"ok", "error"}, KernelSends(r), UNCHANGED <<srvVars, appVars>>
        PROVE  /\ TypeOK' /\ UNCHANGED <<step, started>>
               /\ \E x \in Seq(Handler) : ready' = ready \o x
    <3>1. Head(writeOps) \in Handler /\ Tail(writeOps) \in Seq(Handler)
      BY <2>1, HeadTailProperties DEF KernelSends
    <3>2. Finished(Head(writeOps), r, Head(writeOps).n) \in Handler
      BY ZenonT(30), <3>1, FinishedFacts DEF Results, Handler
    <3>3. /\ ready' \in Seq(Handler) /\ queue' \in Seq(Handler)
          /\ \E x \in Seq(Handler) : ready' = ready \o x
      BY ZenonT(30), <2>1, <3>2, <1>6 DEF KernelSends
    <3>4. QED
      BY ZenonT(30), <2>1, <3>1, <3>3 DEF KernelSends
  <2>2. ASSUME NEW k \in Nat, NEW r \in Results, readOps # <<>>,
               Complete(ready, <<Finished(Head(readOps), r, k)>>), readOps' = Tail(readOps),
               UNCHANGED <<carried, runner, step, alive, socket, writeOps, session>>,
               UNCHANGED <<srvVars, appVars>>
        PROVE  /\ TypeOK' /\ UNCHANGED <<step, started>>
               /\ \E x \in Seq(Handler) : ready' = ready \o x
    <3>1. Head(readOps) \in Handler /\ Tail(readOps) \in Seq(Handler)
      BY <2>2, HeadTailProperties
    <3>2. Finished(Head(readOps), r, k) \in Handler
      BY SMTT(30), <3>1, FinishedFacts
    <3>3. /\ ready' \in Seq(Handler) /\ queue' \in Seq(Handler)
          /\ \E x \in Seq(Handler) : ready' = ready \o x
      BY ZenonT(30), <2>2, <3>2, <1>6
    <3>4. QED
      BY ZenonT(30), <2>2, <3>1, <3>3
  <2>3. ASSUME NEW d \in Datagrams, KernelReceives(d), UNCHANGED <<srvVars, appVars>>
        PROVE  /\ TypeOK' /\ UNCHANGED <<step, started>>
               /\ \E x \in Seq(Handler) : ready' = ready \o x
    <3> DEFINE got == IF d < Head(readOps).buf THEN d ELSE Head(readOps).buf
    <3>1. Head(readOps) \in Handler
      BY <2>3, HeadTailProperties DEF KernelReceives
    <3>2. got \in Nat
      BY <3>1, SizesAssumption DEF Handler
    <3>3. Complete(ready, <<Finished(Head(readOps), "ok", got)>>)
      BY <2>3 DEF KernelReceives
    <3> HIDE DEF got
    <3>4. QED
      BY ZenonT(30), <2>2, <2>3, <3>2, <3>3 DEF KernelReceives, Results
  <2>4. ASSUME KernelFailsReceive, UNCHANGED <<srvVars, appVars>>
        PROVE  /\ TypeOK' /\ UNCHANGED <<step, started>>
               /\ \E x \in Seq(Handler) : ready' = ready \o x
    BY ZenonT(30), <2>2, <2>4 DEF KernelFailsReceive, Results
  <2>5. QED
    BY ZenonT(30), <1>8, <2>1, <2>3, <2>4 DEF KernelSend, KernelReceive
<1>9. QED
  BY ZenonT(30), <1>0, <1>1, <1>2, <1>3, <1>4, <1>5, <1>7, <1>8 DEF OtherStep, AppContinues

LEMMA HeadStep ==
  ASSUME TypeOK, HeadInExecution, [Next]_vars
  PROVE  HeadInExecution'
<1>1. CASE OtherStep
  <2>1. PICK x \in Seq(Handler) : ready' = ready \o x
    BY <1>1, OtherStepTyped
  <2>2. UNCHANGED <<step, started>>
    BY <1>1, OtherStepTyped
  <2>3. ready # <<>> => ready' # <<>> /\ Head(ready') = Head(ready)
    BY <2>1, HeadKept DEF TypeOK, SockTypeOK
  <2>4. QED
    BY <2>2, <2>3 DEF HeadInExecution
<1>2. ASSUME NEW t \in IoThreads, HandlerStep(t)
      PROVE  HeadInExecution'
  <2>1. CASE FinishHandler
    BY <2>1 DEF FinishHandler, LeaveHandler, HeadInExecution
  <2>2. CASE StopHandlerClose(t)
    <3>1. AbortedOps \in Seq(Handler)
      BY AbortAllFacts, ConcatProperties DEF AbortedOps, TypeOK, SockTypeOK
    <3>2. ready' = ready \/ ready' = ready \o AbortedOps
      BY <2>2 DEF StopHandlerClose, Complete
    <3>3. ready' # <<>> /\ Head(ready') = Head(ready)
      BY <2>2, <3>1, <3>2, HeadKept DEF StopHandlerClose, Begins, TypeOK, SockTypeOK
    <3>4. QED
      BY <2>2, <3>3 DEF StopHandlerClose, Begins, EnterStep, HeadInExecution, srvVars
  <2>3. CASE StopHandlerFlag(t)
    BY <2>3 DEF StopHandlerFlag, Continues, EnterStep, HeadInExecution
  <2>4. CASE SendHandlerFlag(t)
    BY <2>4 DEF SendHandlerFlag, Begins, EnterStep, HeadInExecution
  <2>5. QED
    BY ZenonT(30), <1>2, <2>1, <2>2, <2>3, <2>4
       DEF HandlerStep, StartHandlerIgnored, StartHandler, StartHandlerThrows, StopHandlerIgnored,
           StopHandlerClear, ReceiveHandlerStopped, ReceiveHandler, SendHandlerStopped, SendHandlerRest
<1>3. CASE UNCHANGED vars
  BY <1>3 DEF vars, execVars, srvVars, HeadInExecution
<1>4. QED
  BY <1>1, <1>2, <1>3, NextIsHandlerOrOther

LEMMA TypeStep ==
  ASSUME TypeOK, HeadInExecution, [Next]_vars
  PROVE  TypeOK'
<1>1. CASE UNCHANGED vars
  BY <1>1 DEF vars, execVars, sockVars, srvVars, appVars, TypeOK, SockTypeOK
<1>2. QED
  BY <1>1, NextIsHandlerOrOther, TypeHandlerStep, OtherStepTyped

(***************************************************************************)
(* Type correctness: queues hold handlers, the flags are Boolean and the   *)
(* buffer sizes natural numbers, in every mode and for every pattern of    *)
(* calls.                                                                  *)
(***************************************************************************)
THEOREM TypeCorrect == Spec => [](TypeOK /\ HeadInExecution)
<1>1. TypeOK /\ HeadInExecution /\ [Next]_vars => (TypeOK /\ HeadInExecution)'
  BY HeadStep, TypeStep
<1>2. QED
  BY <1>1, TypeInit, PTL DEF Spec
-----------------------------------------------------------------------------
Moved(x) ==
  /\ ready' = ready \o x
  /\ Pending(readOps, "recv") => Pending(readOps, "recv")' \/ InSeq(x, "recv")
  /\ Pending(writeOps, "send") \/ app = "send_start" =>
       Pending(writeOps, "send")' \/ app' = "send_start" \/ InSeq(x, "send")

LEMMA OtherStepMoves ==
  ASSUME TypeOK, OpKinds, OtherStep
  PROVE  /\ \E x \in Seq(Handler) : Moved(x)
         /\ OpKinds'
<1> USE DEF TypeOK, SockTypeOK, execVars, sockVars, srvVars, appVars
<1>0. <<>> \in Seq(Handler) /\ ready \o <<>> = ready
  BY EmptySeq, ConcatEmptySeq
<1>1. ASSUME NEW t \in IoThreads, PopCompletion(t), UNCHANGED <<sockVars, srvVars, appVars>>
      PROVE  Moved(<<>>) /\ OpKinds'
  <2>1. ready' = ready /\ UNCHANGED <<readOps, writeOps, app>>
    BY <1>1 DEF PopCompletion
  <2>2. ASSUME NEW k PROVE InSeq(queue, k) \/ Carries(k) => InSeq(queue', k) \/ Carries(k)'
    BY <1>1, PopKeeps
  <2>3. QED
    BY ZenonT(30), <1>0, <2>1, <2>2 DEF Moved, Pending, OpKinds
<1>2. ASSUME NEW t \in IoThreads, Dispatch(t), UNCHANGED <<sockVars, srvVars, appVars>>
      PROVE  (\E x \in Seq(Handler) : Moved(x)) /\ OpKinds'
  <2>1. PICK c \in Handler : ready' = ready \o <<c>> /\ (c.h = "recv" \/ (Carries("recv") => Carries("recv")'))
    BY ZenonT(30), <1>2, DispatchKeeps
  <2>2. PICK d \in Handler : ready' = ready \o <<d>> /\ (d.h = "send" \/ (Carries("send") => Carries("send")'))
    BY ZenonT(30), <1>2, DispatchKeeps
  <2>3. c = d
    <3>1. /\ (ready \o <<c>>)[Len(ready) + 1] = c
          /\ (ready \o <<d>>)[Len(ready) + 1] = d
      OBVIOUS
    <3>2. QED
      BY <3>1, <2>1, <2>2
  <2>4. InSeq(<<c>>, "recv") <=> c.h = "recv"
    BY InSeqSingle
  <2>5. InSeq(<<c>>, "send") <=> c.h = "send"
    BY InSeqSingle
  <2>6. queue' = queue /\ UNCHANGED <<readOps, writeOps, app>>
    BY <1>2 DEF Dispatch
  <2>7. Moved(<<c>>)
    BY <2>1, <2>2, <2>3, <2>4, <2>5, <2>6 DEF Moved, Pending
  <2>8. <<c>> \in Seq(Handler)
    OBVIOUS
  <2>9. QED
    BY ZenonT(30), <2>6, <2>7, <2>8 DEF OpKinds
<1>3. ASSUME UNCHANGED <<queue, carried, readOps, writeOps>>, app = "send_start" => app' = "send_start"
      PROVE  (\E x \in Seq(Handler) : Moved(x)) /\ OpKinds'
  <2>1. PICK x \in Seq(Handler) : ready' = ready \o x
    BY ZenonT(30), OtherStepTyped
  <2>2. Moved(x) /\ OpKinds'
    BY <1>3, <2>1 DEF Moved, Pending, Carries, OpKinds
  <2>3. QED
    BY <2>2
<1>4. ASSUME AppSendStart
      PROVE  (\E x \in Seq(Handler) : Moved(x)) /\ OpKinds'
  <2> DEFINE op == SendOp(sbuf, msg, session)
             c == Finished(op, "error", msg)
  <2>1. op \in Handler /\ op.h = "send" /\ c \in Handler /\ c.h = "send"
    <3>1. sbuf \in Nat /\ msg \in Nat /\ session \in Nat
      BY DEF TypeOK, SockTypeOK
    <3>2. op \in Handler /\ op.h = "send"
      BY SMTT(60), <3>1, SendOpFacts
    <3> HIDE DEF op
    <3>3. QED
      BY ZenonT(30), <3>1, <3>2, FinishedFacts DEF Results
  <2>2. UNCHANGED <<readOps, carried>>
    BY <1>4 DEF AppSendStart
  <2>3. CASE socket = "open"
    <3>1. writeOps' = Append(writeOps, op) /\ UNCHANGED <<ready, queue>>
      BY <1>4, <2>3 DEF AppSendStart
    <3>2. writeOps' # <<>> /\ \A i \in 1..Len(writeOps') : writeOps'[i].h = "send"
      BY <2>1, <3>1, AppendedKind DEF OpKinds
    <3>3. Moved(<<>>)
      BY <1>0, <2>2, <3>1, <3>2 DEF Moved, Pending, Carries
    <3>4. QED
      BY ZenonT(30), <1>0, <2>2, <3>2, <3>3 DEF OpKinds
  <2>4. CASE socket = "closed"
    <3>1. Complete(ready, <<c>>) /\ UNCHANGED writeOps
      BY <1>4, <2>4 DEF AppSendStart
    <3>2. <<c>> \in Seq(Handler) /\ InSeq(<<c>>, "send")
      BY <2>1, InSeqSingle
    <3>3. /\ InSeq(queue, "recv") => InSeq(queue', "recv")
          /\ InSeq(queue, "send") => InSeq(queue', "send")
      BY ZenonT(30), <3>1, <3>2, CompleteKeeps
    <3>4. PICK x \in Seq(Handler) : ready' = ready \o x /\ (InSeq(queue', "send") \/ InSeq(x, "send"))
      BY ZenonT(30), <3>1, <3>2, CompleteAdds
    <3>5. Moved(x)
      BY <2>2, <3>1, <3>2, <3>3, <3>4 DEF Moved, Pending, Carries
    <3>6. QED
      BY ZenonT(30), <2>2, <3>1, <3>5 DEF OpKinds
  <2>5. QED
    BY <2>3, <2>4
<1>5. ASSUME NEW r \in Results, NEW k \in Nat, writeOps # <<>>,
             Complete(ready, <<Finished(Head(writeOps), r, k)>>), writeOps' = Tail(writeOps),
             UNCHANGED <<carried, readOps, app>>
      PROVE  (\E x \in Seq(Handler) : Moved(x)) /\ OpKinds'
  <2> DEFINE c == Finished(Head(writeOps), r, k)
  <2>1. /\ Head(writeOps) \in Handler /\ Head(writeOps).h = "send"
        /\ \A i \in 1..Len(Tail(writeOps)) : Tail(writeOps)[i].h = "send"
    BY SMTT(30), <1>5, MovedTail DEF OpKinds
  <2>2. c \in Handler /\ c.h = "send"
    BY <2>1, FinishedFacts
  <2>3. <<c>> \in Seq(Handler) /\ InSeq(<<c>>, "send")
    BY <2>2, InSeqSingle
  <2> HIDE DEF c
  <2>4. Complete(ready, <<c>>)
    BY <1>5 DEF c
  <2>5. InSeq(queue, "recv") => InSeq(queue', "recv")
    BY ZenonT(30), <2>3, <2>4, CompleteKeeps
  <2>6. PICK x \in Seq(Handler) : ready' = ready \o x /\ (InSeq(queue', "send") \/ InSeq(x, "send"))
    BY ZenonT(30), <2>3, <2>4, CompleteAdds
  <2>7. Moved(x)
    BY SMTT(30), <1>5, <2>3, <2>5, <2>6 DEF Moved, Pending, Carries
  <2>8. OpKinds'
    BY <1>5, <2>1 DEF OpKinds
  <2>9. QED
    BY <2>6, <2>7, <2>8
<1>6. ASSUME NEW r \in Results, NEW k \in Nat, readOps # <<>>,
             Complete(ready, <<Finished(Head(readOps), r, k)>>), readOps' = Tail(readOps),
             UNCHANGED <<carried, writeOps, app>>
      PROVE  (\E x \in Seq(Handler) : Moved(x)) /\ OpKinds'
  <2> DEFINE c == Finished(Head(readOps), r, k)
  <2>1. /\ Head(readOps) \in Handler /\ Head(readOps).h = "recv"
        /\ \A i \in 1..Len(Tail(readOps)) : Tail(readOps)[i].h = "recv"
    BY <1>6, MovedTail DEF OpKinds
  <2>2. c \in Handler /\ c.h = "recv"
    BY ZenonT(30), <2>1, FinishedFacts
  <2>3. <<c>> \in Seq(Handler) /\ InSeq(<<c>>, "recv")
    BY <2>2, InSeqSingle
  <2> HIDE DEF c
  <2>4. Complete(ready, <<c>>)
    BY <1>6 DEF c
  <2>5. InSeq(queue, "send") => InSeq(queue', "send")
    BY ZenonT(30), <2>3, <2>4, CompleteKeeps
  <2>6. PICK x \in Seq(Handler) : ready' = ready \o x /\ (InSeq(queue', "recv") \/ InSeq(x, "recv"))
    BY ZenonT(30), <2>3, <2>4, CompleteAdds
  <2>7. Moved(x)
    BY <1>6, <2>3, <2>5, <2>6 DEF Moved, Pending, Carries
  <2>8. OpKinds'
    BY <1>6, <2>1 DEF OpKinds
  <2>9. QED
    BY <2>6, <2>7, <2>8
<1>7. CASE KernelSend
  <2>1. PICK r \in {"ok", "error"} : KernelSends(r)
    BY <1>7 DEF KernelSend
  <2>2. Head(writeOps).n \in Nat /\ r \in Results
    <3>1. Head(writeOps) \in Handler
      BY <2>1, HeadTailProperties DEF KernelSends
    <3>2. QED
      BY <3>1 DEF Handler, Results
  <2>3. UNCHANGED app
    BY <1>7 DEF KernelSend
  <2>4. QED
    BY <1>5, <2>1, <2>2, <2>3 DEF KernelSends
<1>8. CASE KernelReceive
  <2>1. UNCHANGED app
    BY <1>8 DEF KernelReceive
  <2>2. CASE KernelFailsReceive
    BY <1>6, <2>1, <2>2 DEF KernelFailsReceive, Results
  <2>3. ASSUME NEW d \in Datagrams, KernelReceives(d)
        PROVE  (\E x \in Seq(Handler) : Moved(x)) /\ OpKinds'
    <3> DEFINE got == IF d < Head(readOps).buf THEN d ELSE Head(readOps).buf
    <3>1. Head(readOps) \in Handler
      BY <2>3, HeadTailProperties DEF KernelReceives
    <3>2. got \in Nat
      BY <3>1, SizesAssumption DEF Handler
    <3>3. Complete(ready, <<Finished(Head(readOps), "ok", got)>>)
      BY <2>3 DEF KernelReceives
    <3> HIDE DEF got
    <3>4. QED
      BY <1>6, <2>1, <2>3, <3>2, <3>3 DEF KernelReceives, Results
  <2>4. QED
    BY <1>8, <2>2, <2>3 DEF KernelReceive
<1>9. CASE AppBegins
  BY <1>3, <1>9 DEF AppBegins, AppStart, AppStop, AppMulticast, AppSendAsync, Goto
<1>10. CASE AppStartPost \/ AppStopPost \/ AppRestartSpin \/ AppRestartCheck
            \/ AppMulticastSend \/ AppSendAssign \/ AppSendFlag
  BY SMTT(30), <1>3, <1>10 DEF AppStartPost, AppStopPost, AppRestartSpin, AppRestartCheck,
                     AppMulticastSend, AppSendAssign, AppSendFlag, Goto
<1>11. QED
  BY ZenonT(30), <1>0, <1>1, <1>2, <1>4, <1>7, <1>8, <1>9, <1>10 DEF OtherStep, AppContinues

LEMMA CallbackFlags ==
  ASSUME TypeOK, OpKinds, NEW rcv \in BOOLEAN, NEW cap \in Nat, NEW snd \in BOOLEAN,
         NEW sb \in Nat, NEW s \in Nat, Callback(rcv, cap, snd, sb, s)
  PROVE  /\ OpKinds'
         /\ readOps # <<>> => readOps' # <<>>
         /\ receiving' => rcv \/ readOps' # <<>>
         /\ writeOps # <<>> => writeOps' # <<>>
         /\ sending' => snd \/ writeOps' # <<>>
<1> PICK wanted \in BOOLEAN, m \in CallbackSends :
      TryReceive(wanted, rcv, cap, s) /\ SendAsync(m, snd, sb, s)
  BY DEF Callback
<1>1. m \in Nat
  BY SizesAssumption DEF CallbackSends
<1>2. /\ RecvOp(cap, s) \in Handler /\ RecvOp(cap, s).h = "recv"
      /\ SendOp(m, m, s) \in Handler /\ SendOp(m, m, s).h = "send"
  BY SMTT(30), <1>1, RecvOpFacts, SendOpFacts
<1>3. /\ Append(readOps, RecvOp(cap, s)) # <<>>
      /\ \A i \in 1..Len(Append(readOps, RecvOp(cap, s))) : Append(readOps, RecvOp(cap, s))[i].h = "recv"
  BY ZenonT(30), <1>2, AppendedKind DEF OpKinds, TypeOK, SockTypeOK
<1>4. /\ Append(writeOps, SendOp(m, m, s)) # <<>>
      /\ \A i \in 1..Len(Append(writeOps, SendOp(m, m, s))) : Append(writeOps, SendOp(m, m, s))[i].h = "send"
  BY ZenonT(30), <1>2, AppendedKind DEF OpKinds, TypeOK, SockTypeOK
<1>5. /\ \A i \in 1..Len(readOps') : readOps'[i].h = "recv"
      /\ readOps # <<>> => readOps' # <<>>
      /\ receiving' => rcv \/ readOps' # <<>>
  BY <1>3 DEF TryReceive, OpKinds
<1>6. /\ \A i \in 1..Len(writeOps') : writeOps'[i].h = "send"
      /\ writeOps # <<>> => writeOps' # <<>>
      /\ sending' => snd \/ writeOps' # <<>>
  <2>1. CASE ~snd /\ Accepted(m)
    <3>1. writeOps' = Append(writeOps, SendOp(m, m, s))
      BY ZenonT(30), <2>1 DEF SendAsync
    <3>2. QED
      BY <3>1, <1>4
  <2>2. CASE ~(~snd /\ Accepted(m))
    <3>1. sending' = snd /\ writeOps' = writeOps
      BY ZenonT(30), <2>2 DEF SendAsync
    <3>2. QED
      BY <3>1 DEF OpKinds
  <2>3. QED
    BY <2>1, <2>2
<1>7. QED
  BY <1>5, <1>6 DEF OpKinds

(***************************************************************************)
(* The two flags in terms of Pending, now and after a step.                *)
(***************************************************************************)
LEMMA FlagForms ==
  /\ NotDeaf <=> (receiving => Pending(readOps, "recv") \/ InSeq(ready, "recv"))
  /\ NotDeaf' <=> (receiving' => Pending(readOps, "recv")' \/ InSeq(ready', "recv"))
  /\ SendBacked <=> (sending => \/ Pending(writeOps, "send") \/ app = "send_start"
                                \/ InSeq(IF step = "sent" THEN Tail(ready) ELSE ready, "send"))
  /\ SendBacked' <=> (sending' => \/ Pending(writeOps, "send")' \/ app' = "send_start"
                                  \/ InSeq(IF step' = "sent" THEN Tail(ready') ELSE ready', "send"))
BY ZenonT(30) DEF NotDeaf, SendBacked, CompletionOf, Pending, Carries, InSeq

(***************************************************************************)
(* A finished handler takes only itself away.                              *)
(***************************************************************************)
LEMMA FinishKeeps ==
  ASSUME TypeOK, HeadInExecution, FinishHandler, ready # <<>>, UNCHANGED <<queue, carried, app>>
  PROVE  /\ InSeq(ready', "recv") <=> InSeq(Tail(ready), "recv")
         /\ InSeq(ready, "recv") => Head(ready).h = "recv" \/ InSeq(ready', "recv")
         /\ InSeq(IF step = "sent" THEN Tail(ready) ELSE ready, "send") =>
              (step # "sent" /\ Head(ready).h = "send") \/ InSeq(ready', "send")
         /\ step' = "begin"
         /\ readOps # <<>> \/ ~Pending(readOps, "recv") \/ Pending(readOps, "recv")'
         /\ writeOps # <<>> \/ ~Pending(writeOps, "send") \/ Pending(writeOps, "send")'
<1>1. ready' = Tail(ready) /\ step' = "begin"
  BY FinishHandlerFacts DEF TypeOK
<1>2. /\ InSeq(ready, "recv") <=> Head(ready).h = "recv" \/ InSeq(Tail(ready), "recv")
      /\ InSeq(ready, "send") <=> Head(ready).h = "send" \/ InSeq(Tail(ready), "send")
  BY InSeqTail DEF TypeOK, SockTypeOK
<1>3. QED
  BY <1>1, <1>2 DEF Pending, Carries

FlagInv == OpKinds /\ NotDeaf /\ SendBacked

LEMMA FlagHandlerStep ==
  ASSUME TypeOK, HeadInExecution, FlagInv, NEW t \in IoThreads, HandlerStep(t)
  PROVE  FlagInv'
<1> USE DEF FlagInv, execVars, sockVars, srvVars, appVars
<1>1. ASSUME FinishHandler, ready # <<>>, UNCHANGED <<queue, carried, app, readOps, writeOps>>,
             receiving' => receiving /\ Head(ready).h # "recv",
             sending' => sending /\ (step = "sent" \/ Head(ready).h # "send")
      PROVE  FlagInv'
  <2>1. OpKinds'
    BY <1>1 DEF OpKinds
  <2>2. /\ Pending(readOps, "recv") => Pending(readOps, "recv")'
        /\ Pending(writeOps, "send") => Pending(writeOps, "send")'
    BY <1>1 DEF Pending, Carries
  <2>3. NotDeaf'
    BY <1>1, <2>2, FinishKeeps, FlagForms
  <2>4. step' = "begin"
    BY <1>1, FinishHandlerFacts DEF TypeOK
  <2>5. SendBacked'
    BY <1>1, <2>2, <2>4, FinishKeeps, FlagForms
  <2>6. QED
    BY <2>1, <2>3, <2>5
<1>2. ASSUME NEW rcv \in BOOLEAN, NEW cap \in Nat, NEW snd \in BOOLEAN, NEW sb \in Nat,
             NEW s \in Nat, Callback(rcv, cap, snd, sb, s),
             FinishHandler, ready # <<>>, UNCHANGED <<queue, carried, app>>,
             rcv => receiving /\ Head(ready).h # "recv",
             snd => sending /\ (step = "sent" \/ Head(ready).h # "send")
      PROVE  FlagInv'
  <2>1. /\ OpKinds'
        /\ readOps # <<>> => readOps' # <<>>
        /\ receiving' => rcv \/ readOps' # <<>>
        /\ writeOps # <<>> => writeOps' # <<>>
        /\ sending' => snd \/ writeOps' # <<>>
    BY SMTT(30), <1>2, CallbackFlags
  <2>2. /\ Pending(readOps, "recv") => Pending(readOps, "recv")'
        /\ Pending(writeOps, "send") => Pending(writeOps, "send")'
        /\ readOps' # <<>> => Pending(readOps, "recv")'
        /\ writeOps' # <<>> => Pending(writeOps, "send")'
    BY ZenonT(30), <1>2, <2>1 DEF Pending, Carries
  <2>3. NotDeaf'
    BY <1>2, <2>1, <2>2, FinishKeeps, FlagForms
  <2>4. step' = "begin"
    BY <1>2, FinishHandlerFacts DEF TypeOK
  <2>5. SendBacked'
    BY <1>2, <2>1, <2>2, <2>4, FinishKeeps, FlagForms
  <2>6. QED
    BY <2>1, <2>3, <2>5
<1>3. CASE StartHandlerIgnored(t) \/ StartHandlerThrows(t) \/ StopHandlerIgnored(t)
  BY <1>1, <1>3 DEF StartHandlerIgnored, StartHandlerThrows, StopHandlerIgnored, Begins
<1>4. CASE StartHandler(t)
  <2>1. SockBuf \in Nat /\ session + 1 \in Nat
    BY SizesAssumption DEF TypeOK, SockTypeOK
  <2>2. /\ Callback(receiving, SockBuf, sending, sbuf, session + 1)
        /\ FinishHandler /\ ready # <<>> /\ UNCHANGED <<queue, carried, app>> /\ Head(ready).h = "start"
    BY <1>4 DEF StartHandler, Begins
  <2>3. receiving \in BOOLEAN /\ sending \in BOOLEAN /\ sbuf \in Nat
    BY DEF TypeOK
  <2>4. QED
    BY <1>2, <2>1, <2>2, <2>3
<1>5. CASE StopHandlerClose(t)
  <2>1. /\ AbortAll(readOps) \in Seq(Handler) /\ AbortAll(writeOps) \in Seq(Handler)
        /\ AbortedOps \in Seq(Handler)
    BY AbortAllFacts, ConcatProperties DEF AbortedOps, TypeOK, SockTypeOK
  <2>2. /\ readOps # <<>> => InSeq(AbortedOps, "recv")
        /\ writeOps # <<>> => InSeq(AbortedOps, "send")
    <3>1. /\ readOps # <<>> => InSeq(readOps, "recv")
          /\ writeOps # <<>> => InSeq(writeOps, "send")
      BY InSeqNonEmpty DEF OpKinds, TypeOK, SockTypeOK
    <3>2. /\ readOps # <<>> => InSeq(AbortAll(readOps), "recv")
          /\ writeOps # <<>> => InSeq(AbortAll(writeOps), "send")
      BY <3>1, InSeqAbort DEF TypeOK, SockTypeOK
    <3>3. QED
      BY <2>1, <3>2, InSeqConcat DEF AbortedOps
  <2>3. /\ Complete(ready, AbortedOps) /\ SockTypeOK
        /\ UNCHANGED <<carried, app, receiving, sending>>
        /\ step = "begin" /\ step' = "stop_flag"
        /\ readOps' = <<>> /\ writeOps' = <<>>
    BY <1>5 DEF StopHandlerClose, Begins, EnterStep, TypeOK
  <2>4. ASSUME NEW k PROVE /\ InSeq(queue, k) => InSeq(queue', k)
                           /\ InSeq(ready, k) => InSeq(ready', k)
                           /\ InSeq(AbortedOps, k) => InSeq(queue', k) \/ InSeq(ready', k)
    <3>1. /\ InSeq(queue \o AbortedOps, k) <=> InSeq(queue, k) \/ InSeq(AbortedOps, k)
          /\ InSeq(ready \o AbortedOps, k) <=> InSeq(ready, k) \/ InSeq(AbortedOps, k)
      BY <2>1, InSeqConcat DEF TypeOK, SockTypeOK
    <3>2. QED
      BY <2>3, <3>1 DEF Complete
  <2>5. OpKinds'
    BY <2>3 DEF OpKinds
  <2>6. /\ Pending(readOps, "recv") => Pending(readOps, "recv")' \/ InSeq(ready', "recv")
        /\ Pending(writeOps, "send") => Pending(writeOps, "send")' \/ InSeq(ready', "send")
    BY <2>2, <2>3, <2>4 DEF Pending, Carries
  <2>7. NotDeaf'
    BY <2>3, <2>4, <2>6, FlagForms
  <2>8. SendBacked'
    BY SMTT(30), <2>3, <2>4, <2>6, FlagForms
  <2>9. QED
    BY <2>5, <2>7, <2>8
<1>6. CASE StopHandlerFlag(t)
  <2>1. /\ UNCHANGED <<ready, queue, carried, readOps, writeOps, receiving, sending, app>>
        /\ step = "stop_flag" /\ step' = "stop_clear"
    BY SMTT(30), <1>6 DEF StopHandlerFlag, Continues, EnterStep
  <2>2. Pending(readOps, "recv")' = Pending(readOps, "recv") /\ Pending(writeOps, "send")' = Pending(writeOps, "send")
    BY <2>1 DEF Pending, Carries
  <2>3. QED
    BY <2>1, <2>2, FlagForms DEF OpKinds
<1>7. CASE StopHandlerClear(t)
  BY <1>1, <1>7 DEF StopHandlerClear, Continues, HeadInExecution
<1>8. CASE ReceiveHandlerStopped(t)
  BY <1>1, <1>8 DEF ReceiveHandlerStopped, Begins
<1>9. CASE ReceiveHandler(t)
  <2>1. /\ Callback(FALSE, rbuf, sending, sbuf, session)
        /\ FinishHandler /\ ready # <<>> /\ UNCHANGED <<queue, carried, app>> /\ Head(ready).h = "recv"
    BY ZenonT(30), <1>9 DEF ReceiveHandler, Begins
  <2>2. sending \in BOOLEAN /\ sbuf \in Nat /\ rbuf \in Nat /\ session \in Nat
    BY DEF TypeOK, SockTypeOK
  <2>3. QED
    BY ZenonT(30), <1>2, <2>1, <2>2
<1>10. CASE SendHandlerFlag(t)
  <2>1. /\ UNCHANGED <<ready, queue, carried, readOps, writeOps, receiving, app>>
        /\ sending' = FALSE
    BY <1>10 DEF SendHandlerFlag
  <2>2. Pending(readOps, "recv")' = Pending(readOps, "recv")
    BY <2>1 DEF Pending, Carries
  <2>3. QED
    BY <2>1, <2>2, FlagForms DEF OpKinds
<1>11. CASE SendHandlerStopped(t)
  BY <1>1, <1>11 DEF SendHandlerStopped, Continues, HeadInExecution
<1>12. CASE SendHandlerRest(t)
  <2> DEFINE sb == IF SentSomething(Head(ready)) THEN 0 ELSE sbuf
  <2>1. /\ FinishHandler /\ ready # <<>> /\ UNCHANGED <<queue, carried, app>>
        /\ Head(ready).h = "send" /\ step = "sent"
    BY <1>12 DEF SendHandlerRest, Continues, HeadInExecution
  <2>2. /\ receiving \in BOOLEAN /\ sending \in BOOLEAN /\ sb \in Nat
        /\ rbuf \in Nat /\ session \in Nat
    BY DEF TypeOK, SockTypeOK
  <2>3. \/ UNCHANGED <<receiving, readOps, sending, writeOps>>
        \/ Callback(receiving, rbuf, sending, sb, session)
    BY <1>12 DEF SendHandlerRest
  <2> HIDE DEF sb
  <2>4. QED
    BY <1>1, <1>2, <2>1, <2>2, <2>3
<1>13. QED
  BY <1>3, <1>4, <1>5, <1>6, <1>7, <1>8, <1>9, <1>10, <1>11, <1>12 DEF HandlerStep

LEMMA FlagStep ==
  ASSUME TypeOK, HeadInExecution, FlagInv, [Next]_vars
  PROVE  FlagInv'
<1>1. CASE OtherStep
  <2>1. PICK x \in Seq(Handler) : Moved(x)
    BY <1>1, OtherStepMoves DEF FlagInv
  <2>2. OpKinds'
    BY <1>1, OtherStepMoves DEF FlagInv
  <2>3. UNCHANGED step
    BY <1>1, OtherStepTyped
  <2>4. UNCHANGED receiving /\ (sending' => sending \/ app' = "send_start")
    <3>1. CASE AppSendFlag
      BY <3>1 DEF AppSendFlag, Goto
    <3>2. CASE \/ \E t \in IoThreads : (PopCompletion(t) \/ Dispatch(t)) /\ UNCHANGED <<sockVars, srvVars, appVars>>
               \/ KernelSend
               \/ KernelReceive
      BY <3>2 DEF KernelSend, KernelReceive, srvVars
    <3>3. CASE AppBegins
      BY <3>3 DEF AppBegins, AppStart, AppStop, AppMulticast, AppSendAsync, srvVars
    <3>4. CASE AppStartPost \/ AppStopPost \/ AppRestartSpin \/ AppRestartCheck
      BY <3>4 DEF AppStartPost, AppStopPost, AppRestartSpin, AppRestartCheck, srvVars
    <3>5. CASE AppMulticastSend \/ AppSendAssign \/ AppSendStart
      BY <3>5 DEF AppMulticastSend, AppSendAssign, AppSendStart, srvVars
    <3>6. QED
      BY <1>1, <3>1, <3>2, <3>3, <3>4, <3>5 DEF OtherStep, AppContinues
  <2>5. /\ InSeq(ready', "recv") <=> InSeq(ready, "recv") \/ InSeq(x, "recv")
        /\ InSeq(ready', "send") <=> InSeq(ready, "send") \/ InSeq(x, "send")
    BY <2>1, InSeqConcat DEF Moved, TypeOK, SockTypeOK
  <2>6. step = "sent" =>
          (InSeq(Tail(ready'), "send") <=> InSeq(Tail(ready), "send") \/ InSeq(x, "send"))
    <3> SUFFICES ASSUME step = "sent"
                 PROVE  InSeq(Tail(ready'), "send") <=> InSeq(Tail(ready), "send") \/ InSeq(x, "send")
      OBVIOUS
    <3>1. ready # <<>> /\ ready \in Seq(Handler)
      BY DEF HeadInExecution, TypeOK, SockTypeOK
    <3>2. Tail(ready) \in Seq(Handler) /\ Tail(ready \o x) = Tail(ready) \o x
      BY <3>1, TailTyped, TailConcat
    <3>3. ready' = ready \o x
      BY <2>1 DEF Moved
    <3>4. InSeq(Tail(ready) \o x, "send") <=> InSeq(Tail(ready), "send") \/ InSeq(x, "send")
      BY ZenonT(30), <3>2, InSeqConcat
    <3>5. QED
      BY ZenonT(30), <3>2, <3>3, <3>4
  <2>7. NotDeaf'
    BY <2>1, <2>4, <2>5, FlagForms DEF Moved, FlagInv
  <2>8. SendBacked'
    BY <2>1, <2>3, <2>4, <2>5, <2>6, FlagForms DEF Moved, FlagInv
  <2>9. QED
    BY <2>2, <2>7, <2>8 DEF FlagInv
<1>2. CASE UNCHANGED vars
  <2>1. /\ UNCHANGED <<ready, queue, carried, step, readOps, writeOps>>
        /\ UNCHANGED <<receiving, sending, app>>
    BY <1>2 DEF vars, execVars, sockVars, srvVars, appVars
  <2>2. /\ Pending(readOps, "recv")' = Pending(readOps, "recv")
        /\ Pending(writeOps, "send")' = Pending(writeOps, "send")
    BY <2>1 DEF Pending, Carries
  <2>3. QED
    BY <2>1, <2>2, FlagForms DEF FlagInv, OpKinds
<1>3. QED
  BY <1>1, <1>2, FlagHandlerStep, NextIsHandlerOrOther

(***************************************************************************)
(* In either mode and for every pattern of calls: the reactor's queues     *)
(* hold operations of their kind, and _receiving and _sending are backed   *)
(* by operations.                                                          *)
(***************************************************************************)
THEOREM FlagInvariant == Spec => []FlagInv
<1>1. Init => FlagInv
  BY DEF Init, ExecInit, SockInit, FlagInv, OpKinds, NotDeaf, SendBacked
<1>2. TypeOK /\ HeadInExecution /\ FlagInv /\ [Next]_vars => FlagInv'
  BY FlagStep
<1>3. QED
  BY <1>1, <1>2, TypeCorrect, PTL DEF Spec

(***************************************************************************)
(* The server never goes deaf: _receiving is set only while a receive is   *)
(* pending or its completion is still to run.                              *)
(***************************************************************************)
THEOREM ServerNotDeaf == Spec => []NotDeaf
<1>1. FlagInv => NotDeaf
  BY DEF FlagInv
<1>2. QED
  BY <1>1, FlagInvariant, PTL

(***************************************************************************)
(* ... nor mute: _sending is set only while a send is pending, about to be *)
(* started, or its completion is still to run.                             *)
(***************************************************************************)
THEOREM ServerNotMute == Spec => []NotMute
<1>1. TypeOK /\ HeadInExecution /\ FlagInv => NotMute
  <2> SUFFICES ASSUME TypeOK, HeadInExecution, FlagInv PROVE NotMute
    OBVIOUS
  <2>1. step = "sent" => (InSeq(Tail(ready), "send") => InSeq(ready, "send"))
    BY InSeqTail DEF HeadInExecution, TypeOK, SockTypeOK
  <2>2. QED
    BY <2>1 DEF FlagInv, SendBacked, NotMute, CompletionOf
<1>2. QED
  BY <1>1, TypeCorrect, FlagInvariant, PTL
-----------------------------------------------------------------------------
(***************************************************************************)
(* The order of handlers in a sequence, when it loses its head and when it *)
(* grows at its tail.                                                      *)
(***************************************************************************)
LEMMA SeqParts ==
  ASSUME NEW s \in Seq(Handler), NEW x \in Seq(Handler)
  PROVE  /\ Len(s) \in Nat /\ Len(x) \in Nat /\ Len(s \o x) = Len(s) + Len(x)
         /\ \A i \in 1..Len(s \o x) : \/ i \in 1..Len(s) /\ (s \o x)[i] = s[i]
                                     \/ /\ i > Len(s) /\ i - Len(s) \in 1..Len(x)
                                        /\ (s \o x)[i] = x[i - Len(s)]
<1>1. /\ Len(s) \in Nat /\ Len(x) \in Nat /\ Len(s \o x) = Len(s) + Len(x)
      /\ \A i \in 1..Len(s) + Len(x) : (s \o x)[i] = IF i <= Len(s) THEN s[i] ELSE x[i - Len(s)]
  BY ConcatProperties, LenProperties
<1>2. QED
  BY <1>1

LEMMA TailParts ==
  ASSUME NEW s \in Seq(Handler), s # <<>>
  PROVE  /\ Len(s) \in Nat /\ Len(Tail(s)) = Len(s) - 1 /\ 1 \in 1..Len(s) /\ Head(s) = s[1]
         /\ \A i \in 1..Len(Tail(s)) : i + 1 \in 1..Len(s) /\ Tail(s)[i] = s[i + 1]
<1>1. /\ Len(s) \in Nat \ {0} /\ Head(s) = s[1] /\ Len(Tail(s)) = Len(s) - 1
      /\ \A i \in 1..Len(Tail(s)) : Tail(s)[i] = s[i + 1]
  BY HeadTailProperties, EmptySeq
<1>2. QED
  BY <1>1

LEMMA TailOrder ==
  ASSUME NEW s \in Seq(Handler), s # <<>>, NEW k, NEW l, NEW n
  PROVE  /\ Precedes(s, k, l) => Precedes(Tail(s), k, l)
         /\ Precedes(s, k, l) /\ Head(s).h = l => ~InSeq(s, k)
         /\ AtMostOne(s, k) => AtMostOne(Tail(s), k)
         /\ AtMostOne(s, k) /\ Head(s).h = k => ~InSeq(Tail(s), k)
         /\ OfSession(s, n) => OfSession(Tail(s), n)
<1>1. /\ Len(s) \in Nat /\ Len(Tail(s)) = Len(s) - 1 /\ 1 \in 1..Len(s) /\ Head(s) = s[1]
      /\ \A i \in 1..Len(Tail(s)) : i + 1 \in 1..Len(s) /\ Tail(s)[i] = s[i + 1]
  BY TailParts
<1>2. Precedes(s, k, l) => Precedes(Tail(s), k, l)
  BY <1>1 DEF Precedes
<1>3. Precedes(s, k, l) /\ Head(s).h = l => ~InSeq(s, k)
  BY <1>1 DEF Precedes, InSeq
<1>4. AtMostOne(s, k) => AtMostOne(Tail(s), k)
  BY <1>1 DEF AtMostOne
<1>5. AtMostOne(s, k) /\ Head(s).h = k => ~InSeq(Tail(s), k)
  BY <1>1 DEF AtMostOne, InSeq
<1>6. OfSession(s, n) => OfSession(Tail(s), n)
  BY <1>1 DEF OfSession
<1>7. QED
  BY <1>2, <1>3, <1>4, <1>5, <1>6

LEMMA ConcatOrder ==
  ASSUME NEW s \in Seq(Handler), NEW x \in Seq(Handler), NEW k, NEW l, NEW n
  PROVE  /\ Precedes(s, k, l) /\ ~InSeq(x, k) => Precedes(s \o x, k, l)
         /\ AtMostOne(s, k) /\ ~InSeq(x, k) => AtMostOne(s \o x, k)
         /\ ~InSeq(s, k) /\ AtMostOne(x, k) => AtMostOne(s \o x, k)
         /\ OfSession(s, n) /\ OfSession(x, n) => OfSession(s \o x, n)
<1>1. /\ Len(s) \in Nat /\ Len(x) \in Nat /\ Len(s \o x) = Len(s) + Len(x)
      /\ \A i \in 1..Len(s \o x) : \/ i \in 1..Len(s) /\ (s \o x)[i] = s[i]
                                  \/ /\ i > Len(s) /\ i - Len(s) \in 1..Len(x)
                                     /\ (s \o x)[i] = x[i - Len(s)]
  BY SMTT(30), SeqParts
<1>2. ASSUME Precedes(s, k, l), ~InSeq(x, k) PROVE Precedes(s \o x, k, l)
  <2> SUFFICES ASSUME NEW i \in 1..Len(s \o x), NEW j \in 1..Len(s \o x),
                      (s \o x)[i].h = k, (s \o x)[j].h = l
               PROVE  i < j
    BY DEF Precedes
  <2>1. i \in 1..Len(s) /\ s[i].h = k
    BY <1>1, <1>2 DEF InSeq
  <2>2. CASE j \in 1..Len(s) /\ s[j].h = l
    BY <1>2, <2>1, <2>2 DEF Precedes
  <2>3. CASE j > Len(s)
    BY <1>1, <2>1, <2>3
  <2>4. QED
    BY <1>1, <2>2, <2>3
<1>3. AtMostOne(s, k) /\ ~InSeq(x, k) => AtMostOne(s \o x, k)
  BY <1>1 DEF AtMostOne, InSeq
<1>4. ~InSeq(s, k) /\ AtMostOne(x, k) => AtMostOne(s \o x, k)
  BY SMTT(30), <1>1 DEF AtMostOne, InSeq
<1>5. OfSession(s, n) /\ OfSession(x, n) => OfSession(s \o x, n)
  BY <1>1 DEF OfSession
<1>6. QED
  BY SMTT(30), <1>2, <1>3, <1>4, <1>5

-----------------------------------------------------------------------------
(***************************************************************************)
(* An application that restarts and never stops: only AppStopPost adds a   *)
(* stop handler.                                                           *)
(***************************************************************************)
NoStopWaits == ~InSeq(queue, "stop") /\ \A t \in IoThreads : carried[t] = NoHandler \/ carried[t].h # "stop"

StopFree(x) == x \in Seq(Handler) /\ ready' = ready \o x /\ ~InSeq(x, "stop") /\ NoStopWaits'

LEMMA CompletedStopFree ==
  ASSUME TypeOK, NoStopWaits, NEW cs \in Seq(Handler), ~InSeq(cs, "stop"), Complete(ready, cs), UNCHANGED carried
  PROVE  \E x : StopFree(x)
<1> USE DEF TypeOK, SockTypeOK
<1>1. <<>> \in Seq(Handler) /\ ready \o <<>> = ready /\ ~InSeq(<<>>, "stop")
  BY SMTT(30), ConcatEmptySeq, InSeqEmpty
<1>2. InSeq(queue \o cs, "stop") <=> InSeq(queue, "stop") \/ InSeq(cs, "stop")
  BY SMTT(30), InSeqConcat
<1>3. NoStopWaits'
  BY <1>2 DEF NoStopWaits, Complete
<1>4. CASE ready' = ready
  BY ZenonT(30), <1>1, <1>3, <1>4 DEF StopFree
<1>5. CASE ready' = ready \o cs
  BY ZenonT(30), <1>3, <1>5 DEF StopFree
<1>6. QED
  BY <1>4, <1>5 DEF Complete

(***************************************************************************)
(* The first pending operation of each queue is of the queue's kind.       *)
(***************************************************************************)
LEMMA HeadOps ==
  ASSUME TypeOK, OpKinds
  PROVE  /\ readOps # <<>> => Head(readOps) \in Handler /\ Head(readOps).h = "recv"
         /\ writeOps # <<>> => Head(writeOps) \in Handler /\ Head(writeOps).h = "send"
  BY MovedTail DEF OpKinds, TypeOK, SockTypeOK

LEMMA OtherStepStopFree ==
  ASSUME TypeOK, OpKinds, NoStopWaits, OtherStep, ~AppStopPost
  PROVE  \E x : StopFree(x)
<1> USE DEF TypeOK, SockTypeOK, execVars, sockVars, srvVars, appVars
<1>1. <<>> \in Seq(Handler) /\ ready \o <<>> = ready /\ ~InSeq(<<>>, "stop")
  BY SMTT(30), ConcatEmptySeq, InSeqEmpty
<1>2. ASSUME UNCHANGED <<ready, queue, carried>> PROVE \E x : StopFree(x)
  BY ZenonT(30), <1>1, <1>2 DEF StopFree, NoStopWaits
<1>3. ASSUME NEW t \in IoThreads, PopCompletion(t) PROVE \E x : StopFree(x)
  <2>1. /\ queue # <<>> /\ queue' = Tail(queue) /\ ready' = ready
        /\ carried' = [carried EXCEPT ![t] = Head(queue)]
    BY <1>3 DEF PopCompletion
  <2>2. Head(queue).h # "stop" /\ ~InSeq(Tail(queue), "stop")
    BY SMTT(30), <2>1, InSeqTail DEF NoStopWaits
  <2>3. NoStopWaits'
    BY <2>1, <2>2 DEF NoStopWaits
  <2>4. QED
    BY ZenonT(30), <1>1, <2>1, <2>3 DEF StopFree
<1>4. ASSUME NEW t \in IoThreads, Dispatch(t) PROVE \E x : StopFree(x)
  <2>1. /\ carried[t] \in Handler /\ carried[t].h # "stop" /\ ready' = Append(ready, carried[t])
        /\ carried' = [carried EXCEPT ![t] = NoHandler] /\ queue' = queue
    BY <1>4 DEF Dispatch, NoStopWaits
  <2>2. /\ <<carried[t]>> \in Seq(Handler) /\ ~InSeq(<<carried[t]>>, "stop")
        /\ ready' = ready \o <<carried[t]>>
    BY SMTT(30), <2>1, InSeqSingle, AppendIsConcat
  <2>3. NoStopWaits'
    BY SMTT(30), <2>1 DEF NoStopWaits
  <2>4. QED
    BY ZenonT(30), <2>2, <2>3 DEF StopFree
<1>5. ASSUME NEW c \in Handler, c.h # "stop", Complete(ready, <<c>>), UNCHANGED carried
      PROVE  \E x : StopFree(x)
  <2>1. <<c>> \in Seq(Handler) /\ ~InSeq(<<c>>, "stop")
    BY <1>5, InSeqSingle
  <2>2. QED
    BY ZenonT(30), <1>5, <2>1, CompletedStopFree
<1>6. CASE AppStartPost
  <2>1. PostedHandler("start") \in Handler /\ PostedHandler("start").h = "start"
    BY PostedHandlerFacts DEF Kinds
  <2>2. ready' = ready \o <<PostedHandler("start")>> /\ UNCHANGED <<queue, carried>>
    BY <1>6 DEF AppStartPost, Post
  <2>3. <<PostedHandler("start")>> \in Seq(Handler) /\ ~InSeq(<<PostedHandler("start")>>, "stop")
    BY <2>1, InSeqSingle
  <2>4. QED
    BY ZenonT(30), <2>2, <2>3 DEF StopFree, NoStopWaits
<1>7. CASE AppSendStart
  <2> DEFINE op == SendOp(sbuf, msg, session)
             c == Finished(op, "error", msg)
  <2>1. c \in Handler /\ c.h = "send"
    <3>1. sbuf \in Nat /\ msg \in Nat /\ session \in Nat
      OBVIOUS
    <3>2. op \in Handler /\ op.h = "send"
      BY SMTT(60), <3>1, SendOpFacts
    <3> HIDE DEF op
    <3>3. "error" \in Results
      BY DEF Results
    <3>4. QED
      BY ZenonT(30), <3>1, <3>2, <3>3, FinishedFacts
  <2>2. UNCHANGED <<ready, queue, carried>> \/ (Complete(ready, <<c>>) /\ UNCHANGED carried)
    BY <1>7 DEF AppSendStart
  <2> HIDE DEF c
  <2>3. QED
    BY SMTT(30), <1>2, <1>5, <2>1, <2>2
<1>8. CASE KernelSend
  <2>1. PICK r \in {"ok", "error"} : KernelSends(r)
    BY ZenonT(30), <1>8 DEF KernelSend
  <2> DEFINE c == Finished(Head(writeOps), r, Head(writeOps).n)
  <2>2. Head(writeOps) \in Handler /\ Head(writeOps).h = "send"
    BY ZenonT(30), <2>1, HeadOps DEF KernelSends
  <2>3. Head(writeOps).n \in Nat /\ r \in Results
    BY <2>2 DEF Handler, Results
  <2>4. c \in Handler /\ c.h = "send"
    BY ZenonT(30), <2>2, <2>3, FinishedFacts
  <2>5. Complete(ready, <<c>>) /\ UNCHANGED carried
    BY ZenonT(30), <2>1 DEF KernelSends
  <2> HIDE DEF c
  <2>6. QED
    BY <1>5, <2>4, <2>5
<1>9. CASE KernelReceive
  <2>1. ASSUME NEW r \in Results, NEW k \in Nat, readOps # <<>>,
               Complete(ready, <<Finished(Head(readOps), r, k)>>), UNCHANGED carried
        PROVE  \E x : StopFree(x)
    <3> DEFINE c == Finished(Head(readOps), r, k)
    <3>1. Head(readOps) \in Handler /\ Head(readOps).h = "recv"
      BY ZenonT(30), <2>1, HeadOps
    <3>2. c \in Handler /\ c.h = "recv"
      BY ZenonT(30), <3>1, FinishedFacts
    <3> HIDE DEF c
    <3>3. QED
      BY SMTT(30), <1>5, <2>1, <3>2 DEF c
  <2>2. CASE KernelFailsReceive
    BY <2>1, <2>2 DEF KernelFailsReceive, Results
  <2>3. ASSUME NEW d \in Datagrams, KernelReceives(d) PROVE \E x : StopFree(x)
    <3> DEFINE got == IF d < Head(readOps).buf THEN d ELSE Head(readOps).buf
    <3>1. Head(readOps) \in Handler
      BY <2>3, HeadTailProperties DEF KernelReceives
    <3>2. got \in Nat
      BY SMTT(30), <3>1, SizesAssumption DEF Handler
    <3>3. Complete(ready, <<Finished(Head(readOps), "ok", got)>>)
      BY SMTT(30), <2>3 DEF KernelReceives
    <3> HIDE DEF got
    <3>4. QED
      BY <2>1, <2>3, <3>2, <3>3 DEF KernelReceives, Results
  <2>4. QED
    BY SMTT(30), <1>9, <2>2, <2>3 DEF KernelReceive
<1>10. CASE AppBegins
  BY SMTT(30), <1>2, <1>10 DEF AppBegins, AppStart, AppStop, AppMulticast, AppSendAsync
<1>11. CASE AppRestartSpin \/ AppRestartCheck \/ AppMulticastSend \/ AppSendAssign \/ AppSendFlag
  BY ZenonT(30), <1>2, <1>11 DEF AppRestartSpin, AppRestartCheck, AppMulticastSend, AppSendAssign, AppSendFlag
<1>12. QED
  BY SMTT(30), <1>3, <1>4, <1>6, <1>7, <1>8, <1>9, <1>10, <1>11 DEF OtherStep, AppContinues

LEMMA StopsTyped ==
  ASSUME TypeOK, HeadInExecution
  PROVE  StopsToCome \in Seq(Handler)
BY SMTT(30), HeadTailProperties DEF StopsToCome, HeadInExecution, TypeOK, SockTypeOK

LEMMA RestartHandlerStep ==
  ASSUME TypeOK, HeadInExecution, OpKinds, RestartInv, NEW t \in IoThreads, HandlerStep(t)
  PROVE  RestartInv'
<1> USE DEF sockVars, srvVars, appVars
<1>0. ready \in Seq(Handler)
  BY SMTT(30) DEF TypeOK, SockTypeOK
<1>1. ASSUME FinishHandler, ready # <<>>, step # "stop_flag", UNCHANGED <<queue, carried, app>>,
             started => started',
             started' => socket' = "open" \/ (started /\ socket' = socket)
      PROVE  RestartInv'
  <2>1. ready' = Tail(ready) /\ step' = "begin"
    BY <1>1, FinishHandlerFacts DEF TypeOK
  <2>2. StopsToCome' = Tail(ready)
    BY <2>1 DEF StopsToCome
  <2>3. /\ AtMostOne(StopsToCome', "stop")
        /\ InSeq(StopsToCome', "stop") => InSeq(StopsToCome, "stop")
    <3>1. CASE step = "stop_clear"
      BY ZenonT(30), <2>2, <3>1 DEF StopsToCome, RestartInv
    <3>2. CASE step # "stop_clear"
      BY ZenonT(30), <1>0, <1>1, <2>2, <3>2, TailOrder, InSeqTail DEF StopsToCome, RestartInv
    <3>3. QED
      BY SMTT(30), <3>1, <3>2
  <2>4. InSeq(StopsToCome', "stop") => started' /\ app' = "restart_spin"
    BY SMTT(30), <1>1, <2>3 DEF RestartInv
  <2>5. started' /\ step' # "stop_flag" => socket' = "open"
    BY SMTT(30), <1>1 DEF RestartInv
  <2>6. app' \in {"restart_post", "send_to"} => started'
    BY <1>1 DEF RestartInv
  <2>7. QED
    BY ZenonT(30), <1>1, <2>3, <2>4, <2>5, <2>6 DEF RestartInv
<1>2. CASE StartHandlerIgnored(t) \/ StopHandlerIgnored(t) \/ ReceiveHandlerStopped(t) \/ ReceiveHandler(t)
  <2>0. /\ FinishHandler /\ ready # <<>> /\ step = "begin"
        /\ UNCHANGED <<queue, carried, app, started, socket>>
    BY ZenonT(30), <1>2 DEF StartHandlerIgnored, StopHandlerIgnored, ReceiveHandlerStopped, ReceiveHandler, Begins
  <2>1. /\ FinishHandler /\ ready # <<>> /\ step # "stop_flag"
        /\ UNCHANGED <<queue, carried, app>>
        /\ started => started'
        /\ started' => started /\ socket' = socket
    BY <2>0
  <2>2. QED
    BY SMTT(30), <1>1, <2>1
<1>3. CASE StartHandler(t)
  BY <1>1, <1>3 DEF StartHandler, Begins
<1>4. CASE StartHandlerThrows(t)
  BY SMTT(30), <1>1, <1>4 DEF StartHandlerThrows, Begins
<1>5. CASE StopHandlerClear(t) \/ SendHandlerStopped(t) \/ SendHandlerRest(t)
  <2>1. /\ FinishHandler /\ ready # <<>> /\ step # "stop_flag"
        /\ UNCHANGED <<queue, carried, app>>
        /\ started => started'
        /\ started' => started /\ socket' = socket
    BY SMTT(30), <1>5 DEF StopHandlerClear, SendHandlerStopped, SendHandlerRest, Continues, HeadInExecution
  <2>2. QED
    BY <1>1, <2>1
<1>6. CASE StopHandlerClose(t)
  <2>1. /\ step = "begin" /\ step' = "stop_flag" /\ Complete(ready, AbortedOps)
        /\ UNCHANGED <<carried, started, app>>
    BY SMTT(30), <1>6 DEF StopHandlerClose, Begins, EnterStep
  <2>2. /\ AbortAll(readOps) \in Seq(Handler) /\ AbortAll(writeOps) \in Seq(Handler)
        /\ AbortedOps \in Seq(Handler)
    BY ZenonT(30), AbortAllFacts, ConcatProperties DEF AbortedOps, TypeOK, SockTypeOK
  <2>3. ~InSeq(AbortedOps, "stop")
    <3>1. ~InSeq(readOps, "stop") /\ ~InSeq(writeOps, "stop")
      BY DEF OpKinds, InSeq
    <3>2. ~InSeq(AbortAll(readOps), "stop") /\ ~InSeq(AbortAll(writeOps), "stop")
      BY SMTT(30), <3>1, InSeqAbort DEF TypeOK, SockTypeOK
    <3>3. QED
      BY <2>2, <3>2, InSeqConcat DEF AbortedOps
  <2>4. PICK x : StopFree(x)
    BY ZenonT(30), <2>1, <2>2, <2>3, CompletedStopFree DEF NoStopWaits, RestartInv
  <2>5. StopsToCome = ready /\ StopsToCome' = ready \o x /\ x \in Seq(Handler) /\ ~InSeq(x, "stop")
    BY SMTT(30), <2>1, <2>4 DEF StopsToCome, StopFree
  <2>6. /\ AtMostOne(StopsToCome', "stop")
        /\ InSeq(StopsToCome', "stop") => InSeq(StopsToCome, "stop")
    BY ZenonT(30), <1>0, <2>5, ConcatOrder, InSeqConcat DEF RestartInv
  <2>7. QED
    BY ZenonT(30), <2>1, <2>4, <2>6 DEF RestartInv, StopFree, NoStopWaits
<1>7. CASE StopHandlerFlag(t)
  <2>1. /\ step = "stop_flag" /\ step' = "stop_clear" /\ started' = FALSE
        /\ UNCHANGED <<ready, queue, carried, app>>
    BY <1>7 DEF StopHandlerFlag, Continues, EnterStep
  <2>2. ready # <<>> /\ Head(ready).h = "stop"
    BY <2>1 DEF HeadInExecution
  <2>3. StopsToCome = ready /\ StopsToCome' = Tail(ready)
    BY SMTT(30), <2>1 DEF StopsToCome
  <2>4. InSeq(StopsToCome, "stop") /\ ~InSeq(StopsToCome', "stop") /\ AtMostOne(StopsToCome', "stop")
    BY ZenonT(30), <1>0, <2>2, <2>3, TailOrder, InSeqTail DEF RestartInv
  <2>5. QED
    BY <2>1, <2>4 DEF RestartInv
<1>8. CASE SendHandlerFlag(t)
  <2>1. /\ step = "begin" /\ step' = "sent" /\ UNCHANGED <<ready, queue, carried, socket, started, app>>
    BY <1>8 DEF SendHandlerFlag, Begins, EnterStep
  <2>2. QED
    BY ZenonT(30), <2>1 DEF RestartInv, StopsToCome
<1>9. QED
  BY SMTT(30), <1>2, <1>3, <1>4, <1>5, <1>6, <1>7, <1>8 DEF HandlerStep

LEMMA RestartOtherStep ==
  ASSUME "Stop" \notin AppCalls, TypeOK, HeadInExecution, OpKinds, RestartInv, OtherStep
  PROVE  RestartInv'
<1> USE DEF execVars, sockVars, srvVars, appVars
<1>0. /\ ready \in Seq(Handler) /\ UNCHANGED <<step, started>>
      /\ step = "stop_clear" => ready # <<>>
      /\ StopsToCome \in Seq(Handler)
  BY OtherStepTyped, StopsTyped DEF TypeOK, SockTypeOK, HeadInExecution
<1>1. ASSUME NEW x \in Seq(Handler), ready' = ready \o x
      PROVE  StopsToCome' = StopsToCome \o x
  <2>1. CASE step = "stop_clear"
    BY <1>0, <1>1, <2>1, TailConcat DEF StopsToCome
  <2>2. CASE step # "stop_clear"
    BY <1>0, <1>1, <2>2 DEF StopsToCome
  <2>3. QED
    BY <2>1, <2>2
<1>2. UNCHANGED socket
  <2>1. CASE \E t \in IoThreads : (PopCompletion(t) \/ Dispatch(t)) /\ UNCHANGED <<sockVars, srvVars, appVars>>
    BY SMTT(30), <2>1
  <2>2. CASE AppBegins \/ KernelSend \/ KernelReceive
    BY ZenonT(30), <2>2 DEF AppBegins, AppStart, AppStop, AppMulticast, AppSendAsync,
                KernelSend, KernelSends, KernelReceive, KernelReceives, KernelFailsReceive
  <2>3. CASE AppContinues
    BY ZenonT(30), <2>3 DEF AppContinues, AppStartPost, AppStopPost, AppRestartSpin, AppRestartCheck,
                AppMulticastSend, AppSendAssign, AppSendFlag, AppSendStart
  <2>4. QED
    BY <2>1, <2>2, <2>3 DEF OtherStep
<1>3. CASE AppStopPost
  <2>1. /\ app = "restart_post" \/ app = "stop_post"
        /\ app = "restart_post" => app' = "restart_spin"
        /\ UNCHANGED <<queue, carried>> /\ ready' = ready \o <<PostedHandler("stop")>>
    BY SMTT(30), <1>3 DEF AppStopPost, Goto, Post
  <2>2. app = "restart_post" /\ started
    BY <2>1 DEF RestartInv
  <2>3. PostedHandler("stop") \in Handler /\ <<PostedHandler("stop")>> \in Seq(Handler)
    BY PostedHandlerFacts DEF Kinds
  <2>4. StopsToCome' = StopsToCome \o <<PostedHandler("stop")>>
    BY ZenonT(30), <1>1, <2>1, <2>3
  <2>5. ~InSeq(StopsToCome, "stop")
    BY <2>2 DEF RestartInv
  <2>6. AtMostOne(<<PostedHandler("stop")>>, "stop")
    BY DEF AtMostOne
  <2>7. AtMostOne(StopsToCome', "stop")
    BY ZenonT(30), <1>0, <2>3, <2>4, <2>5, <2>6, ConcatOrder
  <2>8. ~InSeq(queue', "stop") /\ \A t \in IoThreads : carried'[t] = NoHandler \/ carried'[t].h # "stop"
    BY <2>1 DEF RestartInv
  <2>9. started' /\ (step' # "stop_flag" => socket' = "open") /\ app' = "restart_spin"
    BY <1>0, <1>2, <2>1, <2>2 DEF RestartInv
  <2>10. QED
    BY <2>7, <2>8, <2>9 DEF RestartInv
<1>4. CASE ~AppStopPost
  <2>1. PICK x : StopFree(x)
    BY <1>4, OtherStepStopFree DEF RestartInv, NoStopWaits
  <2>2. StopsToCome' = StopsToCome \o x /\ x \in Seq(Handler) /\ ~InSeq(x, "stop")
    BY ZenonT(30), <1>1, <2>1 DEF StopFree
  <2>3. /\ AtMostOne(StopsToCome', "stop")
        /\ InSeq(StopsToCome', "stop") => InSeq(StopsToCome, "stop")
    BY ZenonT(30), <1>0, <2>2, ConcatOrder, InSeqConcat DEF RestartInv
  <2>4. /\ app = "restart_spin" /\ started => app' = "restart_spin"
        /\ app' \in {"restart_post", "send_to"} => started
        /\ app' # "stop_post"
    <3>1. CASE app' = app
      BY SMTT(30), <3>1 DEF RestartInv
    <3>2. CASE AppBegins
      BY SMTT(30), <3>2 DEF AppBegins, AppStart, AppStop, AppMulticast, AppSendAsync, Goto
    <3>3. CASE AppContinues
      BY ZenonT(30), <1>4, <3>3 DEF AppContinues, AppStartPost, AppRestartSpin, AppRestartCheck,
                  AppMulticastSend, AppSendAssign, AppSendFlag, AppSendStart, Goto
    <3>4. QED
      BY SMTT(30), <3>1, <3>2, <3>3 DEF OtherStep, KernelSend, KernelReceive
  <2>5. QED
    BY ZenonT(30), <1>0, <1>2, <2>1, <2>3, <2>4 DEF RestartInv, StopFree, NoStopWaits
<1>5. QED
  BY SMTT(30), <1>3, <1>4

(***************************************************************************)
(* Multicast never calls send_to() on a closed socket when the application *)
(* calls Restart and not Stop, whatever the number of io threads: the      *)
(* thread that would multicast is spinning in Restart while a stop handler *)
(* is to come.                                                             *)
(***************************************************************************)
THEOREM RestartKeepsMulticast ==
  ASSUME "Stop" \notin AppCalls
  PROVE  Spec => []MulticastOnOpenSocket
<1>1. Init => RestartInv
  BY DEF Init, ExecInit, SockInit, RestartInv, StopsToCome, InSeq, AtMostOne
<1>2. ASSUME TypeOK, HeadInExecution, FlagInv, RestartInv, [Next]_vars
      PROVE  RestartInv'
  <2>1. CASE UNCHANGED vars
    <3>1. UNCHANGED <<ready, queue, carried, step, socket, started, app>>
      BY SMTT(30), <2>1 DEF vars, execVars, sockVars, srvVars, appVars
    <3>2. QED
      BY ZenonT(30), <1>2, <3>1 DEF RestartInv, StopsToCome
  <2>2. CASE Next
    BY SMTT(30), <1>2, <2>2, RestartHandlerStep, RestartOtherStep, NextIsHandlerOrOther DEF FlagInv
  <2>3. QED
    BY <1>2, <2>1, <2>2
<1>3. TypeOK /\ HeadInExecution /\ RestartInv => MulticastOnOpenSocket
  <2> SUFFICES ASSUME TypeOK, HeadInExecution, RestartInv, app = "send_to" PROVE socket = "open"
    BY DEF MulticastOnOpenSocket
  <2>1. started /\ ~InSeq(StopsToCome, "stop")
    BY DEF RestartInv
  <2>2. step # "stop_flag"
    <3> SUFFICES ASSUME step = "stop_flag" PROVE FALSE
      OBVIOUS
    <3>1. StopsToCome = ready /\ ready # <<>> /\ Head(ready).h = "stop" /\ ready \in Seq(Handler)
      BY DEF StopsToCome, HeadInExecution, TypeOK, SockTypeOK
    <3>2. QED
      BY <2>1, <3>1, InSeqTail
  <2>3. QED
    BY <2>1, <2>2 DEF RestartInv
<1>4. QED
  BY <1>1, <1>2, <1>3, TypeCorrect, FlagInvariant, PTL DEF Spec

(***************************************************************************)
(* Doubling the receive buffer never takes it over the limit, for every    *)
(* size of socket buffer and of datagram.                                  *)
(***************************************************************************)
THEOREM BufferLimited == Spec => []BufferWithinLimit
<1>1. Init => BufferWithinLimit
  BY SizesAssumption DEF Init, BufferWithinLimit
<1>2. ASSUME TypeOK, BufferWithinLimit, [Next]_vars
      PROVE  BufferWithinLimit'
  <2> USE DEF srvVars
  <2>1. CASE UNCHANGED rbuf
    BY <1>2, <2>1 DEF BufferWithinLimit
  <2>2. ASSUME NEW t \in IoThreads, StartHandler(t) PROVE BufferWithinLimit'
    BY <2>2 DEF StartHandler, BufferWithinLimit
  <2>3. ASSUME NEW t \in IoThreads, ReceiveHandler(t) PROVE BufferWithinLimit'
    <3>1. rbuf' = rbuf \/ (rbuf' = 2 * Head(ready).n /\ ~(2 * Head(ready).n > RecvLimit /\ RecvLimit > 0))
      BY <2>3 DEF ReceiveHandler, Grown
    <3>2. Head(ready).n \in Nat
      BY SMTT(30), <1>2, <2>3, TailTyped DEF ReceiveHandler, Begins, Handler, TypeOK
    <3>3. QED
      BY <1>2, <3>1, <3>2, SizesAssumption DEF BufferWithinLimit
  <2>4. ASSUME NEW t \in IoThreads, HandlerStep(t) PROVE BufferWithinLimit'
    BY ZenonT(30), <2>1, <2>2, <2>3, <2>4
       DEF HandlerStep, StartHandlerIgnored, StartHandlerThrows, StopHandlerIgnored, StopHandlerClose,
           StopHandlerFlag, StopHandlerClear, ReceiveHandlerStopped, SendHandlerFlag, SendHandlerStopped,
           SendHandlerRest
  <2>5. CASE OtherStep
    <3>1. CASE AppContinues
      BY <2>1, <3>1 DEF AppContinues, AppStartPost, AppStopPost, AppRestartSpin, AppRestartCheck,
                        AppMulticastSend, AppSendAssign, AppSendFlag, AppSendStart
    <3>2. CASE AppBegins
      BY <2>1, <3>2 DEF AppBegins, AppStart, AppStop, AppMulticast, AppSendAsync
    <3>3. QED
      BY SMTT(30), <2>1, <2>5, <3>1, <3>2 DEF OtherStep, KernelSend, KernelReceive
  <2>6. QED
    BY <1>2, <2>1, <2>4, <2>5, NextIsHandlerOrOther DEF vars
<1>3. QED
  BY <1>1, <1>2, TypeCorrect, PTL DEF Spec
-----------------------------------------------------------------------------
(***************************************************************************)
(* Datagrams smaller than the receive buffer.                              *)
(***************************************************************************)
LEMMA NotReceiveShort ==
  ASSUME NEW c \in Handler, c.h # "recv" \/ c.res # "ok"
  PROVE  c \in Short
BY DEF Short

LEMMA AbortedShort ==
  ASSUME NEW ops \in Seq(Handler)
  PROVE  AbortAll(ops) \in Seq(Short)
<1>1. ASSUME NEW i \in 1..Len(ops)
      PROVE  Finished(ops[i], "aborted", ops[i].n) \in Short
  <2>1. ops[i] \in Handler
    BY ElementOfSeq
  <2>2. ops[i].n \in Nat /\ "aborted" \in Results
    BY SMTT(30), <2>1 DEF Handler, Results
  <2>3. Finished(ops[i], "aborted", ops[i].n) \in Handler
    BY <2>1, <2>2, FinishedFacts
  <2>4. Finished(ops[i], "aborted", ops[i].n).res # "ok"
    BY <2>1 DEF Finished, Handler
  <2>5. QED
    BY <2>3, <2>4, NotReceiveShort
<1>2. QED
  BY <1>1 DEF AbortAll

LEMMA CompleteShort ==
  ASSUME BufferInv, NEW cs \in Seq(Short), Complete(ready, cs)
  PROVE  ready' \in Seq(Short) /\ queue' \in Seq(Short)
<1>1. ready \o cs \in Seq(Short) /\ queue \o cs \in Seq(Short)
  BY ZenonT(30), ConcatProperties DEF BufferInv
<1>2. QED
  BY SMTT(30), <1>1 DEF Complete, BufferInv

LEMMA CallbackReceives ==
  ASSUME NEW ops \in Seq(Receives), readOps = ops, NEW rcv, NEW snd, NEW sb,
         NEW s \in Nat, Callback(rcv, SockBuf, snd, sb, s)
  PROVE  readOps' \in Seq(Receives)
<1> PICK wanted \in BOOLEAN, m \in CallbackSends : TryReceive(wanted, rcv, SockBuf, s)
  BY DEF Callback
<1>1. RecvOp(SockBuf, s) \in Receives
  BY SizesAssumption, RecvOpFacts DEF Receives
<1>2. readOps' = readOps \/ readOps' = Append(readOps, RecvOp(SockBuf, s))
  BY DEF TryReceive
<1>3. QED
  BY <1>1, <1>2, AppendProperties

LEMMA BufferHandlerStep ==
  ASSUME TypeOK, HeadInExecution, BufferInv, NEW t \in IoThreads, HandlerStep(t)
  PROVE  BufferInv'
<1> USE DEF execVars, sockVars, srvVars, appVars
<1>0. readOps \in Seq(Receives) /\ session \in Nat
  BY DEF BufferInv, TypeOK, SockTypeOK
<1>1. ASSUME FinishHandler, ready # <<>>, UNCHANGED <<queue, carried>>,
             readOps' \in Seq(Receives),
             readOps' # <<>> \/ started' => rbuf' = SockBuf
      PROVE  BufferInv'
  <2>1. ready' = Tail(ready)
    BY <1>1, FinishHandlerFacts DEF TypeOK
  <2>2. Tail(ready) \in Seq(Short)
    BY <1>1, HeadTailProperties DEF BufferInv
  <2>3. QED
    BY <1>1, <2>1, <2>2 DEF BufferInv
<1>2. CASE StartHandlerIgnored(t) \/ StartHandlerThrows(t) \/ StopHandlerIgnored(t) \/ StopHandlerClear(t)
           \/ ReceiveHandlerStopped(t) \/ SendHandlerStopped(t)
  <2>1. FinishHandler /\ ready # <<>> /\ UNCHANGED <<queue, carried, readOps, started, rbuf>>
    BY <1>2 DEF StartHandlerIgnored, StartHandlerThrows, StopHandlerIgnored, StopHandlerClear,
                ReceiveHandlerStopped, SendHandlerStopped, Begins, Continues, HeadInExecution
  <2>2. QED
    BY SMTT(30), <1>1, <2>1 DEF BufferInv
<1>3. CASE StartHandler(t)
  <2>1. /\ FinishHandler /\ ready # <<>> /\ UNCHANGED <<queue, carried>> /\ rbuf' = SockBuf
        /\ Callback(receiving, SockBuf, sending, sbuf, session + 1)
    BY <1>3 DEF StartHandler, Begins
  <2>2. session + 1 \in Nat
    BY <1>0
  <2>3. readOps' \in Seq(Receives)
    BY <1>0, <2>1, <2>2, CallbackReceives
  <2>4. QED
    BY <1>1, <2>1, <2>3
<1>4. CASE StopHandlerClose(t)
  <2>1. AbortedOps \in Seq(Short)
    BY AbortedShort, ConcatProperties DEF AbortedOps, TypeOK, SockTypeOK
  <2>2. ready' \in Seq(Short) /\ queue' \in Seq(Short)
    BY <1>4, <2>1, CompleteShort DEF StopHandlerClose
  <2>3. readOps' \in Seq(Receives) /\ UNCHANGED <<carried, started, rbuf>> /\ started
    BY <1>4, EmptySeq DEF StopHandlerClose
  <2>4. QED
    BY SMTT(30), <2>2, <2>3 DEF BufferInv
<1>5. CASE StopHandlerFlag(t) \/ SendHandlerFlag(t)
  BY <1>5 DEF StopHandlerFlag, SendHandlerFlag, BufferInv
<1>6. CASE ReceiveHandler(t)
  <2>1. /\ FinishHandler /\ ready # <<>> /\ UNCHANGED <<queue, carried>>
        /\ started /\ Head(ready).h = "recv" /\ rbuf' = Grown(Head(ready))
        /\ Callback(FALSE, rbuf, sending, sbuf, session)
    BY ZenonT(30), <1>6 DEF ReceiveHandler, Begins
  <2>2. rbuf = SockBuf
    BY <2>1 DEF BufferInv
  <2>3. Head(ready) \in Short
    BY <2>1, HeadTailProperties DEF BufferInv
  <2>4. rbuf' = SockBuf
    <3>1. Head(ready).res = "ok" => Head(ready).n < SockBuf /\ Head(ready).n \in Nat
      BY <2>1, <2>3 DEF Short, Handler
    <3>2. QED
      BY <2>1, <2>2, <3>1, SizesAssumption DEF Grown
  <2>5. readOps' \in Seq(Receives)
    BY ZenonT(30), <1>0, <2>1, <2>2, CallbackReceives
  <2>6. QED
    BY <1>1, <2>1, <2>4, <2>5
<1>7. CASE SendHandlerRest(t)
  <2>1. /\ FinishHandler /\ ready # <<>> /\ UNCHANGED <<queue, carried, started, rbuf>> /\ started
        /\ \/ readOps' = readOps
           \/ \E sb : Callback(receiving, rbuf, sending, sb, session)
    BY <1>7 DEF SendHandlerRest, Continues, HeadInExecution
  <2>2. rbuf = SockBuf
    BY <2>1 DEF BufferInv
  <2>3. readOps' \in Seq(Receives)
    BY SMTT(30), <1>0, <2>1, <2>2, CallbackReceives
  <2>4. QED
    BY <1>1, <2>1, <2>2, <2>3
<1>8. QED
  BY SMTT(30), <1>2, <1>3, <1>4, <1>5, <1>6, <1>7 DEF HandlerStep

LEMMA BufferOtherStep ==
  ASSUME \A d \in Datagrams : d < SockBuf, TypeOK, OpKinds, BufferInv, OtherStep
  PROVE  BufferInv'
<1> USE DEF execVars, sockVars, srvVars, appVars
<1>1. ASSUME NEW c \in Short, Complete(ready, <<c>>), UNCHANGED <<carried, started, rbuf>>,
             readOps' = readOps \/ (readOps # <<>> /\ readOps' = Tail(readOps))
      PROVE  BufferInv'
  <2>0. <<c>> \in Seq(Short)
    OBVIOUS
  <2>1. ready' \in Seq(Short) /\ queue' \in Seq(Short)
    BY ZenonT(30), <1>1, <2>0, CompleteShort
  <2>2. readOps' \in Seq(Receives)
    BY ZenonT(30), <1>1, HeadTailProperties DEF BufferInv
  <2>3. QED
    BY <1>1, <2>1, <2>2 DEF BufferInv
<1>2. ASSUME NEW t \in IoThreads, PopCompletion(t), UNCHANGED <<sockVars, srvVars, appVars>>
      PROVE  BufferInv'
  <2>1. Head(queue) \in Short /\ Tail(queue) \in Seq(Short)
    BY SMTT(30), <1>2, HeadTailProperties DEF PopCompletion, BufferInv
  <2>2. QED
    BY <1>2, <2>1 DEF PopCompletion, BufferInv
<1>3. ASSUME NEW t \in IoThreads, Dispatch(t), UNCHANGED <<sockVars, srvVars, appVars>>
      PROVE  BufferInv'
  <2>1. carried[t] \in Short
    BY SMTT(30), <1>3 DEF Dispatch, BufferInv
  <2>2. ready' \in Seq(Short)
    BY SMTT(30), <1>3, <2>1, AppendProperties DEF Dispatch, BufferInv
  <2>3. QED
    BY SMTT(30), <1>3, <2>2 DEF Dispatch, BufferInv
<1>4. CASE AppBegins \/ AppRestartSpin \/ AppRestartCheck \/ AppMulticastSend \/ AppSendAssign \/ AppSendFlag
  <2>1. UNCHANGED <<ready, queue, carried, readOps, started, rbuf>>
    BY ZenonT(30), <1>4 DEF AppBegins, AppStart, AppStop, AppMulticast, AppSendAsync, AppRestartSpin, AppRestartCheck,
                AppMulticastSend, AppSendAssign, AppSendFlag
  <2>2. QED
    BY SMTT(30), <2>1 DEF BufferInv
<1>5. CASE AppStartPost \/ AppStopPost
  <2>1. PICK k \in {"start", "stop"} : Post(ready, <<PostedHandler(k)>>)
    BY <1>5 DEF AppStartPost, AppStopPost
  <2>2. PostedHandler(k) \in Handler /\ PostedHandler(k).h = k
    BY SMTT(30), PostedHandlerFacts DEF Kinds
  <2>3. PostedHandler(k) \in Short
    BY SMTT(30), <2>2, NotReceiveShort
  <2>4. ready' \in Seq(Short)
    BY SMTT(30), <2>1, <2>3, ConcatProperties DEF Post, BufferInv
  <2>5. UNCHANGED <<queue, carried, readOps, started, rbuf>>
    BY <1>5 DEF AppStartPost, AppStopPost
  <2>6. QED
    BY SMTT(30), <2>4, <2>5 DEF BufferInv
<1>6. CASE AppSendStart
  <2> DEFINE c == Finished(SendOp(sbuf, msg, session), "error", msg)
  <2>1. UNCHANGED <<carried, started, rbuf, readOps>>
    BY SMTT(30), <1>6 DEF AppSendStart
  <2>2. UNCHANGED <<ready, queue>> \/ Complete(ready, <<c>>)
    BY <1>6 DEF AppSendStart
  <2>3. c \in Short
    <3>0. sbuf \in Nat /\ msg \in Nat /\ session \in Nat
      BY DEF TypeOK, SockTypeOK
    <3>1. SendOp(sbuf, msg, session) \in Handler /\ SendOp(sbuf, msg, session).h = "send"
      BY <3>0, SendOpFacts
    <3>2. "error" \in Results
      BY DEF Results
    <3>3. c \in Handler /\ c.h = "send"
      BY <3>0, <3>1, <3>2, FinishedFacts
    <3>4. QED
      BY SMTT(30), <3>3, NotReceiveShort
  <2> HIDE DEF c
  <2>4. CASE Complete(ready, <<c>>)
    BY <1>1, <2>1, <2>3, <2>4
  <2>5. CASE UNCHANGED <<ready, queue>>
    BY <2>1, <2>5 DEF BufferInv
  <2>6. QED
    BY SMTT(30), <2>2, <2>4, <2>5
<1>7. CASE KernelSend
  <2>1. PICK r \in {"ok", "error"} : KernelSends(r)
    BY <1>7 DEF KernelSend
  <2> DEFINE c == Finished(Head(writeOps), r, Head(writeOps).n)
  <2>2. /\ UNCHANGED <<carried, started, rbuf, readOps>> /\ writeOps # <<>> /\ Complete(ready, <<c>>)
    BY ZenonT(30), <1>7, <2>1 DEF KernelSend, KernelSends
  <2>3. c \in Short
    <3>1. Head(writeOps) \in Handler /\ Head(writeOps).h = "send" /\ r \in Results
      BY ZenonT(30), <2>2, MovedTail DEF OpKinds, TypeOK, SockTypeOK, Results
    <3>2. Head(writeOps).n \in Nat
      BY <3>1 DEF Handler
    <3>3. c \in Handler /\ c.h = "send"
      BY <3>1, <3>2, FinishedFacts
    <3>4. QED
      BY SMTT(30), <3>3, NotReceiveShort
  <2> HIDE DEF c
  <2>4. QED
    BY <1>1, <2>2, <2>3
<1>8. ASSUME readOps # <<>>
      PROVE  Head(readOps) \in Handler /\ Head(readOps).buf = SockBuf
  <2>1. Head(readOps) \in Receives
    BY <1>8, HeadTailProperties DEF BufferInv
  <2>2. QED
    BY <2>1 DEF Receives
<1>9. ASSUME KernelFailsReceive, UNCHANGED <<srvVars, appVars>> PROVE BufferInv'
  <2> DEFINE c == Finished(Head(readOps), "error", 0)
  <2>1. /\ UNCHANGED <<carried, started, rbuf>> /\ Complete(ready, <<c>>)
        /\ readOps # <<>> /\ readOps' = Tail(readOps)
    BY <1>9 DEF KernelFailsReceive
  <2>2. c \in Handler /\ c.res = "error"
    <3>1. Head(readOps) \in Handler /\ "error" \in Results
      BY <1>8, <2>1 DEF Results
    <3>2. c \in Handler
      BY <3>1, FinishedFacts
    <3>3. c.res = "error"
      BY <3>1 DEF Finished, Handler
    <3>4. QED
      BY <3>2, <3>3
  <2> HIDE DEF c
  <2>3. c \in Short
    BY <2>2, NotReceiveShort
  <2>4. QED
    BY <1>1, <2>1, <2>3
<1>10. ASSUME NEW d \in Datagrams, KernelReceives(d), UNCHANGED <<srvVars, appVars>> PROVE BufferInv'
  <2>1. readOps # <<>> /\ d \in Nat /\ d < SockBuf
    BY <1>10, SizesAssumption DEF KernelReceives
  <2> DEFINE c == Finished(Head(readOps), "ok", d)
  <2>2. Head(readOps) \in Handler /\ Head(readOps).buf = SockBuf
    BY SMTT(30), <1>8, <2>1
  <2>3. UNCHANGED <<carried, started, rbuf>> /\ Complete(ready, <<c>>) /\ readOps' = Tail(readOps)
    BY <1>10, <2>1, <2>2 DEF KernelReceives
  <2>4. c \in Handler
    BY <2>1, <2>2, FinishedFacts DEF Results
  <2>5. c.n = d
    BY <2>2 DEF Finished, Handler
  <2> HIDE DEF c
  <2>6. c \in Short
    BY <2>1, <2>4, <2>5 DEF Short
  <2>7. QED
    BY SMTT(30), <1>1, <2>1, <2>3, <2>6
<1>11. QED
  BY SMTT(30), <1>2, <1>3, <1>4, <1>5, <1>6, <1>7, <1>9, <1>10 DEF OtherStep, AppContinues, KernelReceive

(***************************************************************************)
(* In both thread modes: as long as no datagram fills _receive_buffer, the *)
(* receive handler never resizes it, and every pending receive still has   *)
(* the buffer it was given.                                                *)
(***************************************************************************)
THEOREM BufferStays == Spec => []ReceiveBufferStable
<1> DEFINE Small == \A d \in Datagrams : d < SockBuf
           Inv == Small => BufferInv
<1>1. Init => Inv
  <2> SUFFICES ASSUME Init PROVE BufferInv
    OBVIOUS
  <2>1. <<>> \in Seq(Short) /\ <<>> \in Seq(Receives)
    BY EmptySeq
  <2>2. QED
    BY <2>1 DEF Init, ExecInit, SockInit, BufferInv
<1>2. ASSUME TypeOK, HeadInExecution, FlagInv, Inv, [Next]_vars PROVE Inv'
  <2> SUFFICES ASSUME Small PROVE BufferInv'
    OBVIOUS
  <2>1. CASE UNCHANGED vars
    BY SMTT(30), <1>2, <2>1 DEF vars, execVars, sockVars, srvVars, BufferInv
  <2>2. QED
    BY SMTT(30), <1>2, <2>1, BufferHandlerStep, BufferOtherStep, NextIsHandlerOrOther DEF FlagInv
<1>3. Inv => ReceiveBufferStable
  <2> SUFFICES ASSUME BufferInv, NEW i \in 1..Len(readOps) PROVE readOps[i].buf = rbuf
    BY DEF ReceiveBufferStable
  <2>1. readOps[i] \in Receives /\ readOps # <<>>
    BY ElementOfSeq DEF BufferInv
  <2>2. QED
    BY <2>1 DEF Receives, BufferInv
<1>4. QED
  BY <1>1, <1>2, <1>3, TypeCorrect, FlagInvariant, PTL DEF Spec
-----------------------------------------------------------------------------
(***************************************************************************)
(* How many receives there are.  Only a handler that calls user code       *)
(* starts one, behind the guard of TryReceive.                             *)
(***************************************************************************)
LEMMA CallbackCounts ==
  ASSUME readOps \in Seq(Handler), NEW rcv \in BOOLEAN, NEW cap \in Nat, NEW snd, NEW sb,
         NEW s \in Nat, Callback(rcv, cap, snd, sb, s)
  PROVE  /\ Len(readOps) \in Nat /\ receiving' \in BOOLEAN /\ (rcv => receiving')
         /\ Len(readOps') = Len(readOps) + (IF receiving' /\ ~rcv THEN 1 ELSE 0)
<1>1. PICK wanted \in BOOLEAN :
        /\ receiving' = (rcv \/ wanted)
        /\ readOps' = IF wanted /\ ~rcv THEN Append(readOps, RecvOp(cap, s)) ELSE readOps
  BY DEF Callback, TryReceive
<1>2. Len(readOps) \in Nat /\ Len(Append(readOps, RecvOp(cap, s))) = Len(readOps) + 1
  BY RecvOpFacts, AppendProperties, LenProperties
<1>3. QED
  BY <1>1, <1>2

LEMMA ReceptionHandlerStep ==
  ASSUME TypeOK, HeadInExecution, OpKinds, ReceptionInv, NEW t \in IoThreads, HandlerStep(t)
  PROVE  ReceptionInv'
<1>0. /\ SockTypeOK /\ IsFiniteSet(CarriersOf("recv"))
      /\ session \in Nat /\ readOps \in Seq(Handler) /\ Len(readOps) \in Nat
      /\ receiving \in BOOLEAN /\ started \in BOOLEAN
  BY LenProperties DEF TypeOK, SockTypeOK, ReceptionInv
<1>1. ASSUME FinishHandler, ready # <<>>, UNCHANGED <<queue, carried, readOps, session>>,
             started' = started, started => receiving' = receiving
      PROVE  ReceptionInv'
  BY <1>0, <1>1, FinishedReceptions DEF ReceptionInv, Receptions
<1>2. ASSUME FinishHandler, ready # <<>>, UNCHANGED <<queue, carried, session>>, started,
             NEW rcv \in BOOLEAN, NEW sb, Callback(rcv, rbuf, sending, sb, session),
             \/ rcv = receiving
             \/ rcv = FALSE /\ Head(ready).h = "recv"
      PROVE  ReceptionInv'
  <2>1. /\ Len(readOps') = Len(readOps) + (IF receiving' /\ ~rcv THEN 1 ELSE 0)
        /\ receiving' \in BOOLEAN /\ (rcv => receiving')
    BY <1>0, <1>2, CallbackCounts DEF TypeOK
  <2>2. /\ IsFiniteSet(CarriersOf("recv")')
        /\ Completions("recv") \in Nat /\ Completions("recv")' \in Nat
        /\ Completions("recv") = Completions("recv")' + (IF Head(ready).h = "recv" THEN 1 ELSE 0)
    BY <1>0, <1>2, FinishedReceptions
  <2>3. /\ Receptions <= session /\ (~receiving => Receptions < session)
        /\ Receptions = Len(readOps) + Completions("recv")
        /\ Receptions' = Len(readOps') + Completions("recv")'
    BY <1>2 DEF ReceptionInv, Receptions
  <2>4. Receptions' <= session /\ (~receiving' => Receptions' < session)
    <3>0. Completions("recv")' <= Completions("recv")
      BY <2>2
    <3>1. CASE rcv = receiving
      <4>1. CASE receiving' /\ ~rcv
        <5>1. Len(readOps') = Len(readOps) + 1 /\ Receptions < session
          BY <2>1, <2>3, <3>1, <4>1
        <5>2. QED
          BY <1>0, <2>2, <2>3, <3>0, <4>1, <5>1
      <4>2. CASE ~(receiving' /\ ~rcv)
        <5>1. Len(readOps') = Len(readOps) /\ (~receiving' => Receptions < session)
          BY <1>0, <2>1, <2>3, <3>1, <4>2
        <5>2. QED
          BY <1>0, <2>2, <2>3, <3>0, <5>1
      <4>3. QED
        BY <4>1, <4>2
    <3>2. CASE rcv = FALSE /\ Head(ready).h = "recv"
      BY <1>0, <2>1, <2>2, <2>3, <3>2
    <3>3. QED
      BY <1>2, <3>1, <3>2
  <2>5. QED
    BY <1>2, <2>2, <2>4 DEF ReceptionInv
<1>3. CASE StartHandlerIgnored(t) \/ StartHandlerThrows(t) \/ StopHandlerIgnored(t)
  BY <1>1, <1>3 DEF StartHandlerIgnored, StartHandlerThrows, StopHandlerIgnored, Begins, sockVars, srvVars
<1>4. CASE StartHandler(t)
  <2>1. /\ FinishHandler /\ ready # <<>> /\ UNCHANGED <<queue, carried>>
        /\ session' = session + 1 /\ started' = TRUE
        /\ Callback(receiving, SockBuf, sending, sbuf, session + 1)
    BY <1>4 DEF StartHandler, Begins
  <2>2. /\ Len(readOps') = Len(readOps) + (IF receiving' /\ ~receiving THEN 1 ELSE 0)
        /\ receiving' \in BOOLEAN
    BY <1>0, <2>1, CallbackCounts, SizesAssumption
  <2>3. QED
    BY <1>0, <2>1, <2>2, FinishedReceptions DEF ReceptionInv, Receptions
<1>5. CASE StopHandlerClose(t)
  <2>1. /\ Complete(ready, AbortedOps) /\ readOps' = <<>>
        /\ UNCHANGED <<carried, session, started, receiving>>
    BY <1>5 DEF StopHandlerClose, srvVars
  <2>2. AllOf(readOps, "recv") /\ AllOf(writeOps, "send")
    BY DEF AllOf, OpKinds
  <2>3. QED
    BY <1>0, <2>1, <2>2, AbortMoves DEF ReceptionInv
<1>6. CASE StopHandlerFlag(t) \/ SendHandlerFlag(t)
  <2>1. /\ UNCHANGED <<ready, queue, carried, readOps, session, receiving>>
        /\ started' => started
    BY <1>6 DEF StopHandlerFlag, SendHandlerFlag, sockVars
  <2>2. QED
    BY <1>0, <2>1, KeptReceptions DEF ReceptionInv
<1>7. CASE StopHandlerClear(t)
  BY <1>1, <1>7 DEF StopHandlerClear, Continues, HeadInExecution, sockVars
<1>8. CASE ReceiveHandlerStopped(t)
  BY <1>1, <1>8 DEF ReceiveHandlerStopped, Begins, sockVars
<1>9. CASE ReceiveHandler(t)
  <2>1. /\ FinishHandler /\ ready # <<>> /\ UNCHANGED <<queue, carried, session>> /\ started
        /\ Head(ready).h = "recv"
        /\ Callback(FALSE, rbuf, sending, sbuf, session)
    BY <1>9 DEF ReceiveHandler, Begins
  <2>2. QED
    BY <1>2, <2>1
<1>10. CASE SendHandlerStopped(t)
  BY <1>1, <1>10 DEF SendHandlerStopped, Continues, HeadInExecution, sockVars, srvVars
<1>11. CASE SendHandlerRest(t)
  <2> DEFINE sb == IF SentSomething(Head(ready)) THEN 0 ELSE sbuf
  <2>1. /\ FinishHandler /\ ready # <<>> /\ UNCHANGED <<queue, carried, session, started>> /\ started
        /\ \/ UNCHANGED <<receiving, readOps>>
           \/ Callback(receiving, rbuf, sending, sb, session)
    BY <1>11 DEF SendHandlerRest, Continues, HeadInExecution
  <2> HIDE DEF sb
  <2>2. QED
    BY <1>0, <1>1, <1>2, <2>1
<1>12. QED
  BY <1>3, <1>4, <1>5, <1>6, <1>7, <1>8, <1>9, <1>10, <1>11 DEF HandlerStep

LEMMA ReceptionOtherStep ==
  ASSUME TypeOK, OpKinds, ReceptionInv, OtherStep
  PROVE  ReceptionInv'
<1>0. /\ SockTypeOK /\ IsFiniteSet(CarriersOf("recv"))
      /\ AllOf(readOps, "recv") /\ AllOf(writeOps, "send")
      /\ readOps \in Seq(Handler) /\ writeOps \in Seq(Handler) /\ session \in Nat
  BY DEF TypeOK, SockTypeOK, ReceptionInv, OpKinds, AllOf
<1>1. ASSUME IsFiniteSet(CarriersOf("recv")') /\ Receptions' = Receptions,
             UNCHANGED <<session, started, receiving>>
      PROVE  ReceptionInv'
  BY <1>1 DEF ReceptionInv
<1>2. ASSUME NEW c \in Handler, c.h # "recv", UNCHANGED <<carried, readOps, session, started, receiving>>,
             Complete(ready, <<c>>) \/ (ready' = ready \o <<c>> /\ UNCHANGED queue)
      PROVE  ReceptionInv'
  BY <1>0, <1>1, <1>2, KeptReceptions
<1>3. ASSUME UNCHANGED <<ready, queue, carried, readOps, session, started, receiving>>
      PROVE  ReceptionInv'
  BY <1>0, <1>1, <1>3, KeptReceptions
<1>4. ASSUME NEW t \in IoThreads, PopCompletion(t) \/ Dispatch(t),
             UNCHANGED <<readOps, session, started, receiving>>
      PROVE  ReceptionInv'
  BY <1>0, <1>1, <1>4, KeptReceptions
<1>5. ASSUME NEW k \in {"start", "stop"}, ready' = ready \o <<PostedHandler(k)>>,
             UNCHANGED <<queue, carried, readOps, session, started, receiving>>
      PROVE  ReceptionInv'
  <2>1. PostedHandler(k) \in Handler /\ PostedHandler(k).h # "recv"
    BY PostedHandlerFacts DEF Kinds
  <2>2. QED
    BY ZenonT(30), <1>2, <1>5, <2>1
<1>6. CASE AppStartPost \/ AppStopPost
  <2>1. /\ UNCHANGED <<queue, carried, readOps, session, started, receiving>>
        /\ \E k \in {"start", "stop"} : ready' = ready \o <<PostedHandler(k)>>
    BY <1>6 DEF AppStartPost, AppStopPost, Post, sockVars, srvVars
  <2>2. QED
    BY <1>5, <2>1
<1>7. CASE AppSendStart
  <2> DEFINE op == SendOp(sbuf, msg, session)
             c == Finished(op, "error", msg)
  <2>1. c \in Handler /\ c.h # "recv"
    <3>1. op \in Handler /\ op.h = "send" /\ msg \in Nat
      <4>1. sbuf \in Nat /\ msg \in Nat
        BY DEF TypeOK
      <4>2. QED
        BY <1>0, <4>1, SendOpFacts
    <3> HIDE DEF op
    <3>2. QED
      BY ZenonT(30), <3>1, FinishedFacts DEF Results
  <2>2. /\ UNCHANGED <<carried, readOps, session, started, receiving>>
        /\ Complete(ready, <<c>>) \/ UNCHANGED <<ready, queue>>
    BY <1>7 DEF AppSendStart, execVars, srvVars
  <2> HIDE DEF c
  <2>3. QED
    BY ZenonT(30), <1>2, <1>3, <2>1, <2>2
<1>8. CASE KernelSend
  <2>1. PICK r \in {"ok", "error"} : KernelSends(r)
    BY <1>8 DEF KernelSend
  <2> DEFINE c == Finished(Head(writeOps), r, Head(writeOps).n)
  <2>2. Head(writeOps) \in Handler /\ Head(writeOps).h = "send"
    BY <1>0, <2>1, HeadOps DEF KernelSends, OpKinds
  <2>3. c \in Handler /\ c.h # "recv"
    <3>1. Head(writeOps).n \in Nat /\ r \in Results
      BY <2>2 DEF Handler, Results
    <3>2. QED
      BY ZenonT(30), <2>2, <3>1, FinishedFacts
  <2>4. Complete(ready, <<c>>) /\ UNCHANGED <<carried, readOps, session, started, receiving>>
    BY <1>8, <2>1 DEF KernelSend, KernelSends, srvVars
  <2> HIDE DEF c
  <2>5. QED
    BY ZenonT(30), <1>2, <2>3, <2>4
<1>9. ASSUME NEW r \in Results, NEW k \in Nat, readOps # <<>>,
             Complete(ready, <<Finished(Head(readOps), r, k)>>), readOps' = Tail(readOps),
             UNCHANGED <<carried, session, started, receiving>>
      PROVE  ReceptionInv'
  <2> DEFINE c == Finished(Head(readOps), r, k)
  <2>1. Head(readOps) \in Handler /\ Head(readOps).h = "recv"
    BY <1>0, <1>9, HeadOps DEF OpKinds
  <2>2. c \in Handler /\ c.h = "recv"
    BY ZenonT(30), <2>1, FinishedFacts
  <2>3. Complete(ready, <<c>>)
    BY <1>9
  <2> HIDE DEF c
  <2>4. QED
    BY <1>0, <1>1, <1>9, <2>2, <2>3, ReceiveMoves
<1>10. CASE KernelReceive
  <2>1. UNCHANGED <<started, receiving>>
    BY <1>10 DEF KernelReceive, srvVars
  <2>2. CASE KernelFailsReceive
    BY <1>9, <2>1, <2>2 DEF KernelFailsReceive, Results
  <2>3. ASSUME NEW d \in Datagrams, KernelReceives(d)
        PROVE  ReceptionInv'
    <3> DEFINE got == IF d < Head(readOps).buf THEN d ELSE Head(readOps).buf
    <3>1. Head(readOps) \in Handler
      BY <1>0, <2>3, HeadTailProperties DEF KernelReceives
    <3>2. got \in Nat
      BY <3>1, SizesAssumption DEF Handler
    <3>3. Complete(ready, <<Finished(Head(readOps), "ok", got)>>)
      BY <2>3 DEF KernelReceives
    <3> HIDE DEF got
    <3>4. QED
      BY <1>9, <2>1, <2>3, <3>2, <3>3 DEF KernelReceives, Results
  <2>4. QED
    BY <1>10, <2>2, <2>3 DEF KernelReceive
<1>11. CASE AppBegins \/ AppRestartSpin \/ AppRestartCheck
            \/ AppMulticastSend \/ AppSendAssign \/ AppSendFlag
  <2>1. CASE AppBegins
    BY <1>3, <2>1 DEF AppBegins, AppStart, AppStop, AppMulticast, AppSendAsync,
          execVars, sockVars, srvVars
  <2>2. CASE AppRestartSpin \/ AppRestartCheck \/ AppMulticastSend
    BY <1>3, <2>2 DEF AppRestartSpin, AppRestartCheck, AppMulticastSend, execVars, sockVars, srvVars
  <2>3. CASE AppSendAssign \/ AppSendFlag
    BY <1>3, <2>3 DEF AppSendAssign, AppSendFlag, execVars, sockVars
  <2>4. QED
    BY <1>11, <2>1, <2>2, <2>3
<1>12. CASE \E t \in IoThreads :
              (PopCompletion(t) \/ Dispatch(t)) /\ UNCHANGED <<sockVars, srvVars, appVars>>
  BY <1>4, <1>12 DEF sockVars, srvVars
<1>13. QED
  BY ZenonT(30), <1>6, <1>7, <1>8, <1>10, <1>11, <1>12 DEF OtherStep, AppContinues

(***************************************************************************)
(* With any number of io threads the receives that are pending, and those  *)
(* whose handlers have still to run, are never more than the times the     *)
(* server has been started: a late completion that clears _receiving lets  *)
(* at most one receive per session through.                                *)
(***************************************************************************)
THEOREM ReceivesBounded == Spec => []ReceivesBoundedByRestarts
<1> DEFINE Inv == TypeOK /\ HeadInExecution /\ FlagInv
<1>1. Init => ReceptionInv
  <2> SUFFICES ASSUME Init PROVE ReceptionInv
    OBVIOUS
  <2>1. /\ readOps = <<>> /\ ready = <<>> /\ queue = <<>> /\ session = 0 /\ ~started
        /\ CarriersOf("recv") = {}
    BY DEF Init, ExecInit, SockInit, CarriersOf
  <2>2. Count(<<>>, "recv") = 0
    BY EmptySeq, InSeqEmpty, CountNone
  <2>3. QED
    BY <2>1, <2>2, FS_EmptySet DEF ReceptionInv, Receptions, Completions
<1>2. Inv /\ ReceptionInv /\ [Next]_vars => ReceptionInv'
  <2>1. ASSUME UNCHANGED vars, TypeOK, ReceptionInv PROVE ReceptionInv'
    <3>1. UNCHANGED <<ready, queue, carried, readOps, session, started, receiving>>
      BY <2>1 DEF vars, execVars, sockVars, srvVars
    <3>2. QED
      BY <2>1, <3>1, KeptReceptions DEF ReceptionInv, TypeOK
  <2>2. QED
    BY <2>1, ReceptionHandlerStep, ReceptionOtherStep, NextIsHandlerOrOther DEF FlagInv
<1>3. TypeOK /\ ReceptionInv => ReceivesBoundedByRestarts
  <2> SUFFICES ASSUME TypeOK, ReceptionInv PROVE ReceivesBoundedByRestarts
    OBVIOUS
  <2>1. Completions("recv") \in Nat
    BY CompletionsType DEF TypeOK, ReceptionInv, Completions
  <2>2. Len(readOps) \in Nat /\ session \in Nat
    BY LenProperties DEF TypeOK, SockTypeOK
  <2>3. QED
    BY <2>1, <2>2 DEF ReceptionInv, Receptions, ReceivesBoundedByRestarts
<1>4. QED
  BY <1>1, <1>2, <1>3, TypeCorrect, FlagInvariant, PTL DEF Spec
=============================================================================
