-------------------- MODULE UDPServerSingleThreadProofs ---------------------
(***************************************************************************)
(* Proofs about UDPServer on a service of one thread, where no strand is   *)
(* needed: the order of the handlers, and the sends.                       *)
(***************************************************************************)
EXTENDS UDPServerProofs

LEMMA SmallOrder ==
  ASSUME NEW s \in Seq(Handler), NEW k, NEW l, NEW n
  PROVE  /\ ~InSeq(s, k) \/ ~InSeq(s, l) => Precedes(s, k, l)
         /\ Len(s) <= 1 => AtMostOne(s, k)
         /\ ~InSeq(s, k) => AtMostOne(s, k)
         /\ OfSession(AbortAll(s), n) <=> OfSession(s, n)
         /\ OfSession(<<>>, n)
<1>0. Len(s) \in Nat
  BY LenProperties
<1>1. ~InSeq(s, k) \/ ~InSeq(s, l) => Precedes(s, k, l)
  BY DEF Precedes, InSeq
<1>2. (Len(s) <= 1 \/ ~InSeq(s, k)) => AtMostOne(s, k)
  BY <1>0 DEF AtMostOne, InSeq
<1>3. OfSession(AbortAll(s), n) <=> OfSession(s, n)
  BY AbortAllFacts DEF OfSession
<1>4. OfSession(<<>>, n)
  BY DEF OfSession
<1>5. QED
  BY <1>1, <1>2, <1>3, <1>4

(***************************************************************************)
(* What a callback leaves pending.                                         *)
(***************************************************************************)
LEMMA CallbackPending ==
  ASSUME TypeOK, NEW rcv \in BOOLEAN, NEW cap \in Nat, NEW snd \in BOOLEAN,
         NEW sb \in Nat, NEW s \in Nat, Callback(rcv, cap, snd, sb, s),
         OfSession(readOps, s), OfSession(writeOps, s)
  PROVE  /\ OfSession(readOps', s) /\ OfSession(writeOps', s)
         /\ \/ receiving' = rcv /\ readOps' = readOps
            \/ ~rcv /\ receiving' = TRUE /\ Len(readOps') = Len(readOps) + 1
<1> PICK wanted \in BOOLEAN, m \in CallbackSends :
      TryReceive(wanted, rcv, cap, s) /\ SendAsync(m, snd, sb, s)
  BY DEF Callback
<1>1. m \in Nat
  BY SizesAssumption DEF CallbackSends
<1>2. ASSUME NEW q \in Seq(Handler), NEW c \in Handler, c.sess = s, OfSession(q, s)
      PROVE  OfSession(Append(q, c), s) /\ Len(Append(q, c)) = Len(q) + 1
  <2>1. /\ Len(q) \in Nat /\ Len(Append(q, c)) = Len(q) + 1
        /\ \A i \in 1..Len(q) : Append(q, c)[i] = q[i]
        /\ Append(q, c)[Len(q) + 1] = c
    BY AppendProperties, LenProperties
  <2>2. QED
    BY <1>2, <2>1 DEF OfSession
<1>3. /\ RecvOp(cap, s) \in Handler /\ RecvOp(cap, s).sess = s
      /\ SendOp(m, m, s) \in Handler /\ SendOp(m, m, s).sess = s
  BY <1>1, RecvOpFacts, SendOpFacts
<1>4. /\ OfSession(Append(readOps, RecvOp(cap, s)), s)
      /\ Len(Append(readOps, RecvOp(cap, s))) = Len(readOps) + 1
      /\ OfSession(Append(writeOps, SendOp(m, m, s)), s)
  BY <1>2, <1>3 DEF TypeOK, SockTypeOK
<1>5. OfSession(readOps', s)
  BY <1>4 DEF TryReceive
<1>6. OfSession(writeOps', s)
  BY ZenonT(30), <1>4 DEF SendAsync
<1>7. CASE wanted /\ ~rcv
  <2>1. receiving' = TRUE /\ readOps' = Append(readOps, RecvOp(cap, s))
    BY ZenonT(30), <1>7 DEF TryReceive
  <2>2. QED
    BY ZenonT(30), <1>4, <1>5, <1>6, <1>7, <2>1
<1>8. CASE ~(wanted /\ ~rcv)
  <2>1. receiving' = rcv /\ readOps' = readOps
    BY <1>8 DEF TryReceive
  <2>2. QED
    BY <1>5, <1>6, <2>1
<1>9. QED
  BY ZenonT(30), <1>7, <1>8

(***************************************************************************)
(* What is left when the handler at the head of "ready" ends.              *)
(***************************************************************************)
LEMMA EndedOrder ==
  ASSUME TypeOK, OrderInv, AtMostOne(ready, "recv"), FinishHandler, ready # <<>>,
         UNCHANGED <<queue, carried, app>>
  PROVE  /\ started' = started => OrderInv'
         /\ AtMostOne(ready', "recv")
         /\ InSeq(ready', "recv") => InSeq(ready, "recv") /\ Head(ready).h # "recv"
         /\ \A n : OfSession(ready, n) => OfSession(ready', n)
         /\ step' = "begin"
<1>1. ready \in Seq(Handler) /\ ready' = Tail(ready) /\ step' = "begin"
  BY FinishHandlerFacts DEF TypeOK, SockTypeOK
<1>2. ASSUME NEW k, NEW l PROVE Precedes(ready, k, l) => Precedes(ready', k, l)
  BY <1>1, TailOrder
<1>3. ASSUME NEW k PROVE InSeq(ready', k) => InSeq(ready, k)
  BY <1>1, InSeqTail
<1>4. ASSUME NEW n PROVE OfSession(ready, n) => OfSession(ready', n)
  BY <1>1, TailOrder
<1>5. AtMostOne(ready', "recv") /\ (Head(ready).h = "recv" => ~InSeq(ready', "recv"))
  BY <1>1, TailOrder
<1>6. started' = started => OrderInv'
  BY <1>2, <1>3 DEF OrderInv, InSendAsync
<1>7. QED
  BY <1>1, <1>3, <1>4, <1>5, <1>6

LEMMA SingleHandlerStep ==
  ASSUME ~StrandRequired, TypeOK, HeadInExecution, OpKinds, SingleThreadInv,
         NEW t \in IoThreads, HandlerStep(t)
  PROVE  SingleThreadInv'
<1> USE DEF SingleThreadInv, sockVars, srvVars, appVars
<1>0. ready \in Seq(Handler) /\ readOps \in Seq(Handler) /\ writeOps \in Seq(Handler) /\ session \in Nat
  BY DEF TypeOK, SockTypeOK
<1>1. ASSUME FinishHandler, ready # <<>>, UNCHANGED <<queue, carried, app, started, socket, readOps, writeOps, session>>,
             step # "stop_flag", receiving' = receiving \/ ~started
      PROVE  SingleThreadInv'
  <2>1. /\ OrderInv' /\ AtMostOne(ready', "recv") /\ step' = "begin"
        /\ InSeq(ready', "recv") => InSeq(ready, "recv")
        /\ \A n : OfSession(ready, n) => OfSession(ready', n)
    BY ZenonT(30), <1>1, EndedOrder DEF ReceiveInv
  <2>2. PendingInv'
    BY <1>1, <2>1 DEF PendingInv, InSendAsync
  <2>3. ReceiveInv'
    BY <1>1, <2>1 DEF ReceiveInv
  <2>4. SessionInv'
    BY <1>1, <2>1 DEF SessionInv
  <2>5. QED
    BY SMTT(30), <2>1, <2>2, <2>3, <2>4
<1>2. ASSUME NEW rcv \in BOOLEAN, NEW cap \in Nat, NEW snd \in BOOLEAN, NEW sb \in Nat,
             Callback(rcv, cap, snd, sb, session), FinishHandler, ready # <<>>, started,
             UNCHANGED <<queue, carried, app, started, socket, session>>, step # "stop_flag",
             rcv = receiving \/ (rcv = FALSE /\ Head(ready).h = "recv")
      PROVE  SingleThreadInv'
  <2>1. /\ OrderInv' /\ AtMostOne(ready', "recv") /\ step' = "begin"
        /\ InSeq(ready', "recv") => InSeq(ready, "recv") /\ Head(ready).h # "recv"
        /\ \A n : OfSession(ready, n) => OfSession(ready', n)
    BY <1>2, EndedOrder DEF ReceiveInv
  <2>2. /\ OfSession(readOps', session) /\ OfSession(writeOps', session)
        /\ \/ receiving' = rcv /\ readOps' = readOps
           \/ ~rcv /\ receiving' = TRUE /\ Len(readOps') = Len(readOps) + 1
    BY ZenonT(30), <1>0, <1>2, CallbackPending DEF SessionInv
  <2>3. PendingInv'
    BY <1>2, <2>1 DEF PendingInv, InSendAsync
  <2>4. ~rcv => readOps = <<>> /\ ~InSeq(ready', "recv")
    <3>1. CASE Head(ready).h = "recv"
      BY <1>0, <1>2, <2>1, <3>1, InSeqTail DEF ReceiveInv
    <3>2. CASE rcv = receiving
      BY <1>2, <2>1, <3>2 DEF ReceiveInv
    <3>3. QED
      BY <1>2, <3>1, <3>2
  <2>5. ReceiveInv'
    <3>1. CASE receiving' = rcv /\ readOps' = readOps
      BY <2>1, <2>4, <3>1 DEF ReceiveInv
    <3>2. CASE ~rcv /\ receiving' = TRUE /\ Len(readOps') = Len(readOps) + 1
      <4>1. Len(readOps') <= 1 /\ ~InSeq(ready', "recv")
        BY <2>4, <3>2
      <4>2. QED
        BY <2>1, <3>2, <4>1 DEF ReceiveInv
    <3>3. QED
      BY ZenonT(30), <2>2, <3>1, <3>2
  <2>6. SessionInv'
    BY <1>2, <2>1, <2>2 DEF SessionInv
  <2>7. QED
    BY SMTT(30), <2>1, <2>3, <2>5, <2>6
<1>3. CASE StartHandlerIgnored(t) \/ StopHandlerIgnored(t)
  BY <1>1, <1>3 DEF StartHandlerIgnored, StopHandlerIgnored, Begins
<1>4. CASE StartHandler(t)
  <2>1. /\ ready # <<>> /\ Head(ready).h = "start" /\ ~started /\ FinishHandler /\ step = "begin"
        /\ UNCHANGED <<queue, carried, app>> /\ socket' = "open" /\ session' = session + 1 /\ started' = TRUE
        /\ Callback(receiving, SockBuf, sending, sbuf, session + 1)
    BY <1>4 DEF StartHandler, Begins
  <2>2. readOps = <<>> /\ writeOps = <<>>
    BY <2>1 DEF PendingInv
  <2>3. ready' = Tail(ready) /\ step' = "begin"
    BY <2>1, FinishHandlerFacts DEF TypeOK
  <2>4. ASSUME NEW k \in {"stop", "recv", "send"} PROVE ~InSeq(ready', k)
    <3>1. ~InSeq(ready, k)
      BY SMTT(30), <1>0, <2>1, TailOrder DEF OrderInv
    <3>2. QED
      BY <1>0, <2>1, <2>3, <3>1, InSeqTail
  <2>5. ready' \in Seq(Handler)
    BY <1>0, <2>1, <2>3, HeadTailProperties
  <2>6. OrderInv'
    <3>1. Precedes(ready', "start", "stop")
      BY <2>4, <2>5, SmallOrder
    <3>2. QED
      BY <2>1, <2>4, <3>1 DEF OrderInv
  <2>7. /\ OfSession(readOps', session + 1) /\ OfSession(writeOps', session + 1)
        /\ \/ receiving' = receiving /\ readOps' = readOps
           \/ ~receiving /\ receiving' = TRUE /\ Len(readOps') = Len(readOps) + 1
    <3>1. OfSession(readOps, session + 1) /\ OfSession(writeOps, session + 1)
      BY <1>0, <2>2, SmallOrder
    <3>2. /\ receiving \in BOOLEAN /\ sending \in BOOLEAN /\ sbuf \in Nat
          /\ SockBuf \in Nat /\ session + 1 \in Nat
      BY SizesAssumption DEF TypeOK, SockTypeOK
    <3>3. QED
      BY ZenonT(30), <2>1, <3>1, <3>2, CallbackPending
  <2>8. PendingInv'
    BY <2>1, <2>3 DEF PendingInv
  <2>9. ReceiveInv'
    <3>1. AtMostOne(ready', "recv") /\ ~InSeq(ready', "recv")
      BY <2>4, <2>5, SmallOrder
    <3>2. Len(readOps') <= 1
      <4>1. Len(readOps) = 0
        BY <2>2
      <4>2. CASE readOps' = readOps
        BY <2>2, <4>2
      <4>3. CASE Len(readOps') = Len(readOps) + 1
        BY <4>1, <4>3
      <4>4. QED
        BY <2>7, <4>2, <4>3
    <3>3. ~receiving' => readOps' = <<>>
      BY <2>2, <2>7
    <3>4. QED
      BY <3>1, <3>2, <3>3 DEF ReceiveInv
  <2>10. SessionInv'
    <3>1. OfSession(ready', session + 1)
      BY <2>4 DEF OfSession, InSeq
    <3>2. QED
      BY <2>1, <2>7, <3>1 DEF SessionInv
  <2>11. QED
    BY <2>6, <2>8, <2>9, <2>10
<1>5. CASE StartHandlerThrows(t)
  <2>1. /\ ready # <<>> /\ Head(ready).h = "start" /\ ~started /\ FinishHandler /\ step = "begin"
        /\ UNCHANGED <<queue, carried, app, started, receiving, readOps, writeOps>>
    BY SMTT(30), <1>5 DEF StartHandlerThrows, Begins
  <2>2. /\ OrderInv' /\ AtMostOne(ready', "recv") /\ step' = "begin"
        /\ InSeq(ready', "recv") => InSeq(ready, "recv")
    BY <2>1, EndedOrder DEF ReceiveInv
  <2>3. ~InSendAsync
    BY <1>0, <2>1, InSeqTail DEF OrderInv
  <2>4. PendingInv'
    BY SMTT(30), <2>1, <2>2, <2>3 DEF PendingInv, InSendAsync
  <2>5. ReceiveInv' /\ SessionInv'
    BY <2>1, <2>2 DEF ReceiveInv, SessionInv
  <2>6. QED
    BY <2>2, <2>4, <2>5
<1>6. CASE StopHandlerClose(t)
  <2>1. /\ ready # <<>> /\ Head(ready).h = "stop" /\ started /\ step' = "stop_flag" /\ socket' = "closed"
        /\ ready' = ready \o AbortedOps /\ queue' = queue /\ readOps' = <<>> /\ writeOps' = <<>>
        /\ UNCHANGED <<carried, session, started, receiving, app>>
    BY <1>6 DEF StopHandlerClose, Begins, EnterStep, Complete
  <2>2. /\ AbortAll(readOps) \in Seq(Handler) /\ AbortAll(writeOps) \in Seq(Handler)
        /\ AbortedOps \in Seq(Handler)
    BY <1>0, AbortAllFacts, ConcatProperties DEF AbortedOps
  <2>3. ASSUME NEW k PROVE InSeq(AbortedOps, k) <=> InSeq(readOps, k) \/ InSeq(writeOps, k)
    BY <1>0, <2>2, InSeqConcat, InSeqAbort DEF AbortedOps
  <2>4. /\ ~InSeq(AbortedOps, "stop") /\ ~InSeq(AbortedOps, "start") /\ ~InSeq(writeOps, "recv")
        /\ InSeq(AbortedOps, "recv") => readOps # <<>>
    <3>1. /\ ~InSeq(readOps, "stop") /\ ~InSeq(readOps, "start")
          /\ ~InSeq(writeOps, "stop") /\ ~InSeq(writeOps, "start") /\ ~InSeq(writeOps, "recv")
      BY DEF OpKinds, InSeq
    <3>2. InSeq(readOps, "recv") => readOps # <<>>
      BY InSeqEmpty
    <3>3. QED
      BY <2>3, <3>1, <3>2
  <2>5. OrderInv'
    <3>1. Precedes(ready', "start", "stop")
      BY ZenonT(30), <1>0, <2>1, <2>2, <2>4, ConcatOrder DEF OrderInv
    <3>2. InSeq(ready', "stop") => InSeq(ready, "stop")
      BY <1>0, <2>1, <2>2, <2>4, InSeqConcat
    <3>3. QED
      BY SMTT(30), <2>1, <3>1, <3>2 DEF OrderInv
  <2>6. PendingInv'
    BY SMTT(30), <2>1 DEF PendingInv
  <2>7. ReceiveInv'
    <3>1. AtMostOne(AbortedOps, "recv")
      <4>1. AtMostOne(AbortAll(readOps), "recv")
        BY ZenonT(30), <2>2, <1>0, AbortAllFacts, SmallOrder DEF ReceiveInv
      <4>2. ~InSeq(AbortAll(writeOps), "recv")
        BY <1>0, <2>4, InSeqAbort
      <4>3. QED
        BY <2>2, <4>1, <4>2, ConcatOrder DEF AbortedOps
    <3>2. AtMostOne(ready', "recv")
      <4>1. CASE readOps = <<>>
        BY ZenonT(30), <1>0, <2>1, <2>2, <2>4, <4>1, ConcatOrder DEF ReceiveInv
      <4>2. CASE readOps # <<>>
        BY ZenonT(30), <1>0, <2>1, <2>2, <3>1, <4>2, ConcatOrder DEF ReceiveInv
      <4>3. QED
        BY <4>1, <4>2
    <3>3. ~receiving => ~InSeq(ready', "recv")
      BY <1>0, <2>1, <2>2, <2>4, InSeqConcat DEF ReceiveInv
    <3>4. QED
      BY <2>1, <3>2, <3>3 DEF ReceiveInv
  <2>8. SessionInv'
    <3>1. OfSession(AbortedOps, session)
      <4>1. OfSession(AbortAll(readOps), session) /\ OfSession(AbortAll(writeOps), session)
        BY ZenonT(30), <1>0, <2>1, SmallOrder DEF SessionInv
      <4>2. QED
        BY <2>2, <4>1, ConcatOrder DEF AbortedOps
    <3>2. OfSession(ready', session)
      BY ZenonT(30), <1>0, <2>1, <2>2, <3>1, ConcatOrder DEF SessionInv
    <3>3. OfSession(<<>>, session)
      BY <1>0, SmallOrder
    <3>4. QED
      BY <2>1, <3>2, <3>3 DEF SessionInv
  <2>9. QED
    BY <2>5, <2>6, <2>7, <2>8
<1>7. CASE StopHandlerFlag(t)
  <2>1. /\ step = "stop_flag" /\ step' = "stop_clear" /\ started' = FALSE
        /\ UNCHANGED <<ready, queue, carried, socket, readOps, writeOps, receiving, app>>
    BY <1>7 DEF StopHandlerFlag, Continues, EnterStep
  <2>2. started /\ ready # <<>> /\ Head(ready).h = "stop"
    BY <2>1 DEF HeadInExecution
  <2>3. ~InSeq(ready, "start")
    BY <1>0, <2>2, TailOrder DEF OrderInv
  <2>4. OrderInv'
    <3>1. ASSUME NEW k PROVE Precedes(ready', k, "start")
      BY <1>0, <2>1, <2>3, SmallOrder
    <3>2. QED
      BY <2>1, <2>3, <3>1 DEF OrderInv
  <2>5. PendingInv'
    BY <2>1 DEF PendingInv
  <2>6. ReceiveInv' /\ SessionInv'
    BY <2>1 DEF ReceiveInv, SessionInv
  <2>7. QED
    BY <2>4, <2>5, <2>6
<1>8. CASE StopHandlerClear(t)
  <2>1. /\ step = "stop_clear" /\ ready # <<>> /\ ~started
    BY <1>8 DEF StopHandlerClear, Continues, HeadInExecution
  <2>2. QED
    BY <1>1, <1>8, <2>1 DEF StopHandlerClear
<1>9. CASE ReceiveHandlerStopped(t)
  BY <1>1, <1>9 DEF ReceiveHandlerStopped, Begins
<1>10. CASE ReceiveHandler(t)
  <2>1. /\ Callback(FALSE, rbuf, sending, sbuf, session) /\ started /\ step = "begin"
        /\ FinishHandler /\ ready # <<>> /\ Head(ready).h = "recv"
        /\ UNCHANGED <<queue, carried, app, started, socket, session>>
    BY ZenonT(30), <1>10 DEF ReceiveHandler, Begins
  <2>2. sending \in BOOLEAN /\ sbuf \in Nat /\ rbuf \in Nat
    BY DEF TypeOK
  <2>3. QED
    BY ZenonT(30), <1>2, <2>1, <2>2
<1>11. CASE SendHandlerFlag(t)
  <2>1. /\ step = "begin" /\ step' = "sent"
        /\ UNCHANGED <<ready, queue, carried, socket, readOps, writeOps, session, started, receiving, app>>
    BY SMTT(30), <1>11 DEF SendHandlerFlag, Begins, EnterStep
  <2>2. OrderInv' /\ PendingInv'
    BY <2>1 DEF OrderInv, PendingInv, InSendAsync
  <2>3. ReceiveInv' /\ SessionInv'
    BY <2>1 DEF ReceiveInv, SessionInv
  <2>4. QED
    BY <2>2, <2>3
<1>12. CASE SendHandlerStopped(t)
  <2>1. step = "sent" /\ ready # <<>> /\ FinishHandler
        /\ UNCHANGED <<queue, carried, app, started, socket, readOps, writeOps, session, receiving>>
    BY <1>12 DEF SendHandlerStopped, Continues, HeadInExecution
  <2>2. QED
    BY <1>1, <2>1
<1>13. CASE SendHandlerRest(t)
  <2> DEFINE sb == IF SentSomething(Head(ready)) THEN 0 ELSE sbuf
  <2>1. /\ FinishHandler /\ ready # <<>> /\ started /\ step = "sent"
        /\ UNCHANGED <<queue, carried, app, started, socket, session>>
    BY <1>13 DEF SendHandlerRest, Continues, HeadInExecution
  <2>2. receiving \in BOOLEAN /\ sending \in BOOLEAN /\ sb \in Nat /\ rbuf \in Nat
    BY DEF TypeOK
  <2>3. \/ UNCHANGED <<receiving, readOps, writeOps>>
        \/ Callback(receiving, rbuf, sending, sb, session)
    BY <1>13 DEF SendHandlerRest
  <2> HIDE DEF sb
  <2>4. QED
    BY ZenonT(30), <1>1, <1>2, <2>1, <2>2, <2>3
<1>14. QED
  BY <1>3, <1>4, <1>5, <1>6, <1>7, <1>8, <1>9, <1>10, <1>11, <1>12, <1>13 DEF HandlerStep

(***************************************************************************)
(* A single completion at the tail of "ready".                             *)
(***************************************************************************)
LEMMA AddedOrder ==
  ASSUME TypeOK, NEW c \in Handler, ready' = ready \o <<c>>
  PROVE  /\ \A k : InSeq(ready', k) <=> InSeq(ready, k) \/ c.h = k
         /\ \A k, l : Precedes(ready, k, l) /\ c.h # k => Precedes(ready', k, l)
         /\ \A k, l : ~InSeq(ready', k) \/ ~InSeq(ready', l) => Precedes(ready', k, l)
         /\ \A k : AtMostOne(ready, k) /\ ~(InSeq(ready, k) /\ c.h = k) => AtMostOne(ready', k)
         /\ \A n : OfSession(ready, n) /\ (c.h \in {"recv", "send"} => c.sess = n) => OfSession(ready', n)
<1>1. ready \in Seq(Handler) /\ <<c>> \in Seq(Handler) /\ ready' \in Seq(Handler)
  BY ConcatProperties DEF TypeOK, SockTypeOK
<1>2. ASSUME NEW k PROVE (InSeq(ready', k) <=> InSeq(ready, k) \/ c.h = k) /\ (InSeq(<<c>>, k) <=> c.h = k)
  BY ZenonT(30), <1>1, InSeqConcat, InSeqSingle
<1>3. ASSUME NEW k, NEW l PROVE Precedes(ready, k, l) /\ c.h # k => Precedes(ready', k, l)
  BY ZenonT(30), <1>1, <1>2, ConcatOrder
<1>4. ASSUME NEW k, NEW l PROVE ~InSeq(ready', k) \/ ~InSeq(ready', l) => Precedes(ready', k, l)
  BY ZenonT(30), <1>1, SmallOrder
<1>5. ASSUME NEW k PROVE AtMostOne(ready, k) /\ ~(InSeq(ready, k) /\ c.h = k) => AtMostOne(ready', k)
  <2>1. AtMostOne(<<c>>, k)
    BY DEF AtMostOne
  <2>2. QED
    BY ZenonT(30), <1>1, <1>2, <2>1, ConcatOrder
<1>6. ASSUME NEW n
      PROVE  OfSession(ready, n) /\ (c.h \in {"recv", "send"} => c.sess = n) => OfSession(ready', n)
  <2>1. (c.h \in {"recv", "send"} => c.sess = n) => OfSession(<<c>>, n)
    BY DEF OfSession
  <2>2. QED
    BY ZenonT(30), <1>1, <2>1, ConcatOrder
<1>7. QED
  BY <1>2, <1>3, <1>4, <1>5, <1>6

LEMMA SingleOtherStep ==
  ASSUME ~StrandRequired, TypeOK, OpKinds, SingleThreadInv, OtherStep
  PROVE  SingleThreadInv'
<1> USE DEF SingleThreadInv, execVars, sockVars, srvVars, appVars
<1>0. ready \in Seq(Handler) /\ readOps \in Seq(Handler) /\ writeOps \in Seq(Handler) /\ session \in Nat
  BY DEF TypeOK, SockTypeOK
<1>1. ASSUME NEW t \in IoThreads, PopCompletion(t) \/ Dispatch(t)
      PROVE  FALSE
  BY <1>1 DEF PopCompletion, Dispatch, OrderInv
<1>2. ASSUME UNCHANGED <<ready, queue, carried, step, socket, readOps, writeOps, session, started, receiving>>,
             app' = "start_post" => ~started,
             app' \in {"stop_post", "restart_post"} => started,
             InSendAsync' => InSendAsync \/ started
      PROVE  SingleThreadInv'
  <2>1. OrderInv'
    BY <1>2 DEF OrderInv
  <2>2. PendingInv'
    BY <1>2 DEF PendingInv
  <2>3. ReceiveInv' /\ SessionInv'
    BY <1>2 DEF ReceiveInv, SessionInv
  <2>4. QED
    BY <2>1, <2>2, <2>3
<1>3. CASE AppBegins
  BY SMTT(30), <1>2, <1>3 DEF AppBegins, AppStart, AppStop, AppMulticast, AppSendAsync, Goto, InSendAsync
<1>4. CASE AppRestartSpin \/ AppRestartCheck \/ AppMulticastSend \/ AppSendAssign \/ AppSendFlag
  BY <1>2, <1>4 DEF AppRestartSpin, AppRestartCheck, AppMulticastSend, AppSendAssign, AppSendFlag, Goto, InSendAsync
<1>5. CASE AppStartPost \/ AppStopPost
  <2>1. PICK k \in {"start", "stop"} :
          /\ ready' = ready \o <<PostedHandler(k)>>
          /\ k = "start" => app = "start_post"
          /\ k = "stop" => app \in {"stop_post", "restart_post"}
    BY <1>5 DEF AppStartPost, AppStopPost, Post, Goto
  <2>2. /\ UNCHANGED <<queue, carried, step, socket, readOps, writeOps, session, started, receiving>>
        /\ app' \in {"idle", "restart_spin"}
    BY <1>5 DEF AppStartPost, AppStopPost, Goto
  <2>3. PostedHandler(k) \in Handler /\ PostedHandler(k).h = k
    BY PostedHandlerFacts DEF Kinds
  <2>4. /\ \A l : InSeq(ready', l) <=> InSeq(ready, l) \/ k = l
        /\ \A l, m : Precedes(ready, l, m) /\ k # l => Precedes(ready', l, m)
        /\ \A l, m : ~InSeq(ready', l) \/ ~InSeq(ready', m) => Precedes(ready', l, m)
        /\ \A l : AtMostOne(ready, l) /\ ~(InSeq(ready, l) /\ k = l) => AtMostOne(ready', l)
        /\ \A n : OfSession(ready, n) => OfSession(ready', n)
    BY <2>1, <2>3, AddedOrder
  <2>5. OrderInv'
    <3>1. ~InSendAsync'
      BY <2>2 DEF InSendAsync
    <3>2. CASE k = "start"
      <4>1. started => Precedes(ready', "start", "stop")
        BY <2>1, <2>4, <3>2 DEF OrderInv
      <4>2. ~started => \A l \in {"stop", "recv", "send"} : Precedes(ready', l, "start")
        BY SMTT(30), <2>4, <3>2 DEF OrderInv
      <4>3. QED
        BY <2>2, <3>1, <4>1, <4>2 DEF OrderInv
    <3>3. CASE k = "stop"
      <4>1. started => Precedes(ready', "start", "stop")
        BY <2>4, <3>3 DEF OrderInv
      <4>2. ~started => ~InSeq(ready', "start")
        BY <2>1, <2>4, <3>3 DEF OrderInv
      <4>3. ~started => \A l \in {"stop", "recv", "send"} : Precedes(ready', l, "start")
        BY <2>4, <4>2
      <4>4. QED
        BY <2>2, <3>1, <4>1, <4>3 DEF OrderInv
    <3>4. QED
      BY <3>2, <3>3
  <2>6. PendingInv'
    BY <2>2 DEF PendingInv, InSendAsync
  <2>7. ReceiveInv'
    BY <2>2, <2>4 DEF ReceiveInv
  <2>8. SessionInv'
    BY <2>2, <2>4 DEF SessionInv
  <2>9. QED
    BY <2>5, <2>6, <2>7, <2>8
<1>6. ASSUME NEW c \in Handler, c.h \in {"recv", "send"}, ready' = ready \o <<c>>, queue' = queue,
             UNCHANGED <<carried, step, socket, session, started, receiving>>,
             started => c.sess = session,
             ~started => ~InSeq(ready, "start"),
             app' = app \/ app' = "idle",
             c.h = "recv" => ~InSeq(ready, "recv") /\ receiving /\ readOps' = <<>>,
             c.h = "send" => UNCHANGED readOps,
             OfSession(readOps, session) => OfSession(readOps', session),
             OfSession(writeOps, session) => OfSession(writeOps', session),
             readOps = <<>> => readOps' = <<>>,
             writeOps = <<>> => writeOps' = <<>>
      PROVE  SingleThreadInv'
  <2>1. /\ \A k : InSeq(ready', k) <=> InSeq(ready, k) \/ c.h = k
        /\ \A k, l : Precedes(ready, k, l) /\ c.h # k => Precedes(ready', k, l)
        /\ \A k, l : ~InSeq(ready', k) \/ ~InSeq(ready', l) => Precedes(ready', k, l)
        /\ \A k : AtMostOne(ready, k) /\ ~(InSeq(ready, k) /\ c.h = k) => AtMostOne(ready', k)
        /\ \A n : OfSession(ready, n) /\ c.sess = n => OfSession(ready', n)
    BY <1>6, AddedOrder
  <2>2. OrderInv'
    <3>1. started => Precedes(ready', "start", "stop")
      BY SMTT(30), <1>6, <2>1 DEF OrderInv
    <3>2. ~started => ~InSeq(ready', "start")
      BY <1>6, <2>1
    <3>3. ~started => \A k \in {"stop", "recv", "send"} : Precedes(ready', k, "start")
      BY SMTT(30), <2>1, <3>2
    <3>4. started /\ app' = "start_post" => ~InSeq(ready', "stop")
      BY ZenonT(30), <1>6, <2>1 DEF OrderInv
    <3>5. QED
      BY SMTT(30), <1>6, <3>1, <3>2, <3>3, <3>4 DEF OrderInv
  <2>3. PendingInv'
    BY <1>6 DEF PendingInv, InSendAsync
  <2>4. ReceiveInv'
    <3>1. CASE c.h = "recv"
      BY SMTT(30), <1>6, <2>1, <3>1 DEF ReceiveInv
    <3>2. CASE c.h = "send"
      BY SMTT(30), <1>6, <2>1, <3>2 DEF ReceiveInv
    <3>3. QED
      BY SMTT(30), <1>6, <3>1, <3>2
  <2>5. SessionInv'
    BY <1>6, <2>1 DEF SessionInv
  <2>6. QED
    BY SMTT(30), <2>2, <2>3, <2>4, <2>5
<1>7. CASE AppSendStart
  <2> DEFINE op == SendOp(sbuf, msg, session)
             c == Finished(op, "error", msg)
  <2>1. op \in Handler /\ op.h = "send" /\ op.sess = session /\ c \in Handler /\ c.h = "send" /\ c.sess = session
    <3>1. sbuf \in Nat /\ msg \in Nat /\ session \in Nat
      BY DEF TypeOK, SockTypeOK
    <3>2. op \in Handler /\ op.h = "send" /\ op.sess = session
      BY <3>1, SendOpFacts, SMTT(60)
    <3> HIDE DEF op
    <3>3. "error" \in Results
      BY DEF Results
    <3>4. QED
      BY <3>1, <3>2, <3>3, FinishedFacts
  <2>2. /\ UNCHANGED <<carried, step, socket, readOps, session, started, receiving>>
        /\ app = "send_start" /\ app' = "idle" /\ InSendAsync
    <3>1. UNCHANGED <<socket, readOps, session, started, receiving>> /\ app = "send_start" /\ app' = "idle"
      BY <1>7 DEF AppSendStart, Goto
    <3>2. UNCHANGED <<carried, step>>
      BY <1>7 DEF AppSendStart
    <3>3. QED
      BY <3>1, <3>2 DEF InSendAsync
  <2>3. CASE socket = "open"
    <3>1. writeOps' = Append(writeOps, op) /\ UNCHANGED <<ready, queue>>
      BY <1>7, <2>3 DEF AppSendStart
    <3>2. started /\ step # "stop_flag"
      BY <2>2, <2>3 DEF PendingInv
    <3>3. OfSession(writeOps', session)
      <4>1. <<op>> \in Seq(Handler) /\ OfSession(<<op>>, session) /\ writeOps' = writeOps \o <<op>>
        BY <1>0, <2>1, <3>1, AppendIsConcat DEF OfSession
      <4>2. QED
        BY ZenonT(30), <1>0, <3>2, <4>1, ConcatOrder DEF SessionInv
    <3>4. OrderInv'
      BY <2>2, <3>1, <3>2 DEF OrderInv
    <3>5. PendingInv'
      BY <2>2, <3>2 DEF PendingInv
    <3>6. ReceiveInv'
      BY <2>2, <3>1 DEF ReceiveInv
    <3>7. SessionInv'
      BY SMTT(30), <2>2, <3>1, <3>3 DEF SessionInv
    <3>8. QED
      BY <3>4, <3>5, <3>6, <3>7
  <2>4. CASE socket = "closed"
    <3>1. Complete(ready, <<c>>) /\ UNCHANGED writeOps
      BY <1>7, <2>4 DEF AppSendStart
    <3>2. ready' = ready \o <<c>> /\ queue' = queue
      BY <3>1 DEF Complete
    <3>3. ~started => ~InSeq(ready, "start")
      BY SMTT(30), <2>2 DEF OrderInv
    <3> HIDE DEF c
    <3>4. QED
      BY <1>6, <2>1, <2>2, <3>1, <3>2, <3>3
  <2>5. QED
    BY <2>3, <2>4 DEF TypeOK, SockTypeOK
<1>8. ASSUME NEW r \in Results, NEW k \in Nat, writeOps # <<>>,
             Complete(ready, <<Finished(Head(writeOps), r, k)>>), writeOps' = Tail(writeOps),
             UNCHANGED <<carried, step, socket, readOps, session, srvVars, appVars>>
      PROVE  SingleThreadInv'
  <2> DEFINE c == Finished(Head(writeOps), r, k)
  <2>1. Head(writeOps) \in Handler /\ Head(writeOps) = writeOps[1] /\ Head(writeOps).h = "send" /\ 1 \in 1..Len(writeOps)
    BY ZenonT(30), <1>0, <1>8, TailParts, HeadTailProperties DEF OpKinds
  <2>2. started /\ OfSession(writeOps, session)
    BY <1>8 DEF PendingInv, SessionInv
  <2>3. c \in Handler /\ c.h = "send" /\ c.sess = session
    <3>1. Head(writeOps).sess = session
      BY <2>1, <2>2 DEF OfSession
    <3>2. QED
      BY <2>1, <3>1, FinishedFacts
  <2>4. ready' = ready \o <<c>> /\ queue' = queue
    BY <1>8 DEF Complete
  <2>5. OfSession(writeOps', session)
    BY ZenonT(30), <1>0, <1>8, <2>2, TailOrder
  <2> HIDE DEF c
  <2>6. QED
    BY SMTT(30), <1>6, <1>8, <2>2, <2>3, <2>4, <2>5
<1>9. ASSUME NEW r \in Results, NEW k \in Nat, readOps # <<>>,
             Complete(ready, <<Finished(Head(readOps), r, k)>>), readOps' = Tail(readOps),
             UNCHANGED <<carried, step, socket, writeOps, session, srvVars, appVars>>
      PROVE  SingleThreadInv'
  <2> DEFINE c == Finished(Head(readOps), r, k)
  <2>1. Head(readOps) \in Handler /\ Head(readOps) = readOps[1] /\ Head(readOps).h = "recv" /\ 1 \in 1..Len(readOps)
    BY <1>0, <1>9, TailParts, HeadTailProperties DEF OpKinds
  <2>2. started /\ OfSession(readOps, session) /\ ~InSeq(ready, "recv") /\ receiving
    BY SMTT(30), <1>9 DEF PendingInv, SessionInv, ReceiveInv
  <2>3. c \in Handler /\ c.h = "recv" /\ c.sess = session
    <3>1. Head(readOps).sess = session
      BY <2>1, <2>2 DEF OfSession
    <3>2. QED
      BY <2>1, <3>1, FinishedFacts
  <2>4. ready' = ready \o <<c>> /\ queue' = queue
    BY <1>9 DEF Complete
  <2>5. readOps' = <<>>
    <3>1. Len(Tail(readOps)) = 0 /\ Tail(readOps) \in Seq(Handler)
      BY <1>0, <1>9, TailParts, HeadTailProperties DEF ReceiveInv
    <3>2. QED
      BY <1>9, <3>1, EmptySeq
  <2>6. OfSession(readOps', session)
    BY <1>0, <2>5, SmallOrder
  <2> HIDE DEF c
  <2>7. QED
    BY SMTT(30), <1>6, <1>9, <2>2, <2>3, <2>4, <2>5, <2>6
<1>10. CASE KernelSend
  <2>1. PICK r \in {"ok", "error"} : KernelSends(r)
    BY <1>10 DEF KernelSend
  <2>2. Head(writeOps).n \in Nat /\ r \in Results
    <3>1. Head(writeOps) \in Handler
      BY <1>0, <2>1, HeadTailProperties DEF KernelSends
    <3>2. QED
      BY <3>1 DEF Handler, Results
  <2>3. UNCHANGED <<srvVars, appVars>>
    BY <1>10 DEF KernelSend
  <2>4. QED
    BY <1>8, <2>1, <2>2, <2>3 DEF KernelSends
<1>11. CASE KernelReceive
  <2>1. UNCHANGED <<srvVars, appVars>>
    BY <1>11 DEF KernelReceive
  <2>2. CASE KernelFailsReceive
    BY <1>9, <2>1, <2>2 DEF KernelFailsReceive, Results
  <2>3. ASSUME NEW d \in Datagrams, KernelReceives(d)
        PROVE  SingleThreadInv'
    <3> DEFINE got == IF d < Head(readOps).buf THEN d ELSE Head(readOps).buf
    <3>1. Head(readOps) \in Handler
      BY <1>0, <2>3, HeadTailProperties DEF KernelReceives
    <3>2. got \in Nat
      BY <3>1, SizesAssumption DEF Handler
    <3>3. Complete(ready, <<Finished(Head(readOps), "ok", got)>>)
      BY <2>3 DEF KernelReceives
    <3> HIDE DEF got
    <3>4. QED
      BY <1>9, <2>1, <2>3, <3>2, <3>3 DEF KernelReceives, Results
  <2>4. QED
    BY <1>11, <2>2, <2>3 DEF KernelReceive
<1>12. QED
  BY <1>1, <1>3, <1>4, <1>5, <1>7, <1>10, <1>11 DEF OtherStep, AppContinues

LEMMA SingleStep ==
  ASSUME ~StrandRequired, TypeOK, HeadInExecution, OpKinds, SingleThreadInv, [Next]_vars
  PROVE  SingleThreadInv'
<1>1. CASE UNCHANGED vars
  <2>1. UNCHANGED <<ready, queue, carried, step, socket, readOps, writeOps, session, started, receiving, app>>
    BY <1>1 DEF vars, execVars, sockVars, srvVars, appVars
  <2>2. QED
    BY <2>1 DEF SingleThreadInv, OrderInv, PendingInv, ReceiveInv, SessionInv, InSendAsync
<1>2. QED
  BY SMTT(30), <1>1, SingleHandlerStep, SingleOtherStep, NextIsHandlerOrOther

(***************************************************************************)
(* In the mode without a strand, where one thread runs the io_service, for *)
(* every pattern of calls, failures of start included: the order of stops, *)
(* starts and completions in "ready", what is pending on the socket, and   *)
(* the session it belongs to.                                              *)
(***************************************************************************)
THEOREM SingleThreadInvariant ==
  ASSUME ~StrandRequired
  PROVE  Spec => []SingleThreadInv
<1>1. Init => SingleThreadInv
  <2> SUFFICES ASSUME Init PROVE SingleThreadInv
    OBVIOUS
  <2>1. /\ ready = <<>> /\ queue = <<>> /\ readOps = <<>> /\ writeOps = <<>>
        /\ carried = [t \in IoThreads |-> NoHandler] /\ step = "begin" /\ started = FALSE /\ app = "idle"
    BY DEF Init, ExecInit, SockInit
  <2>2. OrderInv
    BY <2>1 DEF OrderInv, Precedes, InSeq
  <2>3. PendingInv
    BY <2>1 DEF PendingInv, InSendAsync
  <2>4. ReceiveInv /\ SessionInv
    BY <2>1 DEF ReceiveInv, SessionInv, AtMostOne
  <2>5. QED
    BY <2>2, <2>3, <2>4 DEF SingleThreadInv
<1>2. TypeOK /\ HeadInExecution /\ FlagInv /\ SingleThreadInv /\ [Next]_vars => SingleThreadInv'
  BY SingleStep DEF FlagInv
<1>3. QED
  BY <1>1, <1>2, TypeCorrect, FlagInvariant, PTL DEF Spec

(***************************************************************************)
(* At most one receive is ever pending: _receiving alone is enough of a    *)
(* guard when one thread runs the io_service.                              *)
(***************************************************************************)
THEOREM SingleThreadReceives ==
  ASSUME ~StrandRequired
  PROVE  Spec => []OneReceiveInFlight
<1>1. SingleThreadInv => OneReceiveInFlight
  BY DEF SingleThreadInv, ReceiveInv, OneReceiveInFlight
<1>2. QED
  BY <1>1, SingleThreadInvariant, PTL

(***************************************************************************)
(* The completion that runs next on a started server belongs to its        *)
(* session: the FIFO order of the handlers alone keeps what Stop aborted   *)
(* from reaching the server that Restart brings up.                        *)
(***************************************************************************)
THEOREM SingleThreadSessions ==
  ASSUME ~StrandRequired
  PROVE  Spec => []NoStaleCompletion
<1>1. TypeOK /\ SingleThreadInv => NoStaleCompletion
  <2> SUFFICES ASSUME TypeOK, SingleThreadInv,
                      started, ready # <<>>, Head(ready).h \in {"recv", "send"}
               PROVE  Head(ready).sess = session
    BY DEF NoStaleCompletion
  <2>1. ready \in Seq(Handler)
    BY DEF TypeOK, SockTypeOK
  <2>2. 1 \in 1..Len(ready) /\ Head(ready) = ready[1]
    BY <2>1, TailParts
  <2>3. QED
    BY <2>2 DEF SingleThreadInv, SessionInv, OfSession
<1>2. QED
  BY <1>1, SingleThreadInvariant, TypeCorrect, PTL
-----------------------------------------------------------------------------
(***************************************************************************)
(* The sends of a server with one io thread.                               *)
(***************************************************************************)
LEMMA SendsTyped ==
  ASSUME TypeOK, HeadInExecution
  PROVE  SendsToCome \in Seq(Handler)
BY SMTT(30), HeadTailProperties DEF SendsToCome, HeadInExecution, TypeOK, SockTypeOK

LEMMA SendsGrow ==
  ASSUME TypeOK, HeadInExecution, NEW x \in Seq(Handler), ready' = ready \o x,
         step' = step \/ (step # "sent" /\ step' # "sent")
  PROVE  SendsToCome' = SendsToCome \o x
BY ZenonT(30), TailConcat DEF SendsToCome, HeadInExecution, TypeOK, SockTypeOK

(***************************************************************************)
(* The send that is in the hands of a handler is not one that is to come.  *)
(***************************************************************************)
LEMMA SendsEnded ==
  ASSUME TypeOK, FinishHandler, ready # <<>>
  PROVE  /\ step' = "begin"
         /\ InSeq(SendsToCome', "send") => InSeq(SendsToCome, "send")
         /\ AtMostOne(SendsToCome, "send") => AtMostOne(SendsToCome', "send")
<1>1. ready \in Seq(Handler) /\ ready' = Tail(ready) /\ step' = "begin"
  BY FinishHandlerFacts DEF TypeOK, SockTypeOK
<1>2. SendsToCome' = Tail(ready)
  BY <1>1 DEF SendsToCome
<1>3. CASE step = "sent"
  BY <1>1, <1>2, <1>3 DEF SendsToCome
<1>4. CASE step # "sent"
  <2>1. SendsToCome = ready
    BY <1>4 DEF SendsToCome
  <2>2. QED
    BY SMTT(30), <1>1, <1>2, <2>1, InSeqTail, TailOrder
<1>5. QED
  BY <1>3, <1>4

(***************************************************************************)
(* Steps that start and finish no send; steps that finish one; and what a  *)
(* callback does.                                                          *)
(***************************************************************************)
LEMMA WritesKept ==
  ASSUME WriteInv, writeOps' = writeOps,
         InSeq(SendsToCome', "send") => InSeq(SendsToCome, "send"),
         AtMostOne(SendsToCome, "send") => AtMostOne(SendsToCome', "send"),
         started' /\ ~sending' => (started /\ ~sending) \/ NoSend,
         InSendAsync' => InSendAsync \/ (started /\ ~sending /\ "SendAsync" \in AppCalls),
         app' = "send_start" /\ started' => sending'
  PROVE  WriteInv'
<1>1. NoSend => NoSend'
  BY DEF NoSend
<1>2. Len(writeOps') <= 1 /\ AtMostOne(SendsToCome', "send") /\ (writeOps' # <<>> => ~InSeq(SendsToCome', "send"))
  BY DEF WriteInv
<1>3. started' /\ ~sending' => NoSend'
  BY <1>1 DEF WriteInv
<1>4. InSendAsync' => "SendAsync" \in AppCalls /\ NoSend'
  BY <1>1 DEF WriteInv
<1>5. QED
  BY <1>2, <1>3, <1>4 DEF WriteInv

LEMMA WriteDone ==
  ASSUME WriteInv, writeOps # <<>>, writeOps' = <<>>, AtMostOne(SendsToCome', "send"),
         UNCHANGED <<started, sending, app>>
  PROVE  WriteInv'
<1>1. ~NoSend
  BY DEF NoSend
<1>2. ~InSendAsync /\ (started => sending)
  BY <1>1 DEF WriteInv
<1>3. ~InSendAsync' /\ app' # "send_start" /\ (started' => sending')
  BY <1>2 DEF InSendAsync
<1>4. Len(writeOps') <= 1
  OBVIOUS
<1>5. QED
  BY <1>3, <1>4 DEF WriteInv

LEMMA IntegrityKept ==
  ASSUME IntegrityInv, writeOps' = writeOps \/ writeOps' = <<>>,
         "SendAsync" \notin AppCalls => sbuf' = sbuf \/ writeOps' = <<>>,
         step' = "sent" => step = "sent" \/ writeOps' = <<>>
  PROVE  IntegrityInv'
<1> SUFFICES ASSUME "SendAsync" \notin AppCalls PROVE SendIntegrity' /\ (step' = "sent" => writeOps' = <<>>)
  BY DEF IntegrityInv
<1>1. CASE writeOps' = <<>>
  BY <1>1 DEF SendIntegrity
<1>2. CASE writeOps' = writeOps /\ sbuf' = sbuf
  BY <1>2 DEF IntegrityInv, SendIntegrity
<1>3. QED
  BY <1>1, <1>2

LEMMA CallbackWrites ==
  ASSUME TypeOK, WriteInv, IntegrityInv, NEW rcv, NEW cap, NEW sb \in Nat, NEW s \in Nat,
         Callback(rcv, cap, sending, sb, s), FinishHandler, ready # <<>>,
         app' = app, ~sending => NoSend, started' = TRUE,
         app = "send_start" => sending,
         "SendAsync" \notin AppCalls => sb = sbuf \/ writeOps = <<>>
  PROVE  WriteInv' /\ IntegrityInv'
<1>1. /\ step' = "begin"
      /\ InSeq(SendsToCome', "send") => InSeq(SendsToCome, "send")
      /\ AtMostOne(SendsToCome, "send") => AtMostOne(SendsToCome', "send")
  BY SendsEnded
<1>2. PICK m \in CallbackSends : SendAsync(m, sending, sb, s)
  BY DEF Callback
<1>3. CASE ~(~sending /\ Accepted(m))
  <2>1. sbuf' = sb /\ sending' = sending /\ writeOps' = writeOps
    BY <1>2, <1>3 DEF SendAsync
  <2>2. WriteInv'
    BY <1>1, <2>1, WritesKept DEF InSendAsync
  <2>3. IntegrityInv'
    BY <1>1, <2>1, IntegrityKept
  <2>4. QED
    BY <2>2, <2>3
<1>4. CASE ~sending /\ Accepted(m)
  <2>1. sbuf' = m /\ sending' = TRUE /\ writeOps' = Append(writeOps, SendOp(m, m, s))
    BY <1>2, <1>4 DEF SendAsync
  <2>2. m # 0 /\ m \in Nat
    BY <1>4, SizesAssumption DEF Accepted, CallbackSends
  <2>3. "SendAsync" \notin AppCalls
    BY <2>2 DEF CallbackSends
  <2>4. writeOps = <<>> /\ ~InSeq(SendsToCome', "send")
    BY <1>1, <1>4 DEF NoSend
  <2>5. writeOps' = <<SendOp(m, m, s)>>
    BY <2>1, <2>4
  <2>6. Len(writeOps') = 1 /\ writeOps'[1] = SendOp(m, m, s)
    BY <2>5
  <2>7. ~InSendAsync'
    BY <2>3 DEF WriteInv, InSendAsync
  <2>8. app' # "send_start"
    BY <2>7 DEF InSendAsync
  <2>9. WriteInv'
    BY SMTT(30), <1>1, <2>1, <2>4, <2>6, <2>7, <2>8 DEF WriteInv
  <2>10. SendOp(m, m, s).buf = m /\ SendOp(m, m, s).n = m
    BY <2>2, SendOpFacts
  <2>11. SendIntegrity'
    BY <2>1, <2>6, <2>10 DEF SendIntegrity
  <2>12. QED
    BY <1>1, <2>9, <2>11 DEF IntegrityInv
<1>5. QED
  BY <1>3, <1>4

LEMMA WriteHandlerStep ==
  ASSUME ~StrandRequired, TypeOK, HeadInExecution, OpKinds, SingleThreadInv, WriteInv, IntegrityInv,
         NEW t \in IoThreads, HandlerStep(t)
  PROVE  WriteInv' /\ IntegrityInv'
<1> USE DEF sockVars, srvVars, appVars
<1>0. /\ ready \in Seq(Handler) /\ readOps \in Seq(Handler) /\ writeOps \in Seq(Handler)
      /\ session \in Nat /\ sbuf \in Nat
  BY DEF TypeOK, SockTypeOK
<1>1. ASSUME FinishHandler, ready # <<>>, app' = app, writeOps' = writeOps, ~started' \/ (started /\ sending' = sending),
             "SendAsync" \notin AppCalls => sbuf' = sbuf \/ writeOps' = <<>>
      PROVE  WriteInv' /\ IntegrityInv'
  <2>1. /\ step' = "begin"
        /\ InSeq(SendsToCome', "send") => InSeq(SendsToCome, "send")
        /\ AtMostOne(SendsToCome, "send") => AtMostOne(SendsToCome', "send")
    BY <1>1, SendsEnded
  <2>2. app' = "send_start" /\ started' => sending'
    BY <1>1 DEF WriteInv
  <2>3. WriteInv'
    BY <1>1, <2>1, <2>2, WritesKept DEF InSendAsync
  <2>4. IntegrityInv'
    BY <1>1, <2>1, IntegrityKept
  <2>5. QED
    BY <2>3, <2>4
<1>2. CASE StartHandlerIgnored(t) \/ StopHandlerIgnored(t) \/ SendHandlerStopped(t)
  <2>1. /\ FinishHandler /\ app' = app /\ writeOps' = writeOps /\ sbuf' = sbuf
        /\ started' = started /\ sending' = sending
    BY <1>2 DEF StartHandlerIgnored, StopHandlerIgnored, SendHandlerStopped
  <2>2. ready # <<>>
    BY <1>2 DEF StartHandlerIgnored, StopHandlerIgnored, SendHandlerStopped, Begins, Continues, HeadInExecution
  <2>3. QED
    BY <1>1, <2>1, <2>2
<1>3. CASE StartHandlerThrows(t) \/ ReceiveHandlerStopped(t)
  <2>1. /\ FinishHandler /\ ready # <<>> /\ app' = app /\ writeOps' = writeOps /\ sbuf' = sbuf /\ ~started'
    BY <1>3 DEF StartHandlerThrows, ReceiveHandlerStopped, Begins
  <2>2. QED
    BY <1>1, <2>1
<1>4. CASE StopHandlerClear(t)
  <2>1. /\ FinishHandler /\ ready # <<>> /\ app' = app /\ writeOps' = writeOps /\ ~started /\ ~started'
    BY <1>4 DEF StopHandlerClear, Continues, HeadInExecution
  <2>2. writeOps = <<>>
    BY <2>1 DEF SingleThreadInv, PendingInv
  <2>3. QED
    BY <1>1, <2>1, <2>2
<1>5. CASE StartHandler(t)
  <2>1. /\ ready # <<>> /\ Head(ready).h = "start" /\ ~started /\ FinishHandler /\ step = "begin"
        /\ app' = app /\ started' = TRUE
        /\ Callback(receiving, SockBuf, sending, sbuf, session + 1)
    BY <1>5 DEF StartHandler, Begins
  <2>2. writeOps = <<>>
    BY <2>1 DEF SingleThreadInv, PendingInv
  <2>3. ~InSeq(ready, "send")
    BY ZenonT(30), <1>0, <2>1, TailOrder DEF SingleThreadInv, OrderInv
  <2>4. NoSend
    BY <2>1, <2>2, <2>3 DEF NoSend, SendsToCome
  <2>5. InSeq(ready, "start")
    BY <1>0, <2>1, InSeqTail
  <2>6. app # "send_start"
    BY <2>1, <2>5 DEF SingleThreadInv, OrderInv, InSendAsync
  <2>7. session + 1 \in Nat
    BY <1>0
  <2>8. QED
    BY SMTT(30), <1>0, <2>1, <2>2, <2>4, <2>6, <2>7, CallbackWrites
<1>6. CASE ReceiveHandler(t)
  <2>1. /\ Callback(FALSE, rbuf, sending, sbuf, session) /\ started
        /\ FinishHandler /\ ready # <<>> /\ app' = app /\ started' = started
    BY ZenonT(30), <1>6 DEF ReceiveHandler, Begins
  <2>2. (~sending => NoSend) /\ (app = "send_start" => sending) /\ started' = TRUE
    BY <2>1 DEF WriteInv, TypeOK
  <2>3. QED
    BY ZenonT(30), <1>0, <2>1, <2>2, CallbackWrites
<1>7. CASE SendHandlerRest(t)
  <2> DEFINE sb == IF SentSomething(Head(ready)) THEN 0 ELSE sbuf
  <2>1. FinishHandler /\ ready # <<>> /\ started /\ step = "sent" /\ app' = app /\ started' = started
    BY <1>7 DEF SendHandlerRest, Continues, HeadInExecution
  <2>2. sb \in Nat
    BY <1>0
  <2>3. \/ UNCHANGED <<sending, sbuf, writeOps>>
        \/ Callback(receiving, rbuf, sending, sb, session)
    BY <1>7 DEF SendHandlerRest
  <2>4. (~sending => NoSend) /\ (app = "send_start" => sending) /\ started' = TRUE
    BY <2>1 DEF WriteInv, TypeOK
  <2>5. "SendAsync" \notin AppCalls => writeOps = <<>>
    BY <2>1 DEF IntegrityInv
  <2> HIDE DEF sb
  <2>6. CASE UNCHANGED <<sending, sbuf, writeOps>>
    BY <1>1, <2>1, <2>6
  <2>7. CASE Callback(receiving, rbuf, sending, sb, session)
    BY SMTT(30), <1>0, <2>1, <2>2, <2>4, <2>5, <2>7, CallbackWrites
  <2>8. QED
    BY <2>3, <2>6, <2>7
<1>8. CASE StopHandlerClose(t)
  <2>1. /\ step = "begin" /\ step' = "stop_flag" /\ Complete(ready, AbortedOps)
        /\ writeOps' = <<>> /\ UNCHANGED <<started, sending, app, sbuf>>
    BY SMTT(30), <1>8 DEF StopHandlerClose, Begins, EnterStep
  <2>2. /\ AbortAll(readOps) \in Seq(Handler) /\ AbortAll(writeOps) \in Seq(Handler) /\ AbortedOps \in Seq(Handler)
        /\ Len(AbortAll(writeOps)) = Len(writeOps)
    BY <1>0, AbortAllFacts, ConcatProperties DEF AbortedOps
  <2>3. ready' = ready \o AbortedOps
    BY <2>1 DEF Complete
  <2>4. SendsToCome' = SendsToCome \o AbortedOps /\ SendsToCome \in Seq(Handler)
    BY SMTT(30), <2>1, <2>2, <2>3, SendsGrow, SendsTyped
  <2>5. ~InSeq(AbortAll(readOps), "send")
    <3>1. ~InSeq(readOps, "send")
      BY DEF OpKinds, InSeq
    <3>2. QED
      BY <1>0, <3>1, InSeqAbort
  <2>6. IntegrityInv'
    BY <2>1, IntegrityKept
  <2>7. CASE writeOps = <<>>
    <3>1. ~InSeq(AbortAll(writeOps), "send")
      BY ZenonT(30), <1>0, <2>7, InSeqAbort, InSeqEmpty
    <3>2. ~InSeq(AbortedOps, "send")
      BY <2>2, <2>5, <3>1, InSeqConcat DEF AbortedOps
    <3>3. /\ InSeq(SendsToCome', "send") => InSeq(SendsToCome, "send")
          /\ AtMostOne(SendsToCome, "send") => AtMostOne(SendsToCome', "send")
      BY ZenonT(30), <2>2, <2>4, <3>2, InSeqConcat, ConcatOrder
    <3>4. WriteInv'
      BY SMTT(30), <2>1, <2>7, <3>3, WritesKept DEF InSendAsync, WriteInv
    <3>5. QED
      BY <2>6, <3>4
  <2>8. CASE writeOps # <<>>
    <3>1. ~InSeq(SendsToCome, "send") /\ Len(writeOps) <= 1
      BY <2>8 DEF WriteInv
    <3>2. AtMostOne(AbortAll(writeOps), "send")
      BY <2>2, <3>1, SmallOrder
    <3>3. AtMostOne(AbortedOps, "send")
      BY <2>2, <2>5, <3>2, ConcatOrder DEF AbortedOps
    <3>4. AtMostOne(SendsToCome', "send")
      BY ZenonT(30), <2>2, <2>4, <3>1, <3>3, ConcatOrder
    <3>5. WriteInv'
      BY <2>1, <2>8, <3>4, WriteDone
    <3>6. QED
      BY <2>6, <3>5
  <2>9. QED
    BY <2>7, <2>8
<1>9. CASE StopHandlerFlag(t)
  <2>1. /\ step = "stop_flag" /\ step' = "stop_clear" /\ started' = FALSE
        /\ UNCHANGED <<ready, writeOps, sending, sbuf, app>>
    BY <1>9 DEF StopHandlerFlag, Continues, EnterStep
  <2>2. SendsToCome' = SendsToCome
    BY <2>1 DEF SendsToCome
  <2>3. WriteInv'
    BY <2>1, <2>2, WritesKept DEF InSendAsync
  <2>4. QED
    BY <2>1, <2>3, IntegrityKept
<1>10. CASE SendHandlerFlag(t)
  <2>1. /\ step = "begin" /\ step' = "sent" /\ sending' = FALSE /\ ready # <<>> /\ Head(ready).h = "send"
        /\ UNCHANGED <<ready, writeOps, started, sbuf, app>>
    BY <1>10 DEF SendHandlerFlag, Begins, EnterStep
  <2>2. SendsToCome = ready /\ SendsToCome' = Tail(ready)
    BY <2>1 DEF SendsToCome
  <2>3. InSeq(ready, "send")
    BY <1>0, <2>1, InSeqTail
  <2>4. ~NoSend /\ writeOps = <<>>
    BY SMTT(30), <2>2, <2>3 DEF NoSend, WriteInv
  <2>5. ~InSeq(SendsToCome', "send")
    BY SMTT(30), <1>0, <2>1, <2>2, TailOrder DEF WriteInv
  <2>6. AtMostOne(SendsToCome', "send")
    BY <1>0, <2>1, <2>2, TailOrder DEF WriteInv
  <2>7. app # "send_start"
    BY SMTT(30), <2>4 DEF WriteInv, InSendAsync
  <2>8. WriteInv'
    <3>1. NoSend' /\ Len(writeOps') <= 1
      BY <2>1, <2>4, <2>5 DEF NoSend, WriteInv
    <3>2. InSendAsync' => "SendAsync" \in AppCalls
      BY <2>1 DEF InSendAsync, WriteInv
    <3>3. QED
      BY <2>1, <2>6, <2>7, <3>1, <3>2 DEF WriteInv, NoSend
  <2>9. QED
    BY <2>1, <2>4, <2>8, IntegrityKept
<1>11. QED
  BY SMTT(30), <1>2, <1>3, <1>4, <1>5, <1>6, <1>7, <1>8, <1>9, <1>10 DEF HandlerStep

LEMMA WriteOtherStep ==
  ASSUME ~StrandRequired, TypeOK, HeadInExecution, OpKinds, SingleThreadInv, WriteInv, IntegrityInv, OtherStep
  PROVE  WriteInv' /\ IntegrityInv'
<1> USE DEF execVars, sockVars, srvVars, appVars
<1>0. /\ ready \in Seq(Handler) /\ readOps \in Seq(Handler) /\ writeOps \in Seq(Handler)
      /\ session \in Nat /\ sbuf \in Nat /\ msg \in Nat
  BY DEF TypeOK, SockTypeOK
<1>1. ASSUME NEW t \in IoThreads, PopCompletion(t) \/ Dispatch(t)
      PROVE  FALSE
  BY <1>1 DEF PopCompletion, Dispatch, SingleThreadInv, OrderInv
<1>2. ASSUME UNCHANGED <<ready, step, writeOps, started>>,
             sending' = sending \/ (sending' = TRUE /\ app = "send_flag"),
             InSendAsync' => InSendAsync \/ (started /\ ~sending /\ "SendAsync" \in AppCalls),
             app' = "send_start" => sending',
             sbuf' = sbuf \/ InSendAsync
      PROVE  WriteInv' /\ IntegrityInv'
  <2>1. SendsToCome' = SendsToCome
    BY <1>2 DEF SendsToCome
  <2>2. WriteInv'
    BY <1>2, <2>1, WritesKept
  <2>3. "SendAsync" \notin AppCalls => sbuf' = sbuf
    BY <1>2 DEF WriteInv
  <2>4. QED
    BY <1>2, <2>2, <2>3, IntegrityKept
<1>3. CASE AppStart \/ AppStop \/ AppMulticast \/ AppRestartSpin \/ AppRestartCheck \/ AppMulticastSend
  <2>1. /\ UNCHANGED <<ready, step, writeOps, started, sending, sbuf>>
        /\ app' \notin {"send_assign", "send_flag", "send_start"}
    BY <1>3 DEF AppStart, AppStop, AppMulticast, AppRestartSpin, AppRestartCheck, AppMulticastSend, Goto
  <2>2. QED
    BY SMTT(30), <1>2, <2>1 DEF InSendAsync
<1>4. CASE AppSendAsync
  <2>1. /\ UNCHANGED <<ready, step, writeOps, started, sending, sbuf>>
        /\ app' = "send_assign" /\ started /\ ~sending /\ "SendAsync" \in AppCalls
    BY <1>4 DEF AppSendAsync, Goto
  <2>2. QED
    BY <1>2, <2>1
<1>5. CASE AppSendAssign
  <2>1. /\ UNCHANGED <<ready, step, writeOps, started, sending>>
        /\ app = "send_assign" /\ app' = "send_flag"
    BY <1>5 DEF AppSendAssign, Goto
  <2>2. QED
    BY <1>2, <2>1 DEF InSendAsync
<1>6. CASE AppSendFlag
  <2>1. /\ UNCHANGED <<ready, step, writeOps, started, sbuf>> /\ sending' = TRUE
        /\ app = "send_flag" /\ app' = "send_start"
    BY <1>6 DEF AppSendFlag, Goto
  <2>2. QED
    BY <1>2, <2>1 DEF InSendAsync
<1>7. ASSUME NEW x \in Seq(Handler), ready' = ready \o x, ~InSeq(x, "send"),
             UNCHANGED <<step, writeOps, started, sending, sbuf>>,
             app' = app \/ app' \in {"idle", "restart_spin"}
      PROVE  WriteInv' /\ IntegrityInv'
  <2>1. SendsToCome' = SendsToCome \o x /\ SendsToCome \in Seq(Handler)
    BY ZenonT(30), <1>7, SendsGrow, SendsTyped
  <2>2. /\ InSeq(SendsToCome', "send") => InSeq(SendsToCome, "send")
        /\ AtMostOne(SendsToCome, "send") => AtMostOne(SendsToCome', "send")
    BY ZenonT(30), <1>7, <2>1, InSeqConcat, ConcatOrder
  <2>3. WriteInv'
    BY <1>7, <2>2, WritesKept DEF InSendAsync, WriteInv
  <2>4. QED
    BY <1>7, <2>3, IntegrityKept
<1>8. CASE AppStartPost \/ AppStopPost
  <2>1. PICK k \in {"start", "stop"} : Post(ready, <<PostedHandler(k)>>)
    BY <1>8 DEF AppStartPost, AppStopPost
  <2>2. PostedHandler(k) \in Handler /\ PostedHandler(k).h = k
    BY PostedHandlerFacts DEF Kinds
  <2>3. <<PostedHandler(k)>> \in Seq(Handler) /\ ~InSeq(<<PostedHandler(k)>>, "send")
    BY <2>2, InSeqSingle
  <2>4. ready' = ready \o <<PostedHandler(k)>>
    BY <2>1 DEF Post
  <2>5. UNCHANGED <<step, writeOps, started, sending, sbuf>> /\ app' \in {"idle", "restart_spin"}
    BY <1>8 DEF AppStartPost, AppStopPost, Goto
  <2>6. QED
    BY ZenonT(30), <1>7, <2>3, <2>4, <2>5
<1>9. CASE KernelReceive
  <2>1. /\ UNCHANGED <<step, writeOps, started, sending, sbuf, app>> /\ readOps # <<>>
        /\ \E r \in Results, n \in Nat : Complete(ready, <<Finished(Head(readOps), r, n)>>)
    <3>1. UNCHANGED <<step, writeOps, started, sending, sbuf, app>> /\ readOps # <<>>
      BY ZenonT(30), <1>9 DEF KernelReceive, KernelReceives, KernelFailsReceive
    <3>2. Head(readOps).buf \in Nat
      <4>1. Head(readOps) \in Handler
        BY <1>0, <3>1, HeadTailProperties
      <4>2. QED
        BY <4>1 DEF Handler
    <3>3. ASSUME KernelFailsReceive
          PROVE  \E r \in Results, n \in Nat : Complete(ready, <<Finished(Head(readOps), r, n)>>)
      <4>1. "error" \in Results /\ 0 \in Nat
        BY DEF Results
      <4>2. Complete(ready, <<Finished(Head(readOps), "error", 0)>>)
        BY <3>3 DEF KernelFailsReceive
      <4>3. QED
        BY <4>1, <4>2
    <3>4. ASSUME NEW d \in Datagrams, KernelReceives(d)
          PROVE  \E r \in Results, n \in Nat : Complete(ready, <<Finished(Head(readOps), r, n)>>)
      <4> DEFINE got == IF d < Head(readOps).buf THEN d ELSE Head(readOps).buf
      <4>1. got \in Nat /\ "ok" \in Results
        BY <3>2, SizesAssumption DEF Results
      <4>2. Complete(ready, <<Finished(Head(readOps), "ok", got)>>)
        BY <3>4 DEF KernelReceives
      <4> HIDE DEF got
      <4>3. QED
        BY <4>1, <4>2
    <3>5. QED
      BY <1>9, <3>1, <3>3, <3>4 DEF KernelReceive
  <2>2. PICK r \in Results, n \in Nat : Complete(ready, <<Finished(Head(readOps), r, n)>>)
    BY SMTT(30), <2>1
  <2> DEFINE c == Finished(Head(readOps), r, n)
  <2>3. Head(readOps) \in Handler /\ Head(readOps).h = "recv"
    BY SMTT(30), <1>0, <2>1, TailParts, HeadTailProperties DEF OpKinds
  <2>4. c \in Handler /\ c.h = "recv"
    BY <2>3, FinishedFacts
  <2>5. ready' = ready \o <<c>>
    BY <2>2 DEF Complete
  <2> HIDE DEF c
  <2>6. <<c>> \in Seq(Handler) /\ ~InSeq(<<c>>, "send")
    BY <2>4, InSeqSingle
  <2>7. QED
    BY ZenonT(30), <1>7, <2>1, <2>5, <2>6
<1>10. ASSUME NEW c \in Handler, ready' = ready \o <<c>>
       PROVE  /\ SendsToCome' = SendsToCome \o <<c>> \/ ~(step' = step)
              /\ step' = step /\ ~InSeq(SendsToCome, "send") => AtMostOne(SendsToCome', "send")
  <2>1. <<c>> \in Seq(Handler) /\ AtMostOne(<<c>>, "send")
    BY DEF AtMostOne
  <2>2. step' = step => SendsToCome' = SendsToCome \o <<c>> /\ SendsToCome \in Seq(Handler)
    BY ZenonT(30), <1>10, <2>1, SendsGrow, SendsTyped
  <2>3. QED
    BY ZenonT(30), <2>1, <2>2, ConcatOrder
<1>11. CASE KernelSend
  <2>1. PICK r \in {"ok", "error"} : KernelSends(r)
    BY SMTT(30), <1>11 DEF KernelSend
  <2>2. /\ UNCHANGED <<step, started, sending, sbuf, app>> /\ writeOps # <<>> /\ writeOps' = Tail(writeOps)
        /\ Complete(ready, <<Finished(Head(writeOps), r, Head(writeOps).n)>>)
    BY <1>11, <2>1 DEF KernelSend, KernelSends
  <2> DEFINE c == Finished(Head(writeOps), r, Head(writeOps).n)
  <2>3. c \in Handler
    <3>1. Head(writeOps) \in Handler /\ r \in Results
      BY <1>0, <2>2, HeadTailProperties DEF Results
    <3>2. Head(writeOps).n \in Nat
      BY <3>1 DEF Handler
    <3>3. QED
      BY SMTT(30), <3>1, <3>2, FinishedFacts
  <2>4. ready' = ready \o <<c>>
    BY <2>2 DEF Complete
  <2> HIDE DEF c
  <2>5. writeOps' = <<>>
    <3>1. Len(Tail(writeOps)) = 0 /\ Tail(writeOps) \in Seq(Handler)
      BY SMTT(30), <1>0, <2>2, TailParts, HeadTailProperties DEF WriteInv
    <3>2. QED
      BY SMTT(30), <2>2, <3>1, EmptySeq
  <2>6. AtMostOne(SendsToCome', "send")
    BY SMTT(30), <1>10, <2>2, <2>3, <2>4 DEF WriteInv
  <2>7. WriteInv'
    BY SMTT(30), <2>2, <2>5, <2>6, WriteDone
  <2>8. QED
    BY <2>2, <2>5, <2>7, IntegrityKept
<1>12. CASE AppSendStart
  <2> DEFINE op == SendOp(sbuf, msg, session)
             c == Finished(op, "error", msg)
  <2>1. op \in Handler /\ c \in Handler
    <3>1. op \in Handler
      BY <1>0, SendOpFacts
    <3>2. "error" \in Results
      BY DEF Results
    <3>3. QED
      BY SMTT(30), <1>0, <3>1, <3>2, FinishedFacts
  <2>2. /\ UNCHANGED <<step, socket, started, sending, sbuf>> /\ app = "send_start" /\ app' = "idle"
    BY <1>12 DEF AppSendStart, Goto
  <2>3. InSendAsync /\ ~InSendAsync' /\ NoSend /\ "SendAsync" \in AppCalls
    BY <2>2 DEF InSendAsync, WriteInv
  <2>4. IntegrityInv'
    BY <2>3 DEF IntegrityInv
  <2>5. CASE socket = "open"
    <3>1. writeOps' = Append(writeOps, op) /\ ready' = ready
      BY <1>12, <2>5 DEF AppSendStart
    <3>2. started /\ sending
      BY <2>2, <2>3, <2>5 DEF SingleThreadInv, PendingInv, WriteInv
    <3> HIDE DEF op
    <3>3. writeOps' = <<op>>
      BY <2>3, <3>1 DEF NoSend
    <3>4. Len(writeOps') = 1
      BY <3>3
    <3>5. SendsToCome' = SendsToCome
      BY SMTT(30), <2>2, <3>1 DEF SendsToCome
    <3>6. WriteInv'
      BY SMTT(30), <2>2, <2>3, <3>2, <3>4, <3>5 DEF WriteInv, NoSend
    <3>7. QED
      BY <2>4, <3>6
  <2>6. CASE socket = "closed"
    <3>1. Complete(ready, <<c>>) /\ writeOps' = writeOps
      BY <1>12, <2>6 DEF AppSendStart
    <3>2. ready' = ready \o <<c>>
      BY <3>1 DEF Complete
    <3> HIDE DEF c, op
    <3>3. AtMostOne(SendsToCome', "send") /\ writeOps' = <<>>
      BY SMTT(30), <1>10, <2>1, <2>2, <2>3, <3>1, <3>2 DEF NoSend
    <3>4. Len(writeOps') <= 1
      BY <3>3
    <3>5. ~started' \/ sending'
      BY SMTT(30), <2>2 DEF WriteInv
    <3>6. WriteInv'
      BY <2>2, <2>3, <3>3, <3>4, <3>5 DEF WriteInv
    <3>7. QED
      BY <2>4, <3>6
  <2>7. QED
    BY SMTT(30), <2>5, <2>6 DEF TypeOK, SockTypeOK
<1>13. QED
  BY SMTT(30), <1>1, <1>3, <1>4, <1>5, <1>6, <1>8, <1>9, <1>11, <1>12 DEF OtherStep, AppBegins, AppContinues

(***************************************************************************)
(* In the mode without a strand, whoever calls SendAsync: what the pending *)
(* sends, _sending and the send buffer have to do with one another.        *)
(***************************************************************************)
THEOREM SendInvariant ==
  ASSUME ~StrandRequired
  PROVE  Spec => [](WriteInv /\ IntegrityInv)
<1> DEFINE Inv == WriteInv /\ IntegrityInv
<1>1. Init => Inv
  <2> SUFFICES ASSUME Init PROVE Inv
    OBVIOUS
  <2>1. /\ ready = <<>> /\ writeOps = <<>> /\ step = "begin" /\ started = FALSE /\ app = "idle"
    BY DEF Init, ExecInit, SockInit
  <2>2. WriteInv
    BY <2>1 DEF WriteInv, SendsToCome, AtMostOne, InSendAsync
  <2>3. IntegrityInv
    BY <2>1 DEF IntegrityInv, SendIntegrity
  <2>4. QED
    BY <2>2, <2>3
<1>2. ASSUME TypeOK, HeadInExecution, FlagInv, SingleThreadInv, Inv, [Next]_vars PROVE Inv'
  <2>1. CASE UNCHANGED vars
    <3>1. UNCHANGED <<ready, step, writeOps, started, sending, sbuf, app>>
      BY <2>1 DEF vars, execVars, sockVars, srvVars, appVars
    <3>2. SendsToCome' = SendsToCome
      BY <3>1 DEF SendsToCome
    <3>3. WriteInv'
      BY <1>2, <3>1, <3>2 DEF WriteInv, NoSend, InSendAsync
    <3>4. IntegrityInv'
      BY <1>2, <3>1, IntegrityKept
    <3>5. QED
      BY <3>3, <3>4
  <2>2. CASE Next
    BY <1>2, <2>2, WriteHandlerStep, WriteOtherStep, NextIsHandlerOrOther DEF FlagInv
  <2>3. QED
    BY <1>2, <2>1, <2>2
<1>3. QED
  BY <1>1, <1>2, TypeCorrect, FlagInvariant, SingleThreadInvariant, PTL DEF Spec

(***************************************************************************)
(* At most one send is ever pending, although the application's thread     *)
(* tests _sending and sets it in separate steps.                           *)
(***************************************************************************)
THEOREM SingleThreadSends ==
  ASSUME ~StrandRequired
  PROVE  Spec => []OneSendInFlight
<1>1. WriteInv => OneSendInFlight
  BY DEF WriteInv, OneSendInFlight
<1>2. QED
  BY <1>1, SendInvariant, PTL

(***************************************************************************)
(* When only callbacks call SendAsync, a pending send keeps the bytes it   *)
(* was given until it completes.  The send handler clears _sending before  *)
(* it empties _send_buffer, which is safe on one thread only because no    *)
(* operation can be pending in between.                                    *)
(***************************************************************************)
THEOREM SendsKeepBytes ==
  ASSUME ~StrandRequired, "SendAsync" \notin AppCalls
  PROVE  Spec => []SendIntegrity
<1>1. IntegrityInv => SendIntegrity
  BY DEF IntegrityInv
<1>2. QED
  BY <1>1, SendInvariant, PTL
=============================================================================
