-------------------------- MODULE UDPClientProofs ---------------------------
(***************************************************************************)
(* Proofs about UDPClient for every value of its constants.                *)
(***************************************************************************)
EXTENDS UDPClient, AsioProofs

(***************************************************************************)
(* A handler in its later steps is still the head of "ready", and has      *)
(* cleared the flag its completion stands for: _sending of a send,         *)
(* _resolving of a lookup.                                                 *)
(***************************************************************************)
HeadInv ==
  step # "begin" => /\ ready # <<>>
                    /\ Head(ready).h = "send" => ~sending
                    /\ Head(ready).h = "resolved" => ~resolving

(***************************************************************************)
(* Nothing is pending from close() on, before _connected is cleared.       *)
(***************************************************************************)
QuietInv == ~connected \/ step = "close" => readOps = <<>> /\ writeOps = <<>>

WriteKinds == \A i \in 1..Len(writeOps) : writeOps[i].h = "send"

BackedInv == WriteKinds /\ NotMute /\ ResolvingBacked

LEMMA ClientInit == Init => TypeOK /\ HeadInv /\ QuietInv /\ BackedInv
<1> SUFFICES ASSUME Init PROVE TypeOK /\ HeadInv /\ QuietInv /\ BackedInv
  OBVIOUS
<1> USE DEF Init, ExecInit, SockInit
<1>1. SockTypeOK
  <2>1. <<>> \in Seq(Handler)
    BY EmptySeq
  <2>2. carried \in [IoThreads -> Handler \cup {NoHandler}]
    OBVIOUS
  <2>3. QED
    BY <2>1, <2>2 DEF SockTypeOK
<1>2. TypeOK
  BY ZenonT(30), <1>1 DEF TypeOK, AppAt
<1>3. QED
  BY <1>2 DEF HeadInv, QuietInv, BackedInv, WriteKinds, NotMute, ResolvingBacked
-----------------------------------------------------------------------------
(***************************************************************************)
(* What callbacks start.                                                   *)
(***************************************************************************)
LEMMA ReceiveStarted ==
  ASSUME readOps \in Seq(Handler), NEW rcv, NEW cap \in Nat, NEW s \in Nat, TryReceive(rcv, cap, s)
  PROVE  receiving' \in BOOLEAN /\ readOps' \in Seq(Handler)
BY RecvOpFacts DEF TryReceive

LEMMA SendStarted ==
  ASSUME writeOps \in Seq(Handler), WriteKinds, NEW snd \in BOOLEAN, NEW s \in Nat, SendAsync(snd, s)
  PROVE  /\ sending' \in BOOLEAN /\ writeOps' \in Seq(Handler)
         /\ WriteKinds'
         /\ writeOps # <<>> => writeOps' # <<>>
         /\ sending' => snd \/ writeOps' # <<>>
<1>1. CASE sending' = snd /\ UNCHANGED writeOps
  BY <1>1 DEF WriteKinds
<1>2. CASE sending' = TRUE /\ writeOps' = Append(writeOps, SendOp(1, 1, s))
  <2>1. SendOp(1, 1, s) \in Handler /\ SendOp(1, 1, s).h = "send"
    BY SendOpFacts
  <2>2. /\ writeOps' # <<>>
        /\ \A i \in 1..Len(writeOps') : writeOps'[i].h = "send"
    BY <1>2, <2>1, AppendedKind DEF WriteKinds
  <2>3. writeOps' \in Seq(Handler)
    BY <1>2, <2>1
  <2>4. QED
    BY <1>2, <2>2, <2>3 DEF WriteKinds
<1>3. QED
  BY ZenonT(30), <1>1, <1>2 DEF SendAsync

(***************************************************************************)
(* Connect(), whether it throws or not.                                    *)
(***************************************************************************)
LEMMA ConnectFacts ==
  ASSUME TypeOK, WriteKinds, NEW t \in IoThreads, (Connects /\ UNCHANGED alive) \/ ConnectThrows(t)
  PROVE  /\ alive' \in SUBSET IoThreads /\ socket' \in {"open", "closed"}
         /\ readOps' \in Seq(Handler) /\ writeOps' \in Seq(Handler) /\ session' \in Nat
         /\ connected' \in BOOLEAN /\ receiving' \in BOOLEAN /\ sending' \in BOOLEAN /\ rbuf' \in Nat
         /\ WriteKinds'
         /\ writeOps # <<>> => writeOps' # <<>>
         /\ sending' => sending \/ writeOps' # <<>>
         /\ connected' \/ (connected' = connected /\ UNCHANGED <<readOps, writeOps>>)
<1> USE DEF TypeOK, SockTypeOK
<1>0. SockBuf \in Nat /\ session + 1 \in Nat
  BY ClientAssumption
<1>1. CASE Connects /\ UNCHANGED alive
  <2>1. receiving' \in BOOLEAN /\ readOps' \in Seq(Handler)
    BY <1>0, <1>1, ReceiveStarted DEF Connects
  <2>2. /\ sending' \in BOOLEAN /\ writeOps' \in Seq(Handler)
        /\ WriteKinds'
        /\ writeOps # <<>> => writeOps' # <<>>
        /\ sending' => sending \/ writeOps' # <<>>
    BY <1>0, <1>1, SendStarted DEF Connects
  <2>3. QED
    BY SMTT(30), <1>0, <1>1, <2>1, <2>2 DEF Connects
<1>2. CASE ConnectThrows(t)
  BY ZenonT(30), <1>0, <1>2 DEF ConnectThrows, WriteKinds
<1>3. QED
  BY <1>1, <1>2

(***************************************************************************)
(* close() turns what was pending into completions.                        *)
(***************************************************************************)
LEMMA AbortedTyped ==
  ASSUME TypeOK
  PROVE  /\ AbortAll(readOps) \o AbortAll(writeOps) \in Seq(Handler)
         /\ WriteKinds /\ writeOps # <<>> => InSeq(AbortAll(readOps) \o AbortAll(writeOps), "send")
<1> USE DEF TypeOK, SockTypeOK
<1>1. AbortAll(readOps) \in Seq(Handler) /\ AbortAll(writeOps) \in Seq(Handler)
  BY AbortAllFacts
<1>2. WriteKinds /\ writeOps # <<>> => InSeq(AbortAll(writeOps), "send")
  BY InSeqNonEmpty, InSeqAbort DEF WriteKinds
<1>3. QED
  BY <1>1, <1>2, InSeqConcat, ConcatProperties

LEMMA ClosesFacts ==
  ASSUME TypeOK, NEW t \in IoThreads, ready # <<>>, Closes(t, readOps, writeOps)
  PROVE  /\ SockTypeOK' /\ step' = "close"
         /\ ready' # <<>> /\ Head(ready') = Head(ready)
<1> USE DEF TypeOK, SockTypeOK
<1> DEFINE cs == AbortAll(readOps) \o AbortAll(writeOps)
<1>1. cs \in Seq(Handler)
  BY AbortedTyped
<1>2. Complete(ready, cs)
  BY DEF Closes
<1> HIDE DEF cs
<1>3. ready' \in Seq(Handler) /\ queue' \in Seq(Handler)
  BY SMTT(30), <1>1, <1>2, CompleteTyped
<1>4. ready' # <<>> /\ Head(ready') = Head(ready)
  BY SMTT(30), <1>1, <1>2, HeadKept DEF Complete
<1>5. QED
  BY <1>3, <1>4 DEF Closes, EnterStep
-----------------------------------------------------------------------------
(***************************************************************************)
(* The steps of handlers.                                                  *)
(***************************************************************************)
LEMMA TypeHandlerStep ==
  ASSUME TypeOK, HeadInv, WriteKinds, NEW t \in IoThreads, HandlerStep(t)
  PROVE  TypeOK'
<1> USE DEF TypeOK, SockTypeOK, sockVars, cltVars, appVars
<1>1. CASE \/ ConnectHandlerIgnored(t) \/ ResolveHandlerIgnored(t) \/ ResolvedHandlerIgnored(t)
           \/ DisconnectHandlerIgnored(t) \/ ReceiveHandlerStopped(t) \/ ResolveHandler(t)
  <2>1. /\ ready # <<>> /\ FinishHandler
        /\ UNCHANGED <<queue, carried, alive, socket, readOps, writeOps, session>>
        /\ UNCHANGED <<connected, sending, rbuf, stop, app>>
    BY <1>1 DEF ConnectHandlerIgnored, ResolveHandlerIgnored, ResolvedHandlerIgnored,
                DisconnectHandlerIgnored, ReceiveHandlerStopped, ResolveHandler, Begins
  <2>2. lookups' \in Nat
    BY <1>1 DEF ConnectHandlerIgnored, ResolveHandlerIgnored, ResolvedHandlerIgnored,
                DisconnectHandlerIgnored, ReceiveHandlerStopped, ResolveHandler
  <2>3. resolving' \in BOOLEAN
    BY ZenonT(30), <1>1 DEF ConnectHandlerIgnored, ResolveHandlerIgnored, ResolvedHandlerIgnored,
                DisconnectHandlerIgnored, ReceiveHandlerStopped, ResolveHandler
  <2>4. receiving' \in BOOLEAN
    BY ZenonT(30), <1>1 DEF ConnectHandlerIgnored, ResolveHandlerIgnored, ResolvedHandlerIgnored,
                DisconnectHandlerIgnored, ReceiveHandlerStopped, ResolveHandler
  <2>5. SockTypeOK' /\ step' = "begin"
    BY <2>1, FinishHandlerFacts
  <2> HIDE DEF SockTypeOK
  <2>6. QED
    BY SMTT(30), <2>1, <2>2, <2>3, <2>4, <2>5
<1>2. CASE ConnectHandler(t) \/ ResolvedHandler(t)
  <2>1. /\ (Connects /\ UNCHANGED alive) \/ ConnectThrows(t)
        /\ ready # <<>> /\ FinishHandler
        /\ UNCHANGED <<queue, carried, lookups, appVars>> /\ resolving' \in BOOLEAN
    BY ZenonT(30), <1>2 DEF ConnectHandler, ResolvedHandler, Begins
  <2>2. /\ alive' \in SUBSET IoThreads /\ socket' \in {"open", "closed"}
        /\ readOps' \in Seq(Handler) /\ writeOps' \in Seq(Handler) /\ session' \in Nat
        /\ connected' \in BOOLEAN /\ receiving' \in BOOLEAN /\ sending' \in BOOLEAN /\ rbuf' \in Nat
    BY <2>1, ConnectFacts
  <2>3. QED
    BY SMTT(30), <2>1, <2>2, FinishHandlerFacts
<1>3. CASE ResolvedHandlerFails(t) \/ DisconnectFlags(t)
  BY ZenonT(30), <1>3 DEF ResolvedHandlerFails, DisconnectFlags, EnterStep
<1>4. CASE OnDisconnected(t)
  <2>1. ready # <<>> /\ Tail(ready) \in Seq(Handler)
    BY <1>4, TailTyped DEF OnDisconnected, Continues, HeadInv
  <2>2. <<>> \in Seq(Handler) /\ <<PostedHandler("connect")>> \in Seq(Handler)
    BY SMTT(30), PostedHandlerFacts DEF Kinds
  <2>3. ready' \in Seq(Handler)
    BY <1>4, <2>1, <2>2, ConcatProperties DEF OnDisconnected, Post
  <2>4. QED
    BY <1>4, <2>3 DEF OnDisconnected, LeaveHandler
<1>5. CASE DisconnectHandler(t) \/ ReceiveHandlerFails(t) \/ SendHandlerFails(t)
  BY ZenonT(30), <1>5, ClosesFacts DEF DisconnectHandler, ReceiveHandlerFails, SendHandlerFails, Begins
<1>6. CASE ReceiveHandler(t)
  <2>1. receiving' \in BOOLEAN /\ readOps' \in Seq(Handler)
    BY ZenonT(30), <1>6, ReceiveStarted DEF ReceiveHandler
  <2>2. sending' \in BOOLEAN /\ writeOps' \in Seq(Handler)
    BY <1>6, SendStarted DEF ReceiveHandler
  <2>3. rbuf' \in Nat
    BY <1>6 DEF ReceiveHandler
  <2>4. QED
    BY SMTT(30), <1>6, <2>1, <2>2, <2>3, FinishHandlerFacts DEF ReceiveHandler, Begins
<1>7. CASE SendHandler(t)
  <2>1. sending' \in BOOLEAN /\ writeOps' \in Seq(Handler)
    BY ZenonT(30), <1>7, SendStarted DEF SendHandler
  <2>2. QED
    BY <1>7, <2>1, FinishHandlerFacts DEF SendHandler, Begins
<1>8. QED
  BY SMTT(30), <1>1, <1>2, <1>3, <1>4, <1>5, <1>6, <1>7 DEF HandlerStep

(***************************************************************************)
(* Every other step adds at most at the tail of "ready" and leaves the     *)
(* handler in execution and the flags alone.                               *)
(***************************************************************************)
OtherStep ==
  \/ \E t \in IoThreads :
       (PopCompletion(t) \/ Dispatch(t)) /\ UNCHANGED <<sockVars, cltVars, appVars>>
  \/ AppBegins
  \/ AppContinues
  \/ LookupDone
  \/ KernelSend
  \/ KernelReceive

LEMMA NextIsHandlerOrOther ==
  Next => OtherStep \/ \E t \in IoThreads : HandlerStep(t)
BY DEF Next, ThreadStep, OtherStep

(***************************************************************************)
(* The three ways a step that is not a handler's moves handlers: it takes  *)
(* none away.                                                              *)
(***************************************************************************)
Kept == \A k \in Kinds : CompletionOf(k) => CompletionOf(k)'

LEMMA AddedAtTail ==
  ASSUME SockTypeOK, NEW x \in Seq(Handler), ready' = ready \o x, UNCHANGED <<queue, carried>>
  PROVE  ready' \in Seq(Handler) /\ Kept
<1>1. ASSUME NEW k PROVE InSeq(ready, k) => InSeq(ready', k)
  BY InSeqConcat DEF SockTypeOK
<1>2. Kept
  BY <1>1, CompletionIs DEF Kept, Carries
<1>3. QED
  BY <1>2, ConcatProperties DEF SockTypeOK

LEMMA Completed ==
  ASSUME SockTypeOK, NEW cs \in Seq(Handler), Complete(ready, cs), UNCHANGED carried
  PROVE  /\ ready' \in Seq(Handler) /\ queue' \in Seq(Handler)
         /\ \E x \in Seq(Handler) : ready' = ready \o x
         /\ Kept
         /\ \A k \in Kinds : InSeq(cs, k) => CompletionOf(k)'
<1>0. <<>> \in Seq(Handler) /\ ready \o <<>> = ready
  BY EmptySeq, ConcatEmptySeq DEF SockTypeOK
<1>1. \E x \in Seq(Handler) : ready' = ready \o x
  <2>1. ready' = ready \o <<>> \/ ready' = ready \o cs
    BY <1>0 DEF Complete
  <2>2. QED
    BY ZenonT(30), <1>0, <2>1
<1>2. ASSUME NEW k PROVE /\ InSeq(queue, k) => InSeq(queue', k)
                         /\ InSeq(ready, k) => InSeq(ready', k)
                         /\ InSeq(cs, k) => InSeq(queue', k) \/ InSeq(ready', k)
  <2>1. /\ InSeq(queue \o cs, k) <=> InSeq(queue, k) \/ InSeq(cs, k)
        /\ InSeq(ready \o cs, k) <=> InSeq(ready, k) \/ InSeq(cs, k)
    BY InSeqConcat DEF SockTypeOK
  <2>2. QED
    BY <2>1 DEF Complete
<1>3. Kept /\ \A k \in Kinds : InSeq(cs, k) => CompletionOf(k)'
  BY <1>2, CompletionIs DEF Kept, Carries
<1>4. ready' \in Seq(Handler) /\ queue' \in Seq(Handler)
  BY CompleteTyped DEF SockTypeOK
<1>5. QED
  BY ZenonT(30), <1>1, <1>3, <1>4

LEMMA PoppedOrDispatched ==
  ASSUME SockTypeOK, NEW t \in IoThreads, PopCompletion(t) \/ Dispatch(t), UNCHANGED sockVars
  PROVE  SockTypeOK' /\ UNCHANGED <<step, alive>> /\ Kept /\ \E x \in Seq(Handler) : ready' = ready \o x
<1> USE DEF SockTypeOK, sockVars
<1>1. CASE PopCompletion(t)
  <2>1. Head(queue) \in Handler /\ Tail(queue) \in Seq(Handler)
    BY <1>1, HeadTailProperties DEF PopCompletion
  <2>2. SockTypeOK' /\ UNCHANGED <<step, alive>>
    BY <1>1, <2>1 DEF PopCompletion
  <2>3. Kept
    BY <1>1, PopKeeps, CompletionIs DEF Kept
  <2>4. <<>> \in Seq(Handler) /\ ready' = ready \o <<>>
    BY <1>1, ConcatEmptySeq DEF PopCompletion
  <2>5. QED
    BY ZenonT(30), <2>2, <2>3, <2>4
<1>2. CASE Dispatch(t)
  <2>1. carried[t] \in Handler
    BY <1>2 DEF Dispatch
  <2>2. ready' \in Seq(Handler) /\ <<carried[t]>> \in Seq(Handler) /\ ready' = ready \o <<carried[t]>>
    BY SMTT(30), <1>2, <2>1, AppendProperties, AppendIsConcat DEF Dispatch
  <2>3. SockTypeOK' /\ UNCHANGED <<step, alive>>
    BY <1>2, <2>2 DEF Dispatch
  <2>4. ASSUME NEW k PROVE CompletionOf(k) => CompletionOf(k)'
    <3>1. PICK c \in Handler : ready' = ready \o <<c>> /\ (c.h = k \/ (Carries(k) => Carries(k)'))
      BY ZenonT(30), <1>2, DispatchKeeps
    <3>2. InSeq(ready', k) <=> InSeq(ready, k) \/ c.h = k
      <4>1. <<c>> \in Seq(Handler) /\ (InSeq(<<c>>, k) <=> c.h = k)
        BY InSeqSingle
      <4>2. QED
        BY ZenonT(30), <3>1, <4>1, InSeqConcat
    <3>3. queue' = queue
      BY <1>2 DEF Dispatch
    <3>4. QED
      BY SMTT(30), <3>1, <3>2, <3>3, CompletionIs
  <2>5. QED
    BY ZenonT(30), <2>2, <2>3, <2>4 DEF Kept
<1>3. QED
  BY ZenonT(30), <1>1, <1>2

LEMMA ReceiveFinishes ==
  ASSUME TypeOK, KernelReceive
  PROVE  \E r \in Results, k \in Nat : Complete(ready, <<Finished(Head(readOps), r, k)>>)
<1>1. CASE KernelFailsReceive
  BY <1>1 DEF KernelFailsReceive, Results
<1>2. ASSUME NEW d \in Datagrams, KernelReceives(d)
      PROVE  \E r \in Results, k \in Nat : Complete(ready, <<Finished(Head(readOps), r, k)>>)
  <2> DEFINE got == IF d < Head(readOps).buf THEN d ELSE Head(readOps).buf
  <2>1. Head(readOps) \in Handler
    BY <1>2, HeadTailProperties DEF KernelReceives, TypeOK, SockTypeOK
  <2>2. got \in Nat
    BY <2>1, ClientAssumption DEF Handler
  <2>3. Complete(ready, <<Finished(Head(readOps), "ok", got)>>)
    BY SMTT(30), <1>2 DEF KernelReceives
  <2> HIDE DEF got
  <2>4. QED
    BY <2>2, <2>3 DEF Results
<1>3. QED
  BY <1>1, <1>2 DEF KernelReceive

Untouched == UNCHANGED <<step, alive, connected, resolving, receiving, sending>>

Backed ==
  /\ writeOps # <<>> \/ CompletionOf("send") => (writeOps # <<>> \/ CompletionOf("send"))'
  /\ lookups > 0 \/ CompletionOf("resolved") => (lookups > 0 \/ CompletionOf("resolved"))'

OpsShrink == (readOps = <<>> => readOps' = <<>>) /\ (writeOps = <<>> => writeOps' = <<>>)

LEMMA OtherStepFacts ==
  ASSUME TypeOK, WriteKinds, OtherStep
  PROVE  /\ TypeOK' /\ WriteKinds' /\ Untouched /\ Backed /\ OpsShrink /\ Kept
         /\ \E x \in Seq(Handler) : ready' = ready \o x
<1> USE DEF TypeOK, SockTypeOK, execVars, sockVars, cltVars, appVars, Untouched, OpsShrink
<1> DEFINE Tailed == \E x \in Seq(Handler) : ready' = ready \o x
           Goal == TypeOK' /\ WriteKinds' /\ Untouched /\ Backed /\ OpsShrink /\ Kept /\ Tailed
<1>0. <<>> \in Seq(Handler) /\ ready \o <<>> = ready
  BY ConcatEmptySeq
<1>a. "send" \in Kinds /\ "resolved" \in Kinds
  BY DEF Kinds
<1>1. ASSUME NEW t \in IoThreads, PopCompletion(t) \/ Dispatch(t), UNCHANGED <<sockVars, cltVars, appVars>>
      PROVE  Goal
  <2>1. SockTypeOK' /\ UNCHANGED <<step, alive>> /\ Kept /\ Tailed
    BY SMTT(30), <1>1, PoppedOrDispatched
  <2>2. QED
    BY ZenonT(30), <1>1, <1>a, <2>1 DEF WriteKinds, Kept, Backed
<1>2. ASSUME UNCHANGED <<execVars, sockVars, cltVars>>, stop' \in BOOLEAN, app' \in AppAt
      PROVE  Goal
  <2>1. Kept
    BY <1>2 DEF Kept, CompletionOf
  <2>2. QED
    BY ZenonT(30), <1>0, <1>2, <1>a, <2>1 DEF WriteKinds, Kept, Backed
<1>3. CASE AppBegins
  BY ZenonT(30), <1>2, <1>3 DEF AppBegins, AppConnect, AppResolve, AppReconnect, AppStop, Goto, AppAt
<1>4. CASE AppReconnectSpin \/ AppReconnectCheck \/ AppStopTest \/ AppStopSpin
  BY ZenonT(30), <1>2, <1>4 DEF AppReconnectSpin, AppReconnectCheck, AppStopTest, AppStopSpin, Goto, AppAt
<1>5. CASE AppConnectPost \/ AppResolvePost \/ AppDisconnectPost
  <2>1. PICK k \in {"connect", "resolve", "disconnect"} : AppPosts(k)
    BY <1>5 DEF AppConnectPost, AppResolvePost, AppDisconnectPost
  <2>2. <<PostedHandler(k)>> \in Seq(Handler)
    BY PostedHandlerFacts DEF Kinds
  <2>3. ready' = ready \o <<PostedHandler(k)>>
    BY <2>1 DEF AppPosts, Post
  <2>4. ready' \in Seq(Handler) /\ Kept
    BY ZenonT(30), <2>1, <2>2, <2>3, AddedAtTail DEF AppPosts
  <2>5. app' \in AppAt
    BY <1>5 DEF AppConnectPost, AppResolvePost, AppDisconnectPost, Goto, AppAt
  <2>6. QED
    BY ZenonT(30), <1>a, <2>1, <2>2, <2>3, <2>4, <2>5 DEF AppPosts, WriteKinds, Kept, Backed
<1>6. CASE AppCancel
  <2>1. AbortedOps \in Seq(Handler) /\ (writeOps # <<>> => InSeq(AbortedOps, "send"))
    BY AbortedTyped DEF AbortedOps
  <2>2. /\ ready' \in Seq(Handler) /\ queue' \in Seq(Handler)
        /\ Tailed /\ Kept
        /\ InSeq(AbortedOps, "send") => CompletionOf("send")'
    BY ZenonT(30), <1>6, <1>a, <2>1, Completed DEF AppCancel
  <2>3. app' \in AppAt
    BY <1>6 DEF AppCancel, Goto, AppAt
  <2>4. QED
    BY SMTT(30), <1>6, <1>a, <2>1, <2>2, <2>3 DEF AppCancel, WriteKinds, Kept, Backed
<1>7. CASE LookupDone
  <2>1. PICK r \in {"ok", "error"} : Complete(ready, <<Finished(PostedHandler("resolved"), r, 0)>>)
    BY <1>7 DEF LookupDone
  <2> DEFINE c == Finished(PostedHandler("resolved"), r, 0)
  <2>2. c \in Handler /\ c.h = "resolved"
    <3>1. PostedHandler("resolved") \in Handler /\ PostedHandler("resolved").h = "resolved"
      BY <1>a, PostedHandlerFacts
    <3>2. r \in Results
      BY DEF Results
    <3>3. QED
      BY ZenonT(30), <3>1, <3>2, FinishedFacts
  <2>3. Complete(ready, <<c>>)
    BY <2>1
  <2> HIDE DEF c
  <2>4. <<c>> \in Seq(Handler) /\ InSeq(<<c>>, "resolved")
    BY <2>2, InSeqSingle
  <2>5. /\ ready' \in Seq(Handler) /\ queue' \in Seq(Handler)
        /\ Tailed /\ Kept /\ CompletionOf("resolved")'
    BY ZenonT(30), <1>7, <1>a, <2>3, <2>4, Completed DEF LookupDone
  <2>6. TypeOK' /\ WriteKinds' /\ Untouched /\ OpsShrink
    BY <1>7, <2>5 DEF LookupDone, WriteKinds
  <2>7. Backed
    BY <1>7, <1>a, <2>5 DEF LookupDone, Kept, Backed
  <2>8. QED
    BY ZenonT(30), <2>5, <2>6, <2>7
<1>8. CASE KernelSend
  <2>1. PICK r \in {"ok", "error"} : KernelSends(r)
    BY <1>8 DEF KernelSend
  <2> DEFINE c == Finished(Head(writeOps), r, Head(writeOps).n)
  <2>2. /\ Head(writeOps) \in Handler /\ Head(writeOps).h = "send" /\ Tail(writeOps) \in Seq(Handler)
        /\ \A i \in 1..Len(Tail(writeOps)) : Tail(writeOps)[i].h = "send"
    BY ZenonT(30), <2>1, MovedTail DEF KernelSends, WriteKinds
  <2>3. c \in Handler /\ c.h = "send"
    <3>1. Head(writeOps).n \in Nat
      BY <2>2 DEF Handler
    <3>2. r \in Results
      BY DEF Results
    <3>3. QED
      BY ZenonT(30), <2>2, <3>1, <3>2, FinishedFacts
  <2>4. Complete(ready, <<c>>)
    BY <2>1 DEF KernelSends
  <2> HIDE DEF c
  <2>5. <<c>> \in Seq(Handler) /\ InSeq(<<c>>, "send")
    BY <2>3, InSeqSingle
  <2>6. /\ ready' \in Seq(Handler) /\ queue' \in Seq(Handler)
        /\ Tailed /\ Kept /\ CompletionOf("send")'
    BY ZenonT(30), <1>a, <2>1, <2>4, <2>5, Completed DEF KernelSends
  <2>7. QED
    BY ZenonT(30), <1>8, <1>a, <2>1, <2>2, <2>6 DEF KernelSend, KernelSends, WriteKinds, Kept, Backed
<1>9. CASE KernelReceive
  <2>1. PICK r \in Results, k \in Nat : Complete(ready, <<Finished(Head(readOps), r, k)>>)
    BY <1>9, ReceiveFinishes
  <2> DEFINE c == Finished(Head(readOps), r, k)
  <2>2. /\ readOps # <<>> /\ readOps' = Tail(readOps)
        /\ UNCHANGED <<carried, runner, step, alive, socket, writeOps, session, cltVars, appVars>>
    BY ZenonT(30), <1>9 DEF KernelReceive, KernelReceives, KernelFailsReceive
  <2>3. Head(readOps) \in Handler /\ Tail(readOps) \in Seq(Handler)
    BY <2>2, HeadTailProperties
  <2>4. <<c>> \in Seq(Handler)
    BY SMTT(30), <2>3, FinishedFacts
  <2> HIDE DEF c
  <2>5. ready' \in Seq(Handler) /\ queue' \in Seq(Handler) /\ Tailed /\ Kept
    BY ZenonT(30), <2>1, <2>2, <2>4, Completed DEF c
  <2>6. QED
    BY ZenonT(30), <1>a, <2>2, <2>3, <2>5 DEF WriteKinds, Kept, Backed
<1>10. QED
  BY ZenonT(30), <1>1, <1>3, <1>4, <1>5, <1>6, <1>7, <1>8, <1>9 DEF OtherStep, AppContinues
-----------------------------------------------------------------------------
LEMMA HeadStep ==
  ASSUME TypeOK, HeadInv, WriteKinds, [Next]_vars
  PROVE  HeadInv'
<1>1. CASE OtherStep
  <2>1. PICK x \in Seq(Handler) : ready' = ready \o x
    BY <1>1, OtherStepFacts
  <2>2. Untouched
    BY <1>1, OtherStepFacts
  <2>3. ready # <<>> => ready' # <<>> /\ Head(ready') = Head(ready)
    BY <2>1, HeadKept DEF TypeOK, SockTypeOK
  <2>4. QED
    BY <2>2, <2>3 DEF HeadInv, Untouched
<1>2. ASSUME NEW t \in IoThreads, HandlerStep(t)
      PROVE  HeadInv'
  <2>1. CASE LeaveHandler
    BY <2>1 DEF LeaveHandler, HeadInv
  <2>2. CASE DisconnectHandler(t) \/ ReceiveHandlerFails(t) \/ SendHandlerFails(t)
    <3>1. ready # <<>> /\ Closes(t, readOps, writeOps)
      BY <2>2 DEF DisconnectHandler, ReceiveHandlerFails, SendHandlerFails, Begins
    <3>2. ready' # <<>> /\ Head(ready') = Head(ready)
      BY <3>1, ClosesFacts
    <3>3. /\ Head(ready).h \in {"disconnect", "recv", "send"}
          /\ Head(ready).h = "send" => ~sending'
      BY <2>2 DEF DisconnectHandler, ReceiveHandlerFails, SendHandlerFails, Begins
    <3>4. QED
      BY <3>2, <3>3 DEF HeadInv
  <2>3. CASE ResolvedHandlerFails(t)
    BY <2>3 DEF ResolvedHandlerFails, Begins, HeadInv
  <2>4. CASE DisconnectFlags(t)
    BY <2>4 DEF DisconnectFlags, Continues, HeadInv
  <2>5. QED
    BY ZenonT(30), <1>2, <2>1, <2>2, <2>3, <2>4
       DEF HandlerStep, ConnectHandlerIgnored, ConnectHandler, ResolveHandlerIgnored, ResolveHandler,
           ResolvedHandlerIgnored, ResolvedHandler, DisconnectHandlerIgnored, OnDisconnected,
           ReceiveHandlerStopped, ReceiveHandler, SendHandler, FinishHandler
<1>3. CASE UNCHANGED vars
  BY <1>3 DEF vars, execVars, cltVars, HeadInv
<1>4. QED
  BY <1>1, <1>2, <1>3, NextIsHandlerOrOther

LEMMA TypeStep ==
  ASSUME TypeOK, HeadInv, WriteKinds, [Next]_vars
  PROVE  TypeOK'
<1>1. CASE UNCHANGED vars
  BY SMTT(30), <1>1 DEF vars, execVars, sockVars, cltVars, appVars, TypeOK, SockTypeOK
<1>2. QED
  BY <1>1, NextIsHandlerOrOther, TypeHandlerStep, OtherStepFacts

(***************************************************************************)
(* A handler that ends takes only itself away.                             *)
(***************************************************************************)
LEMMA EndedKeeps ==
  ASSUME SockTypeOK, ready # <<>>, NEW x \in Seq(Handler), ready' = Tail(ready) \o x,
         UNCHANGED <<queue, carried>>, NEW k, Head(ready).h # k, CompletionOf(k)
  PROVE  CompletionOf(k)'
<1>1. Tail(ready) \in Seq(Handler) /\ (InSeq(ready, k) <=> InSeq(Tail(ready), k))
  BY TailTyped, InSeqTail DEF SockTypeOK
<1>2. InSeq(ready', k) <=> InSeq(Tail(ready), k) \/ InSeq(x, k)
  BY ZenonT(30), <1>1, InSeqConcat
<1>3. QED
  BY <1>1, <1>2, CompletionIs DEF Carries

LEMMA BackedHandlerStep ==
  ASSUME TypeOK, HeadInv, BackedInv, NEW t \in IoThreads, HandlerStep(t)
  PROVE  BackedInv'
<1> USE DEF sockVars, cltVars
<1>0. SockTypeOK /\ <<>> \in Seq(Handler)
  BY DEF TypeOK
<1>1. ASSUME ready # <<>>, NEW x \in Seq(Handler), ready' = Tail(ready) \o x, UNCHANGED <<queue, carried>>,
             WriteKinds', writeOps # <<>> => writeOps' # <<>>,
             sending' => (sending /\ Head(ready).h # "send") \/ writeOps' # <<>>,
             lookups' = lookups \/ lookups' > 0,
             resolving' => (resolving /\ Head(ready).h # "resolved") \/ lookups' > 0
      PROVE  BackedInv'
  <2>1. ASSUME NEW k, Head(ready).h # k, CompletionOf(k) PROVE CompletionOf(k)'
    BY <1>0, <1>1, <2>1, EndedKeeps
  <2>2. NotMute'
    BY <1>1, <2>1 DEF BackedInv, NotMute
  <2>3. ResolvingBacked'
    BY <1>1, <2>1 DEF BackedInv, ResolvingBacked
  <2>4. QED
    BY SMTT(30), <1>1, <2>2, <2>3 DEF BackedInv
<1>2. ASSUME ready # <<>>, FinishHandler, UNCHANGED <<queue, carried>>,
             WriteKinds', writeOps # <<>> => writeOps' # <<>>,
             sending' => (sending /\ Head(ready).h # "send") \/ writeOps' # <<>>,
             lookups' = lookups \/ lookups' > 0,
             resolving' => (resolving /\ Head(ready).h # "resolved") \/ lookups' > 0
      PROVE  BackedInv'
  <2>1. ready' = Tail(ready) \o <<>>
    BY <1>2 DEF FinishHandler, Post
  <2>2. QED
    BY ZenonT(30), <1>0, <1>1, <1>2, <2>1
<1>3. CASE ConnectHandlerIgnored(t) \/ ResolveHandlerIgnored(t) \/ DisconnectHandlerIgnored(t)
  <2>1. /\ ready # <<>> /\ FinishHandler /\ Head(ready).h \in {"connect", "resolve", "disconnect"}
        /\ UNCHANGED <<queue, carried, sockVars, cltVars>>
    BY <1>3 DEF ConnectHandlerIgnored, ResolveHandlerIgnored, DisconnectHandlerIgnored, Begins
  <2>2. WriteKinds'
    BY <2>1 DEF BackedInv, WriteKinds
  <2>3. QED
    BY <1>2, <2>1, <2>2
<1>4. CASE ResolvedHandlerIgnored(t) \/ ReceiveHandlerStopped(t)
  <2>1. /\ ready # <<>> /\ FinishHandler /\ Head(ready).h \in {"resolved", "recv"}
        /\ UNCHANGED <<queue, carried, writeOps, sending, lookups>>
        /\ resolving' => resolving /\ Head(ready).h # "resolved"
    BY <1>4 DEF ResolvedHandlerIgnored, ReceiveHandlerStopped, Begins
  <2>2. WriteKinds'
    BY <2>1 DEF BackedInv, WriteKinds
  <2>3. QED
    BY <1>2, <2>1, <2>2
<1>5. CASE ResolveHandler(t)
  <2>1. /\ ready # <<>> /\ FinishHandler /\ Head(ready).h = "resolve"
        /\ UNCHANGED <<queue, carried, writeOps, sending>> /\ lookups' = lookups + 1
    BY <1>5 DEF ResolveHandler, Begins
  <2>2. WriteKinds' /\ lookups' > 0
    BY <2>1 DEF BackedInv, WriteKinds, TypeOK
  <2>3. QED
    BY <1>2, <2>1, <2>2
<1>6. CASE ConnectHandler(t) \/ ResolvedHandler(t)
  <2>1. /\ (Connects /\ UNCHANGED alive) \/ ConnectThrows(t)
        /\ ready # <<>> /\ FinishHandler /\ Head(ready).h \in {"connect", "resolved"}
        /\ UNCHANGED <<queue, carried, lookups>>
        /\ resolving' => resolving /\ Head(ready).h # "resolved"
    BY <1>6 DEF ConnectHandler, ResolvedHandler, Begins
  <2>2. /\ WriteKinds'
        /\ writeOps # <<>> => writeOps' # <<>>
        /\ sending' => sending \/ writeOps' # <<>>
    BY <2>1, ConnectFacts DEF BackedInv
  <2>3. QED
    BY <1>2, <2>1, <2>2
<1>7. CASE OnDisconnected(t)
  <2>1. /\ ready # <<>>
        /\ Head(ready).h = "send" => ~sending
        /\ Head(ready).h = "resolved" => ~resolving
    BY <1>7 DEF OnDisconnected, Continues, HeadInv
  <2>2. PICK x \in Seq(Handler) : ready' = Tail(ready) \o x
    <3>1. <<PostedHandler("connect")>> \in Seq(Handler)
      BY PostedHandlerFacts DEF Kinds
    <3>2. QED
      BY ZenonT(30), <1>0, <1>7, <3>1 DEF OnDisconnected, Post
  <2>3. UNCHANGED <<queue, carried, writeOps, sending, lookups, resolving>>
    BY <1>7 DEF OnDisconnected
  <2>4. WriteKinds'
    BY <2>3 DEF BackedInv, WriteKinds
  <2>5. QED
    BY ZenonT(30), <1>1, <2>1, <2>2, <2>3, <2>4
<1>8. CASE ReceiveHandler(t)
  <2>1. /\ ready # <<>> /\ FinishHandler /\ Head(ready).h = "recv"
        /\ UNCHANGED <<queue, carried, lookups, resolving>> /\ SendAsync(sending, session)
    BY <1>8 DEF ReceiveHandler, Begins
  <2>2. /\ WriteKinds'
        /\ writeOps # <<>> => writeOps' # <<>>
        /\ sending' => sending \/ writeOps' # <<>>
    BY <2>1, SendStarted DEF BackedInv, TypeOK, SockTypeOK
  <2>3. QED
    BY <1>2, <2>1, <2>2
<1>9. CASE SendHandler(t)
  <2>1. /\ ready # <<>> /\ FinishHandler /\ Head(ready).h = "send"
        /\ UNCHANGED <<queue, carried, lookups, resolving>>
        /\ SendAsync(FALSE, session) \/ (sending' = FALSE /\ UNCHANGED writeOps)
    BY ZenonT(30), <1>9 DEF SendHandler, Begins
  <2>2. /\ WriteKinds'
        /\ writeOps # <<>> => writeOps' # <<>>
        /\ sending' => writeOps' # <<>>
    <3>1. CASE SendAsync(FALSE, session)
      BY ZenonT(30), <3>1, SendStarted DEF BackedInv, TypeOK, SockTypeOK
    <3>2. CASE sending' = FALSE /\ UNCHANGED writeOps
      BY SMTT(30), <3>2 DEF BackedInv, WriteKinds
    <3>3. QED
      BY ZenonT(30), <2>1, <3>1, <3>2
  <2>3. QED
    BY <1>2, <2>1, <2>2
<1>10. CASE ResolvedHandlerFails(t) \/ DisconnectFlags(t)
  <2>1. /\ UNCHANGED <<ready, queue, carried, writeOps>> /\ resolving' = FALSE
        /\ sending' => sending
    BY <1>10 DEF ResolvedHandlerFails, DisconnectFlags
  <2>2. QED
    BY <2>1 DEF BackedInv, WriteKinds, NotMute, ResolvingBacked, CompletionOf
<1>11. CASE DisconnectHandler(t) \/ ReceiveHandlerFails(t) \/ SendHandlerFails(t)
  <2> DEFINE cs == AbortAll(readOps) \o AbortAll(writeOps)
  <2>1. cs \in Seq(Handler) /\ (writeOps # <<>> => InSeq(cs, "send"))
    BY AbortedTyped DEF BackedInv
  <2>2. Complete(ready, cs) /\ UNCHANGED carried /\ writeOps' = <<>>
    BY <1>11 DEF DisconnectHandler, ReceiveHandlerFails, SendHandlerFails, Closes
  <2>3. UNCHANGED <<lookups, resolving>> /\ (sending' => sending)
    BY <1>11 DEF DisconnectHandler, ReceiveHandlerFails, SendHandlerFails
  <2> HIDE DEF cs
  <2>4. Kept /\ \A k \in Kinds : InSeq(cs, k) => CompletionOf(k)'
    BY <1>0, <2>1, <2>2, Completed
  <2>5. "send" \in Kinds /\ "resolved" \in Kinds
    BY DEF Kinds
  <2>6. WriteKinds'
    BY <2>2 DEF WriteKinds
  <2>7. NotMute'
    BY <2>1, <2>3, <2>4, <2>5 DEF BackedInv, NotMute, Kept
  <2>8. ResolvingBacked'
    BY <2>3, <2>4, <2>5 DEF BackedInv, ResolvingBacked, Kept
  <2>9. QED
    BY <2>6, <2>7, <2>8 DEF BackedInv
<1>12. QED
  BY SMTT(30), <1>3, <1>4, <1>5, <1>6, <1>7, <1>8, <1>9, <1>10, <1>11 DEF HandlerStep

LEMMA BackedStep ==
  ASSUME TypeOK, HeadInv, BackedInv, [Next]_vars
  PROVE  BackedInv'
<1>1. CASE OtherStep
  <2>1. WriteKinds' /\ Untouched /\ Backed
    BY <1>1, OtherStepFacts DEF BackedInv
  <2>2. QED
    BY <2>1 DEF BackedInv, NotMute, ResolvingBacked, Untouched, Backed
<1>2. CASE UNCHANGED vars
  BY <1>2 DEF vars, execVars, sockVars, cltVars, BackedInv, WriteKinds, NotMute, ResolvingBacked, CompletionOf
<1>3. QED
  BY <1>1, <1>2, BackedHandlerStep, NextIsHandlerOrOther

LEMMA QuietStep ==
  ASSUME TypeOK, HeadInv, BackedInv, QuietInv, [Next]_vars
  PROVE  QuietInv'
<1> USE DEF sockVars, cltVars
<1>1. CASE OtherStep
  <2>1. Untouched /\ OpsShrink
    BY <1>1, OtherStepFacts DEF BackedInv
  <2>2. QED
    BY <2>1 DEF QuietInv, Untouched, OpsShrink
<1>2. ASSUME NEW t \in IoThreads, HandlerStep(t)
      PROVE  QuietInv'
  <2>1. ASSUME step = "begin", step' \in {"begin", "lost"}, UNCHANGED <<connected, readOps, writeOps>>
        PROVE  QuietInv'
    BY <2>1 DEF QuietInv
  <2>2. CASE ConnectHandlerIgnored(t) \/ ResolveHandlerIgnored(t) \/ ResolveHandler(t)
    BY <2>1, <2>2 DEF ConnectHandlerIgnored, ResolveHandlerIgnored, ResolveHandler, Begins, FinishHandler, LeaveHandler
  <2>3. CASE ResolvedHandlerIgnored(t) \/ ResolvedHandlerFails(t)
    BY <2>1, <2>3 DEF ResolvedHandlerIgnored, ResolvedHandlerFails, Begins, EnterStep, FinishHandler, LeaveHandler
  <2>4. CASE DisconnectHandlerIgnored(t) \/ ReceiveHandlerStopped(t)
    BY <2>1, <2>4 DEF DisconnectHandlerIgnored, ReceiveHandlerStopped, Begins, FinishHandler, LeaveHandler
  <2>5. CASE ConnectHandler(t) \/ ResolvedHandler(t)
    <3>1. /\ (Connects /\ UNCHANGED alive) \/ ConnectThrows(t)
          /\ ~connected /\ step' = "begin"
      BY <2>5 DEF ConnectHandler, ResolvedHandler, FinishHandler, LeaveHandler
    <3>2. connected' \/ (connected' = connected /\ UNCHANGED <<readOps, writeOps>>)
      BY <3>1, ConnectFacts DEF BackedInv
    <3>3. QED
      BY <3>1, <3>2 DEF QuietInv
  <2>6. CASE DisconnectHandler(t) \/ ReceiveHandlerFails(t) \/ SendHandlerFails(t)
    BY <2>6 DEF DisconnectHandler, ReceiveHandlerFails, SendHandlerFails, Closes, QuietInv
  <2>7. CASE DisconnectFlags(t) \/ OnDisconnected(t)
    BY <2>7 DEF DisconnectFlags, OnDisconnected, Continues, LeaveHandler, QuietInv
  <2>8. CASE ReceiveHandler(t)
    BY <2>8 DEF ReceiveHandler, FinishHandler, LeaveHandler, QuietInv
  <2>9. CASE SendHandler(t)
    BY <2>9 DEF SendHandler, Begins, FinishHandler, LeaveHandler, QuietInv
  <2>10. QED
    BY SMTT(30), <1>2, <2>2, <2>3, <2>4, <2>5, <2>6, <2>7, <2>8, <2>9 DEF HandlerStep
<1>3. CASE UNCHANGED vars
  BY <1>3 DEF vars, execVars, QuietInv
<1>4. QED
  BY <1>1, <1>2, <1>3, NextIsHandlerOrOther

-----------------------------------------------------------------------------
(***************************************************************************)
(* Listening: a client without _connected has no _receiving either, so     *)
(* that onConnected starts a receive; every handler that takes a receive   *)
(* away starts one or disconnects.                                         *)
(***************************************************************************)
ReadKinds == \A i \in 1..Len(readOps) : readOps[i].h = "recv"

Receives == readOps # <<>> \/ CompletionOf("recv")

ListenInv ==
  /\ ReadKinds
  /\ ~connected => ~receiving
  /\ step = "lost" => ~connected
  /\ connected /\ step = "begin" /\ alive = IoThreads => receiving /\ Receives

LEMMA OtherStepListens ==
  ASSUME TypeOK, WriteKinds, ReadKinds, OtherStep
  PROVE  ReadKinds' /\ (Receives => Receives')
<1> USE DEF TypeOK, SockTypeOK, execVars, sockVars
<1>0. Kept /\ "recv" \in Kinds
  BY OtherStepFacts DEF Kinds
<1>1. ASSUME UNCHANGED readOps PROVE ReadKinds' /\ (Receives => Receives')
  BY SMTT(30), <1>0, <1>1 DEF ReadKinds, Receives, Kept
<1>2. CASE AppCancel
  <2>1. /\ AbortAll(readOps) \in Seq(Handler) /\ AbortAll(writeOps) \in Seq(Handler)
        /\ readOps # <<>> => InSeq(AbortAll(readOps), "recv")
    BY SMTT(30), AbortAllFacts, InSeqNonEmpty, InSeqAbort DEF ReadKinds
  <2>2. AbortedOps \in Seq(Handler) /\ (readOps # <<>> => InSeq(AbortedOps, "recv"))
    BY SMTT(30), <2>1, InSeqConcat, ConcatProperties DEF AbortedOps
  <2>3. InSeq(AbortedOps, "recv") => CompletionOf("recv")'
    BY SMTT(30), <1>0, <1>2, <2>2, Completed DEF AppCancel
  <2>4. readOps' = <<>>
    BY SMTT(30), <1>2 DEF AppCancel
  <2>5. ReadKinds'
    BY <2>4 DEF ReadKinds
  <2>6. Receives => Receives'
    BY <1>0, <2>2, <2>3 DEF Receives, Kept
  <2>7. QED
    BY <2>5, <2>6
<1>3. CASE KernelReceive
  <2>1. /\ readOps # <<>> /\ readOps' = Tail(readOps) /\ UNCHANGED carried
    BY ZenonT(30), <1>3 DEF KernelReceive, KernelReceives, KernelFailsReceive
  <2>2. /\ Head(readOps) \in Handler /\ Head(readOps).h = "recv"
        /\ \A i \in 1..Len(Tail(readOps)) : Tail(readOps)[i].h = "recv"
    BY SMTT(30), <2>1, MovedTail DEF ReadKinds
  <2>3. PICK r \in Results, k \in Nat : Complete(ready, <<Finished(Head(readOps), r, k)>>)
    BY <1>3, ReceiveFinishes
  <2> DEFINE c == Finished(Head(readOps), r, k)
  <2>4. c \in Handler /\ c.h = "recv"
    BY ZenonT(30), <2>2, FinishedFacts
  <2> HIDE DEF c
  <2>5. <<c>> \in Seq(Handler) /\ InSeq(<<c>>, "recv")
    BY <2>4, InSeqSingle
  <2>6. CompletionOf("recv")'
    BY ZenonT(30), <1>0, <2>1, <2>3, <2>5, Completed DEF c
  <2>7. ReadKinds'
    BY <2>1, <2>2 DEF ReadKinds
  <2>8. QED
    BY <2>6, <2>7 DEF Receives
<1>4. CASE \/ AppBegins \/ LookupDone \/ KernelSend
           \/ \E t \in IoThreads :
                (PopCompletion(t) \/ Dispatch(t)) /\ UNCHANGED <<sockVars, cltVars, appVars>>
  BY SMTT(30), <1>1, <1>4 DEF AppBegins, AppConnect, AppResolve, AppReconnect, AppStop, LookupDone,
    KernelSend, KernelSends
<1>5. CASE \/ AppConnectPost \/ AppResolvePost \/ AppDisconnectPost
           \/ AppReconnectSpin \/ AppReconnectCheck \/ AppStopTest \/ AppStopSpin
  BY <1>1, <1>5 DEF AppConnectPost, AppResolvePost, AppDisconnectPost, AppPosts,
                    AppReconnectSpin, AppReconnectCheck, AppStopTest, AppStopSpin
<1>6. QED
  BY SMTT(30), <1>2, <1>3, <1>4, <1>5 DEF OtherStep, AppContinues

LEMMA ListenHandlerStep ==
  ASSUME TypeOK, HeadInv, BackedInv, QuietInv, ListenInv, NEW t \in IoThreads, HandlerStep(t)
  PROVE  ListenInv'
<1> USE DEF sockVars, cltVars
<1>0. SockTypeOK /\ <<>> \in Seq(Handler) /\ ReadKinds
  BY DEF TypeOK, ListenInv
<1>1. ASSUME ready # <<>>, Head(ready).h # "recv", FinishHandler, step = "begin",
             UNCHANGED <<queue, carried, alive, readOps, connected, receiving>>
      PROVE  ListenInv'
  <2>1. ready' = Tail(ready) \o <<>> /\ step' = "begin"
    BY <1>1 DEF FinishHandler, Post, LeaveHandler
  <2>2. CompletionOf("recv") => CompletionOf("recv")'
    BY ZenonT(30), <1>0, <1>1, <2>1, EndedKeeps
  <2>3. QED
    BY <1>1, <2>1, <2>2 DEF ListenInv, ReadKinds, Receives
<1>2. CASE \/ ConnectHandlerIgnored(t) \/ ResolveHandlerIgnored(t) \/ ResolveHandler(t)
           \/ ResolvedHandlerIgnored(t) \/ DisconnectHandlerIgnored(t) \/ SendHandler(t)
  <2>1. /\ ready # <<>> /\ FinishHandler /\ step = "begin"
        /\ Head(ready).h \in {"connect", "resolve", "resolved", "disconnect", "send"}
        /\ UNCHANGED <<queue, carried, alive, readOps, connected, receiving>>
    BY ZenonT(30), <1>2 DEF ConnectHandlerIgnored, ResolveHandlerIgnored, ResolveHandler, ResolvedHandlerIgnored,
                DisconnectHandlerIgnored, SendHandler, Begins
  <2>2. QED
    BY <1>1, <2>1
<1>3. CASE ConnectHandler(t) \/ ResolvedHandler(t)
  <2>1. /\ (Connects /\ UNCHANGED alive) \/ ConnectThrows(t)
        /\ ~connected /\ step' = "begin" /\ t \in alive
    BY <1>3 DEF ConnectHandler, ResolvedHandler, FinishHandler, LeaveHandler, Begins, Free
  <2>2. CASE Connects
    <3>1. ~receiving /\ SockBuf \in Nat /\ session + 1 \in Nat
      BY <2>1, ClientAssumption DEF ListenInv, TypeOK, SockTypeOK
    <3>2. /\ connected' = TRUE /\ receiving' = TRUE
          /\ readOps' = Append(readOps, RecvOp(SockBuf, session + 1))
      BY <2>2, <3>1 DEF Connects, TryReceive
    <3>3. readOps' # <<>> /\ ReadKinds'
      <4>1. RecvOp(SockBuf, session + 1) \in Handler /\ RecvOp(SockBuf, session + 1).h = "recv"
        BY <3>1, RecvOpFacts
      <4>2. QED
        BY <1>0, <3>2, <4>1, AppendedKind DEF ReadKinds, SockTypeOK
    <3>4. QED
      BY <2>1, <3>2, <3>3 DEF ListenInv, Receives
  <2>3. CASE ConnectThrows(t)
    <3>1. alive' # IoThreads /\ UNCHANGED <<readOps, receiving>>
      BY <2>1, <2>3 DEF ConnectThrows
    <3>2. ~receiving
      BY <2>1 DEF ListenInv
    <3>3. QED
      BY <2>1, <3>1, <3>2 DEF ListenInv, ReadKinds
  <2>4. QED
    BY <2>1, <2>2, <2>3
<1>4. CASE ReceiveHandler(t)
  <2>1. /\ connected' /\ receiving' = TRUE /\ step' = "begin"
        /\ readOps' = Append(readOps, RecvOp(rbuf, session))
    BY SMTT(30), <1>4 DEF ReceiveHandler, TryReceive, FinishHandler, LeaveHandler
  <2>2. readOps' # <<>> /\ ReadKinds'
    <3>1. RecvOp(rbuf, session) \in Handler /\ RecvOp(rbuf, session).h = "recv"
      BY SMTT(30), RecvOpFacts DEF TypeOK, SockTypeOK
    <3>2. QED
      BY ZenonT(30), <1>0, <2>1, <3>1, AppendedKind DEF ReadKinds, SockTypeOK
  <2>3. QED
    BY <2>1, <2>2 DEF ListenInv, Receives
<1>5. CASE ReceiveHandlerStopped(t)
  <2>1. ~connected' /\ receiving' = FALSE /\ step' = "begin" /\ UNCHANGED readOps
    BY SMTT(30), <1>5 DEF ReceiveHandlerStopped, FinishHandler, LeaveHandler
  <2>2. QED
    BY <2>1 DEF ListenInv, ReadKinds
<1>6. CASE DisconnectHandler(t) \/ ReceiveHandlerFails(t) \/ SendHandlerFails(t)
  <2>1. connected' /\ step' = "close" /\ readOps' = <<>>
    BY <1>6 DEF DisconnectHandler, ReceiveHandlerFails, SendHandlerFails, Closes, EnterStep
  <2>2. ReadKinds'
    BY <2>1 DEF ReadKinds
  <2>3. QED
    BY SMTT(30), <2>1, <2>2 DEF ListenInv
<1>7. CASE ResolvedHandlerFails(t) \/ DisconnectFlags(t)
  <2>1. ~connected' /\ UNCHANGED readOps /\ (receiving' => receiving /\ ~connected)
    BY SMTT(30), <1>7 DEF ResolvedHandlerFails, DisconnectFlags
  <2>2. QED
    BY <2>1 DEF ListenInv, ReadKinds
<1>8. CASE OnDisconnected(t)
  <2>1. step = "lost" /\ step' = "begin" /\ UNCHANGED <<connected, readOps, receiving>>
    BY <1>8 DEF OnDisconnected, Continues, LeaveHandler
  <2>2. QED
    BY <2>1 DEF ListenInv, ReadKinds
<1>9. QED
  BY SMTT(30), <1>2, <1>3, <1>4, <1>5, <1>6, <1>7, <1>8 DEF HandlerStep

LEMMA ListenStep ==
  ASSUME TypeOK, HeadInv, BackedInv, QuietInv, ListenInv, [Next]_vars
  PROVE  ListenInv'
<1>1. CASE OtherStep
  <2>1. Untouched /\ ReadKinds' /\ (Receives => Receives')
    BY SMTT(30), <1>1, OtherStepFacts, OtherStepListens DEF BackedInv, ListenInv
  <2>2. QED
    BY <2>1 DEF ListenInv, Untouched
<1>2. CASE UNCHANGED vars
  <2>1. UNCHANGED <<ready, queue, carried, step, alive, readOps, connected, receiving>>
    BY <1>2 DEF vars, execVars, sockVars, cltVars
  <2>2. QED
    BY <2>1 DEF ListenInv, ReadKinds, Receives, CompletionOf
<1>3. QED
  BY <1>1, <1>2, ListenHandlerStep, NextIsHandlerOrOther

(***************************************************************************)
(* The inductive invariant of the client, for every set of threads, in     *)
(* both modes and for every pattern of calls and failures: types, the head *)
(* of "ready" while a handler is in its later steps, the quiet socket from *)
(* close() on, what _sending and _resolving stand for, and listening.      *)
(***************************************************************************)
THEOREM ClientInvariant == Spec => [](TypeOK /\ HeadInv /\ QuietInv /\ BackedInv /\ ListenInv)
<1>1. TypeOK /\ HeadInv /\ QuietInv /\ BackedInv /\ ListenInv /\ [Next]_vars
        => (TypeOK /\ HeadInv /\ QuietInv /\ BackedInv /\ ListenInv)'
  BY HeadStep, TypeStep, QuietStep, BackedStep, ListenStep DEF BackedInv
<1>2. Init => ListenInv
  BY DEF Init, ExecInit, SockInit, ListenInv, ReadKinds
<1>3. QED
  BY <1>1, <1>2, ClientInit, PTL DEF Spec

(***************************************************************************)
(* No operation is left on the socket of a client whose _connected is      *)
(* clear: DisconnectInternal() closes before it clears the flag, and only  *)
(* handlers that find the flag set start operations.                       *)
(***************************************************************************)
THEOREM ClientQuiet == Spec => []QuietWhenDisconnected
<1>1. QuietInv => QuietWhenDisconnected
  BY DEF QuietInv, QuietWhenDisconnected
<1>2. QED
  BY <1>1, ClientInvariant, PTL

(***************************************************************************)
(* _sending never gets stuck: it is set only while a send is pending or    *)
(* its completion is still to run, in both modes, whatever is aborted by a *)
(* disconnect or cancelled by the main thread.                             *)
(***************************************************************************)
THEOREM ClientNotMute == Spec => []NotMute
<1>1. BackedInv => NotMute
  BY DEF BackedInv
<1>2. QED
  BY <1>1, ClientInvariant, PTL

(***************************************************************************)
(* ... and neither does _resolving: a lookup is in progress, or its        *)
(* completion is still to run.                                             *)
(***************************************************************************)
THEOREM ClientResolves == Spec => []ResolvingBacked
<1>1. BackedInv => ResolvingBacked
  BY DEF BackedInv
<1>2. QED
  BY <1>1, ClientInvariant, PTL

(***************************************************************************)
(* A connected client that is not inside a handler is listening, on every  *)
(* number of threads: reconnects, late completions of earlier sessions and *)
(* a cancel() of the main thread never leave it deaf.                      *)
(***************************************************************************)
THEOREM ClientListens == Spec => []Listening
<1>1. ListenInv => Listening
  BY DEF ListenInv, Receives, Listening
<1>2. QED
  BY <1>1, ClientInvariant, PTL
-----------------------------------------------------------------------------
(***************************************************************************)
(* How many receives there are.  onConnected starts one at most, in a new  *)
(* session; the receive handler starts one in place of its own.            *)
(***************************************************************************)
LEMMA ConnectCounts ==
  ASSUME TypeOK, NEW t \in IoThreads, (Connects /\ UNCHANGED alive) \/ ConnectThrows(t)
  PROVE  /\ Len(readOps) \in Nat /\ Len(readOps') \in Nat /\ session \in Nat /\ session' \in Nat
         /\ Len(readOps') - session' <= Len(readOps) - session
<1>0. readOps \in Seq(Handler) /\ Len(readOps) \in Nat /\ session \in Nat /\ SockBuf \in Nat
  BY LenProperties, ClientAssumption DEF TypeOK, SockTypeOK
<1>1. CASE Connects
  <2>1. Len(Append(readOps, RecvOp(SockBuf, session + 1))) = Len(readOps) + 1
    BY <1>0, RecvOpFacts, AppendProperties
  <2>2. /\ session' = session + 1
        /\ readOps' = IF receiving THEN readOps ELSE Append(readOps, RecvOp(SockBuf, session + 1))
    BY <1>1 DEF Connects, TryReceive
  <2>3. QED
    BY SMTT(30), <1>0, <2>1, <2>2
<1>2. CASE ConnectThrows(t)
  <2>1. readOps' = readOps /\ (session' = session \/ session' = session + 1)
    BY <1>2 DEF ConnectThrows
  <2>2. QED
    BY <1>0, <2>1
<1>3. QED
  BY SMTT(30), <1>1, <1>2

LEMMA ReceptionHandlerStep ==
  ASSUME TypeOK, HeadInv, WriteKinds, ReadKinds, ReceptionInv, NEW t \in IoThreads, HandlerStep(t)
  PROVE  ReceptionInv'
<1>0. /\ SockTypeOK /\ IsFiniteSet(CarriersOf("recv")) /\ Receptions <= session
      /\ session \in Nat /\ readOps \in Seq(Handler) /\ Len(readOps) \in Nat
      /\ Receptions = Len(readOps) + Completions("recv")
      /\ Receptions' = Len(readOps') + Completions("recv")'
  BY LenProperties DEF TypeOK, SockTypeOK, ReceptionInv, Receptions
<1>1. ASSUME FinishHandler, ready # <<>>, UNCHANGED <<queue, carried, readOps, session>>
      PROVE  ReceptionInv'
  BY SMTT(30), <1>0, <1>1, FinishedReceptions DEF ReceptionInv
<1>2. ASSUME Closes(t, readOps, writeOps)
      PROVE  ReceptionInv'
  <2>1. /\ Complete(ready, AbortedOps) /\ readOps' = <<>> /\ UNCHANGED <<carried, session>>
        /\ AllOf(readOps, "recv") /\ AllOf(writeOps, "send")
    BY <1>2 DEF Closes, AbortedOps, AllOf, ReadKinds, WriteKinds
  <2>2. QED
    BY SMTT(30), <1>0, <2>1, AbortMoves DEF ReceptionInv
<1>3. ASSUME UNCHANGED <<ready, queue, carried, readOps, session>>
      PROVE  ReceptionInv'
  BY <1>0, <1>3, KeptReceptions DEF ReceptionInv
<1>4. CASE \/ ConnectHandlerIgnored(t) \/ ResolveHandlerIgnored(t) \/ ResolveHandler(t)
           \/ ResolvedHandlerIgnored(t) \/ DisconnectHandlerIgnored(t) \/ ReceiveHandlerStopped(t)
           \/ SendHandler(t)
  <2>1. CASE ConnectHandlerIgnored(t) \/ ResolveHandlerIgnored(t) \/ ResolveHandler(t)
    BY SMTT(30), <1>1, <2>1 DEF ConnectHandlerIgnored, ResolveHandlerIgnored, ResolveHandler, Begins, sockVars
  <2>2. CASE ResolvedHandlerIgnored(t) \/ DisconnectHandlerIgnored(t) \/ ReceiveHandlerStopped(t)
    BY <1>1, <2>2 DEF ResolvedHandlerIgnored, DisconnectHandlerIgnored, ReceiveHandlerStopped,
                      Begins, sockVars
  <2>3. CASE SendHandler(t)
    BY <1>1, <2>3 DEF SendHandler, Begins
  <2>4. QED
    BY SMTT(30), <1>4, <2>1, <2>2, <2>3
<1>5. CASE ConnectHandler(t) \/ ResolvedHandler(t)
  <2>1. /\ FinishHandler /\ ready # <<>> /\ UNCHANGED <<queue, carried>>
        /\ (Connects /\ UNCHANGED alive) \/ ConnectThrows(t)
    BY <1>5 DEF ConnectHandler, ResolvedHandler, Begins
  <2>2. QED
    BY SMTT(30), <1>0, <2>1, ConnectCounts, FinishedReceptions DEF ReceptionInv
<1>6. CASE DisconnectHandler(t) \/ ReceiveHandlerFails(t) \/ SendHandlerFails(t)
  BY SMTT(30), <1>2, <1>6 DEF DisconnectHandler, ReceiveHandlerFails, SendHandlerFails
<1>7. CASE ResolvedHandlerFails(t) \/ DisconnectFlags(t)
  BY SMTT(30), <1>3, <1>7 DEF ResolvedHandlerFails, DisconnectFlags, sockVars
<1>8. CASE OnDisconnected(t)
  <2> DEFINE x == IF stop THEN <<>> ELSE <<PostedHandler("connect")>>
  <2>1. x \in Seq(Handler) /\ ~InSeq(x, "recv")
    <3>1. PostedHandler("connect") \in Handler /\ PostedHandler("connect").h # "recv"
      BY PostedHandlerFacts DEF Kinds
    <3>2. QED
      BY <3>1, InSeqSingle, InSeqEmpty
  <2>2. ready # <<>> /\ ready' = Tail(ready) \o x /\ UNCHANGED <<queue, carried, readOps, session>>
    BY <1>8 DEF OnDisconnected, Continues, Post, HeadInv, sockVars
  <2> HIDE DEF x
  <2>3. /\ IsFiniteSet(CarriersOf("recv")')
        /\ Completions("recv") \in Nat /\ Completions("recv")' \in Nat
        /\ Completions("recv") = Completions("recv")' + (IF Head(ready).h = "recv" THEN 1 ELSE 0)
    BY ZenonT(30), <1>0, <2>1, <2>2, FinishingCounts
  <2>4. QED
    BY <1>0, <2>2, <2>3 DEF ReceptionInv
<1>9. CASE ReceiveHandler(t)
  <2>1. /\ FinishHandler /\ ready # <<>> /\ UNCHANGED <<queue, carried, session>>
        /\ Head(ready).h = "recv"
        /\ readOps' = Append(readOps, RecvOp(rbuf, session))
    BY <1>9 DEF ReceiveHandler, Begins, TryReceive
  <2>2. Len(readOps') = Len(readOps) + 1
    BY <1>0, <2>1, RecvOpFacts, AppendProperties DEF TypeOK
  <2>3. QED
    BY <1>0, <2>1, <2>2, FinishedReceptions DEF ReceptionInv
<1>10. QED
  BY SMTT(30), <1>4, <1>5, <1>6, <1>7, <1>8, <1>9 DEF HandlerStep

LEMMA ReceptionOtherStep ==
  ASSUME TypeOK, WriteKinds, ReadKinds, ReceptionInv, OtherStep
  PROVE  ReceptionInv'
<1>0. /\ SockTypeOK /\ IsFiniteSet(CarriersOf("recv"))
      /\ AllOf(readOps, "recv") /\ AllOf(writeOps, "send")
      /\ readOps \in Seq(Handler) /\ writeOps \in Seq(Handler) /\ session \in Nat
  BY ZenonT(30) DEF TypeOK, SockTypeOK, ReceptionInv, ReadKinds, WriteKinds, AllOf
<1>1. ASSUME IsFiniteSet(CarriersOf("recv")') /\ Receptions' = Receptions, UNCHANGED session
      PROVE  ReceptionInv'
  BY <1>1 DEF ReceptionInv
<1>2. ASSUME NEW c \in Handler, c.h # "recv", UNCHANGED <<carried, readOps, session>>,
             Complete(ready, <<c>>) \/ (ready' = ready \o <<c>> /\ UNCHANGED queue)
      PROVE  ReceptionInv'
  BY ZenonT(30), <1>0, <1>1, <1>2, KeptReceptions
<1>3. ASSUME UNCHANGED <<ready, queue, carried, readOps, session>>
      PROVE  ReceptionInv'
  BY <1>0, <1>1, <1>3, KeptReceptions
<1>4. CASE \E t \in IoThreads :
             (PopCompletion(t) \/ Dispatch(t)) /\ UNCHANGED <<sockVars, cltVars, appVars>>
  BY <1>0, <1>1, <1>4, KeptReceptions DEF sockVars
<1>5. ASSUME NEW k \in {"connect", "resolve", "disconnect"}, AppPosts(k)
      PROVE  ReceptionInv'
  <2>1. PostedHandler(k) \in Handler /\ PostedHandler(k).h # "recv"
    BY PostedHandlerFacts DEF Kinds
  <2>2. ready' = ready \o <<PostedHandler(k)>> /\ UNCHANGED <<queue, carried, readOps, session>>
    BY <1>5 DEF AppPosts, Post, sockVars
  <2>3. QED
    BY ZenonT(30), <1>2, <2>1, <2>2
<1>6. CASE AppConnectPost \/ AppResolvePost \/ AppDisconnectPost
  BY <1>5, <1>6 DEF AppConnectPost, AppResolvePost, AppDisconnectPost
<1>7. CASE AppCancel
  <2>1. Complete(ready, AbortedOps) /\ readOps' = <<>> /\ UNCHANGED <<carried, session>>
    BY <1>7 DEF AppCancel
  <2>2. QED
    BY SMTT(30), <1>0, <1>1, <2>1, AbortMoves
<1>8. CASE LookupDone
  <2>1. PICK r \in {"ok", "error"} : Complete(ready, <<Finished(PostedHandler("resolved"), r, 0)>>)
    BY <1>8 DEF LookupDone
  <2> DEFINE c == Finished(PostedHandler("resolved"), r, 0)
  <2>2. PostedHandler("resolved") \in Handler /\ PostedHandler("resolved").h = "resolved" /\ r \in Results
    BY PostedHandlerFacts DEF Kinds, Results
  <2>3. c \in Handler /\ c.h # "recv"
    BY <2>2, FinishedFacts
  <2>4. Complete(ready, <<c>>) /\ UNCHANGED <<carried, readOps, session>>
    BY <1>8, <2>1 DEF LookupDone, sockVars
  <2> HIDE DEF c
  <2>5. QED
    BY ZenonT(30), <1>2, <2>3, <2>4
<1>9. CASE KernelSend
  <2>1. PICK r \in {"ok", "error"} : KernelSends(r)
    BY SMTT(30), <1>9 DEF KernelSend
  <2> DEFINE c == Finished(Head(writeOps), r, Head(writeOps).n)
  <2>2. Head(writeOps) \in Handler /\ Head(writeOps).h = "send"
    BY <1>0, <2>1, MovedTail DEF KernelSends, AllOf
  <2>3. Head(writeOps).n \in Nat /\ r \in Results
    BY <2>2 DEF Handler, Results
  <2>4. c \in Handler /\ c.h # "recv"
    BY ZenonT(30), <2>2, <2>3, FinishedFacts
  <2>5. Complete(ready, <<c>>) /\ UNCHANGED <<carried, readOps, session>>
    BY <2>1 DEF KernelSends
  <2> HIDE DEF c
  <2>6. QED
    BY ZenonT(30), <1>2, <2>4, <2>5
<1>10. CASE KernelReceive
  <2>1. PICK r \in Results, k \in Nat : Complete(ready, <<Finished(Head(readOps), r, k)>>)
    BY <1>10, ReceiveFinishes
  <2> DEFINE c == Finished(Head(readOps), r, k)
  <2>2. readOps # <<>> /\ readOps' = Tail(readOps) /\ UNCHANGED <<carried, session>>
    BY ZenonT(30), <1>10 DEF KernelReceive, KernelReceives, KernelFailsReceive
  <2>3. Head(readOps) \in Handler /\ Head(readOps).h = "recv"
    BY <1>0, <2>2, MovedTail DEF AllOf
  <2>4. c \in Handler /\ c.h = "recv"
    BY ZenonT(30), <2>3, FinishedFacts
  <2>5. Complete(ready, <<c>>)
    BY <2>1
  <2> HIDE DEF c
  <2>6. QED
    BY SMTT(30), <1>0, <1>1, <2>2, <2>4, <2>5, ReceiveMoves
<1>11. CASE AppBegins \/ AppReconnectSpin \/ AppReconnectCheck \/ AppStopTest \/ AppStopSpin
  <2>1. UNCHANGED <<ready, queue, carried, readOps, session>>
    BY <1>11 DEF AppBegins, AppConnect, AppResolve, AppReconnect, AppStop,
          AppReconnectSpin, AppReconnectCheck, AppStopTest, AppStopSpin, execVars, sockVars
  <2>2. QED
    BY SMTT(30), <1>3, <2>1
<1>12. QED
  BY ZenonT(30), <1>4, <1>6, <1>7, <1>8, <1>9, <1>10, <1>11 DEF OtherStep, AppContinues

(***************************************************************************)
(* With any number of io threads, and however often the client reconnects: *)
(* the receives that are pending, and those whose handlers have still to   *)
(* run, are never more than the sessions.                                  *)
(***************************************************************************)
THEOREM ClientReceivesBounded == Spec => []ReceivesBoundedBySessions
<1> DEFINE Inv == TypeOK /\ HeadInv /\ QuietInv /\ BackedInv /\ ListenInv
<1>1. Init => ReceptionInv
  <2> SUFFICES ASSUME Init PROVE ReceptionInv
    OBVIOUS
  <2>1. /\ readOps = <<>> /\ ready = <<>> /\ queue = <<>> /\ session = 0
        /\ CarriersOf("recv") = {}
    BY DEF Init, ExecInit, SockInit, CarriersOf
  <2>2. Count(<<>>, "recv") = 0
    BY ZenonT(30), EmptySeq, InSeqEmpty, CountNone
  <2>3. QED
    BY <2>1, <2>2, FS_EmptySet DEF ReceptionInv, Receptions, Completions
<1>2. Inv /\ ReceptionInv /\ [Next]_vars => ReceptionInv'
  <2>1. ASSUME UNCHANGED vars, TypeOK, ReceptionInv PROVE ReceptionInv'
    <3>1. UNCHANGED <<ready, queue, carried, readOps, session>>
      BY <2>1 DEF vars, execVars, sockVars
    <3>2. QED
      BY <2>1, <3>1, KeptReceptions DEF ReceptionInv, TypeOK
  <2>2. QED
    BY <2>1, ReceptionHandlerStep, ReceptionOtherStep, NextIsHandlerOrOther DEF BackedInv, ListenInv
<1>3. TypeOK /\ ReceptionInv => ReceivesBoundedBySessions
  <2> SUFFICES ASSUME TypeOK, ReceptionInv PROVE ReceivesBoundedBySessions
    OBVIOUS
  <2>1. Completions("recv") \in Nat
    BY CompletionsType DEF TypeOK, ReceptionInv, Completions
  <2>2. Len(readOps) \in Nat /\ session \in Nat
    BY LenProperties DEF TypeOK, SockTypeOK
  <2>3. QED
    BY <2>1, <2>2 DEF ReceptionInv, Receptions, ReceivesBoundedBySessions
<1>4. QED
  BY <1>1, <1>2, <1>3, ClientInvariant, PTL DEF Spec
=============================================================================
