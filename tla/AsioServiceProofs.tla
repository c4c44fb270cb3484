------------------------- MODULE AsioServiceProofs --------------------------
(***************************************************************************)
(* Proofs about AsioService, for every number of threads and both modes.   *)
(***************************************************************************)
EXTENDS AsioService, SequenceTheorems, TLAPS

(***************************************************************************)
(* io_service 1 exists, and every thread runs an existing io_service.      *)
(***************************************************************************)
LEMMA ServiceFacts == 1 \in Services /\ 1 \in Threads /\ \A t \in Threads : ServiceOf(t) \in Services
BY ServiceAssumption DEF Services, Threads, ServiceOf

(***************************************************************************)
(* What appending to a queue of handlers and taking its head do to it.     *)
(***************************************************************************)
LEMMA QueueAppend ==
  ASSUME NEW w \in Seq(Kinds), NEW k \in Kinds
  PROVE  /\ Append(w, k) \in Seq(Kinds)
         /\ \A h : InQueue(Append(w, k), h) <=> h = k \/ InQueue(w, h)
         /\ \A h : Once(w, h) /\ (h = k => ~InQueue(w, h)) => Once(Append(w, k), h)
<1>1. /\ Append(w, k) \in Seq(Kinds)
      /\ Len(Append(w, k)) = Len(w) + 1
      /\ \A i \in 1..Len(w) : Append(w, k)[i] = w[i]
      /\ Append(w, k)[Len(w) + 1] = k
      /\ Len(w) \in Nat
  BY AppendProperties, LenProperties
<1>2. \A h : InQueue(Append(w, k), h) <=> h = k \/ InQueue(w, h)
  BY <1>1 DEF InQueue
<1>3. \A h : Once(w, h) /\ (h = k => ~InQueue(w, h)) => Once(Append(w, k), h)
  BY <1>1 DEF InQueue, Once
<1> QED
  BY <1>1, <1>2, <1>3

LEMMA QueueTail ==
  ASSUME NEW w \in Seq(Kinds), w # <<>>
  PROVE  /\ Tail(w) \in Seq(Kinds)
         /\ \A h : InQueue(Tail(w), h) => InQueue(w, h)
         /\ \A h : Once(w, h) => Once(Tail(w), h)
         /\ \A h : Once(w, h) /\ h = Head(w) => ~InQueue(Tail(w), h)
         /\ InQueue(w, Head(w))
<1>1. /\ Tail(w) \in Seq(Kinds)
      /\ Len(w) \in Nat /\ Len(w) > 0
      /\ Len(Tail(w)) = Len(w) - 1
      /\ \A i \in 1..Len(Tail(w)) : Tail(w)[i] = w[i + 1]
      /\ Head(w) = w[1]
  BY HeadTailProperties, LenProperties, EmptySeq
<1>2. \A h : InQueue(Tail(w), h) => InQueue(w, h)
  BY <1>1 DEF InQueue
<1>3. \A h : Once(w, h) => Once(Tail(w), h)
  BY <1>1 DEF Once
<1>4. \A h : Once(w, h) /\ h = Head(w) => ~InQueue(Tail(w), h)
  BY <1>1 DEF InQueue, Once
<1>5. InQueue(w, Head(w))
  BY <1>1 DEF InQueue
<1> QED
  BY <1>1, <1>2, <1>3, <1>4, <1>5

LEMMA QueueEmpty == \A h : ~InQueue(<<>>, h) /\ Once(<<>>, h)
BY DEF InQueue, Once

(***************************************************************************)
(* The same for the queues of the service.                                 *)
(***************************************************************************)
LEMMA PostToFacts ==
  ASSUME TypeOK, NEW s \in Services, NEW k \in Kinds, PostTo(s, k)
  PROVE  /\ q' \in [Services -> Seq(Kinds)]
         /\ \A r \in Services : \A h : Has(r, h)' <=> Has(r, h) \/ (r = s /\ h = k)
         /\ \A h : Once(q[1], h) /\ (h = k /\ s = 1 => ~Has(1, h)) => Once(q'[1], h)
<1>1. q[s] \in Seq(Kinds) /\ q \in [Services -> Seq(Kinds)] /\ 1 \in Services
  BY ServiceFacts DEF TypeOK
<1>2. /\ q'[s] = Append(q[s], k)
      /\ \A r \in Services : r # s => q'[r] = q[r]
      /\ q' = [q EXCEPT ![s] = Append(q[s], k)]
  BY <1>1 DEF PostTo
<1>3. q' \in [Services -> Seq(Kinds)]
  BY <1>1, <1>2, QueueAppend
<1>4. \A r \in Services : \A h : Has(r, h)' <=> Has(r, h) \/ (r = s /\ h = k)
  BY <1>1, <1>2, QueueAppend DEF Has
<1>5. \A h : Once(q[1], h) /\ (h = k /\ s = 1 => ~Has(1, h)) => Once(q'[1], h)
  BY <1>1, <1>2, QueueAppend DEF Has
<1> QED
  BY <1>3, <1>4, <1>5

LEMMA TakesFacts ==
  ASSUME TypeOK, NEW t \in Threads, NEW k, Takes(t, k)
  PROVE  /\ q' \in [Services -> Seq(Kinds)]
         /\ \A r \in Services : \A h : Has(r, h)' => Has(r, h)
         /\ \A h : Once(q[1], h) => Once(q'[1], h)
         /\ Has(ServiceOf(t), k)
         /\ ServiceOf(t) = 1 /\ Once(q[1], k) => ~Has(1, k)'
         /\ pc[t] \in {"loop", "batch"}
<1> DEFINE s == ServiceOf(t)
<1>1. s \in Services /\ 1 \in Services
  BY ServiceFacts
<1>2. q[s] \in Seq(Kinds) /\ q \in [Services -> Seq(Kinds)]
  BY <1>1 DEF TypeOK
<1>3. /\ q[s] # <<>>
      /\ Head(q[s]) = k
      /\ q' = [q EXCEPT ![s] = Tail(q[s])]
      /\ pc[t] \in {"loop", "batch"}
  BY DEF Takes
<1> HIDE DEF s
<1>4. q'[s] = Tail(q[s]) /\ \A r \in Services : r # s => q'[r] = q[r]
  BY <1>1, <1>2, <1>3
<1>5. q' \in [Services -> Seq(Kinds)]
  BY <1>1, <1>2, <1>3, QueueTail
<1>6. \A r \in Services : \A h : Has(r, h)' => Has(r, h)
  BY <1>1, <1>2, <1>3, <1>4, QueueTail DEF Has
<1>7. \A h : Once(q[1], h) => Once(q'[1], h)
  BY <1>1, <1>2, <1>3, <1>4, QueueTail
<1>8. Has(s, k)
  BY <1>1, <1>2, <1>3, QueueTail DEF Has
<1>9. s = 1 /\ Once(q[1], k) => ~Has(1, k)'
  BY <1>1, <1>2, <1>3, <1>4, QueueTail DEF Has
<1> QED
  BY <1>3, <1>5, <1>6, <1>7, <1>8, <1>9 DEF s

-----------------------------------------------------------------------------
LEMMA TypeInit == Init => TypeOK
<1> SUFFICES ASSUME Init PROVE TypeOK
  OBVIOUS
<1>1. <<>> \in Seq(Kinds)
  BY EmptySeq
<1>2. q \in [Services -> Seq(Kinds)]
  BY <1>1 DEF Init
<1>3. stopped \in [Services -> BOOLEAN] /\ tpoll \in [Threads -> BOOLEAN]
  BY DEF Init
<1>4. pc \in [Threads -> {"none", "begin", "loop", "check", "stopping", "batch", "exited", "joined"}]
  BY DEF Init
<1> QED
  BY ZenonT(30), <1>2, <1>3, <1>4, ServiceFacts DEF Init, TypeOK

LEMMA TypeThread ==
  ASSUME TypeOK, NEW t \in Threads, ThreadStep(t)
  PROVE  TypeOK'
<1>1. CASE ThreadBegin(t)
  BY <1>1 DEF ThreadBegin, Move, TypeOK, callVars
<1>2. CASE StartHandler(t)
  BY <1>2, TakesFacts DEF StartHandler, TypeOK, threadVars, callVars
<1>3. CASE StopHandler(t)
  BY <1>3, TakesFacts, ServiceFacts DEF StopHandler, Move, TypeOK, callVars
<1>4. CASE StopHandlerSweep(t)
  BY <1>4 DEF StopHandlerSweep, TypeOK, callVars
<1>5. CASE StopHandlerFlag(t)
  BY ZenonT(30), <1>5 DEF StopHandlerFlag, Move, TypeOK, callVars
<1>6. CASE UserHandler(t)
  BY <1>6, TakesFacts DEF UserHandler, TypeOK, threadVars, callVars
<1>7. CASE HandlerThrows(t)
  BY ZenonT(30), <1>7, TakesFacts DEF HandlerThrows, Move, TypeOK, callVars
<1>8. CASE BatchEnds(t) \/ RunReturns(t) \/ PollReturns(t)
  BY <1>8 DEF BatchEnds, RunReturns, PollReturns, Move, TypeOK, callVars
<1>9. CASE WhileStarted(t)
  BY <1>9 DEF WhileStarted, Move, TypeOK, callVars
<1> QED
  BY <1>1, <1>2, <1>3, <1>4, <1>5, <1>6, <1>7, <1>8, <1>9 DEF ThreadStep, HandlerStep

LEMMA TypeCall ==
  ASSUME TypeOK, CallBegins \/ CallContinues \/ Posts
  PROVE  TypeOK'
<1>1. CASE \E p \in Modes : Start(p)
  BY <1>1, ServiceAssumption DEF Start, Goto, TypeOK, threadVars
<1>2. CASE Stop
  BY <1>2 DEF Stop, Goto, TypeOK, threadVars
<1>3. CASE StartPost
  BY <1>3, PostToFacts, ServiceFacts DEF StartPost, Goto, TypeOK, threadVars, Kinds
<1>4. CASE StartSpawn
  BY <1>4, ServiceAssumption DEF StartSpawn, Goto, TypeOK, Threads
<1>5. CASE StartReturn
  BY ZenonT(30), <1>5 DEF StartReturn, Goto, TypeOK, threadVars
<1>6. CASE StopPost
  BY <1>6, PostToFacts, ServiceFacts DEF StopPost, Goto, TypeOK, threadVars, Kinds
<1>7. CASE StopJoin
  BY <1>7, ServiceAssumption DEF StopJoin, Goto, TypeOK, Threads
<1>8. CASE StopReturn
  BY <1>8 DEF StopReturn, Goto, TypeOK, threadVars
<1>9. CASE RestartStart
  <2>1. <<>> \in Seq(Kinds)
    BY EmptySeq
  <2> QED
    BY <1>9, <2>1 DEF RestartStart, Goto, TypeOK, threadVars
<1>10. CASE Posts
  BY <1>10, PostToFacts DEF Posts, PostHandler, TypeOK, threadVars, callVars
<1> QED
  BY <1>1, <1>2, <1>3, <1>4, <1>5, <1>6, <1>7, <1>8, <1>9, <1>10 DEF CallBegins, CallContinues

LEMMA TypeStep == TypeOK /\ [Next]_vars => TypeOK'
<1>1. ASSUME TypeOK, UNCHANGED vars PROVE TypeOK'
  BY <1>1 DEF TypeOK, vars, threadVars, callVars
<1> QED
  BY <1>1, TypeThread, TypeCall DEF Next

(***************************************************************************)
(* The type invariant holds in every reachable state.                      *)
(***************************************************************************)
THEOREM ServiceTypeCorrect == Spec => []TypeOK
BY TypeInit, TypeStep, PTL DEF Spec
-----------------------------------------------------------------------------
(***************************************************************************)
(* The inductive invariant of AsioService.                                 *)
(***************************************************************************)
LifeInv == HandlersInv /\ SweepInv /\ StagesInv /\ StoppedInv /\ ServingInv

LEMMA LifeInvInit == Init => LifeInv
<1> SUFFICES ASSUME Init PROVE LifeInv
  OBVIOUS
<1>1. \A s \in Services : \A h : ~Has(s, h) /\ Once(q[s], h)
  BY QueueEmpty DEF Init, Has
<1>2. HandlersInv
  BY <1>1, ServiceFacts DEF Init, HandlersInv
<1>3. SweepInv /\ StagesInv
  BY DEF Init, SweepInv, StagesInv, Gone
<1>4. StoppedInv
  BY DEF Init, StoppedInv, Starting
<1>5. ServingInv
  BY <1>1 DEF Init, ServingInv
<1> QED
  BY <1>2, <1>3, <1>4, <1>5 DEF LifeInv

(***************************************************************************)
(* HandlersInv and SweepInv.                                               *)
(***************************************************************************)
LEMMA HandlersStart ==
  ASSUME TypeOK, HandlersInv, SweepInv, NEW t \in Threads, StartHandler(t)
  PROVE  HandlersInv' /\ SweepInv'
<1>1. /\ Takes(t, "start") /\ started' = TRUE
      /\ UNCHANGED <<pc, caller>>
  BY DEF StartHandler, threadVars, callVars
<1>2. ServiceOf(t) = 1 /\ Has(1, "start")
  BY <1>1, TakesFacts, ServiceFacts DEF HandlersInv
<1>3. ~Has(1, "start")' /\ ~Has(1, "stop")'
  BY <1>1, <1>2, TakesFacts, ServiceFacts DEF HandlersInv
<1>4. caller \in {"spawn", "start_spin"} /\ ~started
  BY <1>2 DEF HandlersInv
<1>5. HandlersInv'
  BY <1>1, <1>3, <1>4, TakesFacts, ServiceFacts DEF HandlersInv
<1>6. SweepInv'
  BY <1>1, <1>4 DEF SweepInv, Stopping
<1> QED
  BY <1>5, <1>6

LEMMA HandlersStop ==
  ASSUME TypeOK, HandlersInv, SweepInv, NEW t \in Threads, StopHandler(t)
  PROVE  HandlersInv' /\ SweepInv'
<1>1. Takes(t, "stop") /\ UNCHANGED <<started, caller>>
  BY DEF StopHandler, callVars
<1>2. ServiceOf(t) = 1 /\ Has(1, "stop")
  BY <1>1, TakesFacts, ServiceFacts DEF HandlersInv
<1>3. ~Has(1, "stop")'
  BY <1>1, <1>2, TakesFacts, ServiceFacts DEF HandlersInv
<1>4. caller \in Stopping /\ started
  BY <1>2 DEF HandlersInv
<1>5. \A u \in Threads : pc[u] # "stopping"
  BY <1>2 DEF SweepInv
<1>6. HandlersInv'
  BY <1>1, <1>3, <1>4, TakesFacts, ServiceFacts DEF HandlersInv, Stopping
<1>7. \A u \in Threads : pc'[u] = "stopping" => u = t
  BY <1>4, <1>5 DEF StopHandler, Move, TypeOK
<1>8. SweepInv'
  BY <1>1, <1>3, <1>4, <1>7 DEF SweepInv
<1> QED
  BY <1>6, <1>8

(***************************************************************************)
(* A step that takes another handler, or none, and stops nothing.          *)
(***************************************************************************)
LEMMA HandlersQuiet ==
  ASSUME HandlersInv, SweepInv, UNCHANGED <<started, caller>>,
         \A r \in Services : \A h : Has(r, h)' => Has(r, h),
         \A h : Once(q[1], h) => Once(q'[1], h),
         \A u \in Threads : pc'[u] = "stopping" => pc[u] = "stopping"
  PROVE  HandlersInv' /\ SweepInv'
BY ServiceFacts DEF HandlersInv, SweepInv

LEMMA HandlersFlag ==
  ASSUME TypeOK, HandlersInv, SweepInv, NEW t \in Threads, StopHandlerFlag(t)
  PROVE  HandlersInv' /\ SweepInv'
<1>1. /\ pc[t] = "stopping" /\ started' = FALSE
      /\ UNCHANGED <<q, caller>>
      /\ pc' = [pc EXCEPT ![t] = IF Pool THEN "batch" ELSE "loop"]
  BY DEF StopHandlerFlag, Move, callVars
<1>2. caller \in Stopping /\ ~Has(1, "stop")
  BY <1>1 DEF SweepInv
<1>3. \A u \in Threads : pc'[u] # "stopping"
  BY <1>1 DEF SweepInv, TypeOK
<1>4. \A r \in Services : \A h : Has(r, h)' <=> Has(r, h)
  BY <1>1 DEF Has
<1>5. HandlersInv'
  BY <1>1, <1>2, <1>4, ServiceFacts DEF HandlersInv, Stopping
<1>6. SweepInv'
  BY <1>3 DEF SweepInv
<1> QED
  BY <1>5, <1>6

LEMMA HandlersThread ==
  ASSUME TypeOK, HandlersInv, SweepInv, NEW t \in Threads, ThreadStep(t)
  PROVE  HandlersInv' /\ SweepInv'
<1>1. CASE ThreadBegin(t) \/ BatchEnds(t) \/ RunReturns(t) \/ PollReturns(t) \/ WhileStarted(t) \/ StopHandlerSweep(t)
  <2>1. UNCHANGED <<started, caller, q>>
    BY <1>1 DEF ThreadBegin, BatchEnds, RunReturns, PollReturns, WhileStarted, StopHandlerSweep, callVars
  <2>2. \A u \in Threads : pc'[u] = "stopping" => pc[u] = "stopping"
    BY <1>1 DEF ThreadBegin, BatchEnds, RunReturns, PollReturns, WhileStarted, StopHandlerSweep, Move, TypeOK
  <2>3. \A r \in Services : \A h : Has(r, h)' => Has(r, h)
    BY <2>1 DEF Has
  <2> QED
    BY <2>1, <2>2, <2>3, HandlersQuiet
<1>2. CASE UserHandler(t) \/ HandlerThrows(t)
  <2>1. PICK k : Takes(t, k)
    BY <1>2 DEF UserHandler, HandlerThrows
  <2>2. UNCHANGED <<started, caller>>
    BY <1>2 DEF UserHandler, HandlerThrows, callVars
  <2>3. \A u \in Threads : pc'[u] = "stopping" => pc[u] = "stopping"
    BY <1>2 DEF UserHandler, HandlerThrows, Move, TypeOK, threadVars
  <2> QED
    BY <2>1, <2>2, <2>3, TakesFacts, HandlersQuiet
<1> QED
  BY <1>1, <1>2, HandlersStart, HandlersStop, HandlersFlag DEF ThreadStep, HandlerStep

LEMMA HandlersCall ==
  ASSUME TypeOK, HandlersInv, SweepInv, StagesInv, CallBegins \/ CallContinues \/ Posts
  PROVE  HandlersInv' /\ SweepInv'
<1> USE ServiceFacts DEF Stopping
<1>1. CASE (\E p \in Modes : Start(p)) \/ Stop \/ StartReturn \/ StopReturn
  <2>1. UNCHANGED <<started, q, pc>>
    BY <1>1 DEF Start, Stop, StartReturn, StopReturn, threadVars
  <2>2. \A r \in Services : \A h : Has(r, h)' <=> Has(r, h)
    BY <2>1 DEF Has
  <2>3. HandlersInv'
    BY <1>1, <2>1, <2>2 DEF HandlersInv, Start, Stop, StartReturn, StopReturn, Goto
  <2>4. SweepInv'
    BY <1>1, <2>1, <2>2 DEF SweepInv, Start, Stop, StartReturn, StopReturn, Goto
  <2> QED
    BY <2>3, <2>4
<1>2. CASE StartPost
  <2>1. PostTo(1, "start") /\ caller = "start_post" /\ caller' = "spawn" /\ UNCHANGED <<started, pc>>
    BY <1>2 DEF StartPost, Goto, threadVars
  <2>2. "start" \in Kinds
    BY DEF Kinds
  <2>3. HandlersInv'
    BY <2>1, <2>2, PostToFacts DEF HandlersInv
  <2>4. SweepInv'
    BY <2>1 DEF SweepInv
  <2> QED
    BY <2>3, <2>4
<1>3. CASE StopPost
  <2>1. PostTo(1, "stop") /\ caller = "stop_post" /\ caller' = "join" /\ UNCHANGED <<started, pc>>
    BY <1>3 DEF StopPost, Goto, threadVars
  <2>2. "stop" \in Kinds
    BY DEF Kinds
  <2>3. HandlersInv'
    BY <2>1, <2>2, PostToFacts DEF HandlersInv
  <2>4. SweepInv'
    BY <2>1 DEF SweepInv
  <2> QED
    BY <2>3, <2>4
<1>4. CASE StartSpawn \/ StopJoin
  <2>1. UNCHANGED <<started, q>>
    BY <1>4 DEF StartSpawn, StopJoin
  <2>2. \A r \in Services : \A h : Has(r, h)' <=> Has(r, h)
    BY <2>1 DEF Has
  <2>3. \A u \in Threads : pc'[u] = "stopping" => pc[u] = "stopping"
    BY <1>4 DEF StartSpawn, StopJoin, TypeOK
  <2>4. HandlersInv'
    BY <1>4, <2>1, <2>2 DEF HandlersInv, StartSpawn, StopJoin, Goto
  <2>5. SweepInv'
    BY <1>4, <2>1, <2>2, <2>3 DEF SweepInv, StartSpawn, StopJoin, Goto
  <2> QED
    BY <2>4, <2>5
<1>5. CASE RestartStart
  <2>1. /\ caller = "stop_spin" /\ caller' = "start_post" /\ ~started
        /\ UNCHANGED <<started, pc>>
        /\ q' = [s \in Services |-> <<>>]
    BY <1>5 DEF RestartStart, Goto, threadVars
  <2>2. \A s \in Services : \A h : ~Has(s, h)' /\ Once(q'[s], h)
    BY <2>1, QueueEmpty DEF Has
  <2>3. HandlersInv'
    BY <2>1, <2>2 DEF HandlersInv
  <2>4. SweepInv'
    BY <2>1, <2>2 DEF SweepInv
  <2> QED
    BY <2>3, <2>4
<1>6. CASE Posts
  <2>1. PICK s \in Services, k \in Kinds : PostHandler(s, k)
    BY <1>6 DEF Posts
  <2>2. PostTo(s, k) /\ k # "start" /\ k # "stop" /\ UNCHANGED <<started, caller, pc>>
    BY <2>1 DEF PostHandler, Throwing, threadVars, callVars
  <2>3. HandlersInv'
    BY <2>2, PostToFacts DEF HandlersInv
  <2>4. SweepInv'
    BY <2>2, PostToFacts DEF SweepInv
  <2> QED
    BY <2>3, <2>4
<1> QED
  BY <1>1, <1>2, <1>3, <1>4, <1>5, <1>6 DEF CallBegins, CallContinues

(***************************************************************************)
(* StagesInv: threads are spawned and joined by the calls only.            *)
(***************************************************************************)
LEMMA ThreadStays ==
  ASSUME TypeOK, NEW t \in Threads, ThreadStep(t)
  PROVE  /\ UNCHANGED <<caller, index, restart>>
         /\ \A u \in Threads : pc'[u] \in Gone <=> pc[u] \in Gone
<1>1. CASE \E k : Takes(t, k)
  <2>1. pc[t] \in {"loop", "batch"}
    BY <1>1, TakesFacts
  <2>2. UNCHANGED <<caller, index, restart>>
    BY <2>1 DEF ThreadStep, HandlerStep, ThreadBegin, StartHandler, StopHandler, StopHandlerSweep, StopHandlerFlag,
       UserHandler, HandlerThrows, BatchEnds, RunReturns, PollReturns, WhileStarted, callVars
  <2>3. \A u \in Threads : pc'[u] \in Gone <=> pc[u] \in Gone
    BY <2>1 DEF ThreadStep, HandlerStep, ThreadBegin, StartHandler, StopHandler, StopHandlerSweep, StopHandlerFlag,
       UserHandler, HandlerThrows, BatchEnds, RunReturns, PollReturns, WhileStarted, threadVars, Move, Gone, TypeOK
  <2> QED
    BY <2>1, <2>2, <2>3 DEF Gone
<1>2. CASE ~\E k : Takes(t, k)
  <2>1. \/ ThreadBegin(t) \/ StopHandlerSweep(t) \/ StopHandlerFlag(t)
        \/ BatchEnds(t) \/ RunReturns(t) \/ PollReturns(t) \/ WhileStarted(t)
    BY <1>2 DEF ThreadStep, HandlerStep, StartHandler, StopHandler, UserHandler, HandlerThrows
  <2> QED
    BY <2>1 DEF ThreadBegin, StopHandlerSweep, StopHandlerFlag, BatchEnds, RunReturns, PollReturns, WhileStarted,
       callVars, Move, Gone, TypeOK
<1> QED
  BY <1>1, <1>2

LEMMA StagesThread ==
  ASSUME TypeOK, HandlersInv, SweepInv, StagesInv, NEW t \in Threads, ThreadStep(t)
  PROVE  StagesInv'
<1>1. /\ UNCHANGED <<caller, index>>
      /\ \A u \in Threads : pc'[u] \in Gone <=> pc[u] \in Gone
  BY ThreadStays
<1>2. caller = "idle" /\ ~started' => \A u \in Threads : pc[u] \in Gone
  <2> SUFFICES ASSUME caller = "idle", ~started' PROVE \A u \in Threads : pc[u] \in Gone
    OBVIOUS
  <2>1. CASE ~started
    BY <2>1 DEF StagesInv
  <2>2. CASE started
    <3>1. StopHandlerFlag(t)
      BY ZenonT(30), <2>2 DEF ThreadStep, HandlerStep, ThreadBegin, StartHandler, StopHandler, StopHandlerSweep,
         UserHandler, HandlerThrows, BatchEnds, RunReturns, PollReturns, WhileStarted
    <3> QED
      BY <3>1 DEF StopHandlerFlag, SweepInv, Stopping
  <2> QED
    BY <2>1, <2>2
<1> QED
  BY <1>1, <1>2 DEF StagesInv

LEMMA StagesCall ==
  ASSUME TypeOK, StagesInv, CallBegins \/ CallContinues \/ Posts
  PROVE  StagesInv'
<1>1. CASE \E p \in Modes : Start(p)
  BY <1>1 DEF Start, Goto, StagesInv, threadVars
<1>2. CASE Stop
  BY <1>2 DEF Stop, Goto, StagesInv, threadVars
<1>3. CASE StartPost
  BY <1>3 DEF StartPost, Goto, StagesInv, threadVars, Threads
<1>4. CASE StartSpawn
  BY <1>4 DEF StartSpawn, Goto, StagesInv, Threads, Gone, TypeOK
<1>5. CASE StartReturn
  BY <1>5 DEF StartReturn, Goto, StagesInv, threadVars
<1>6. CASE StopPost
  BY <1>6 DEF StopPost, Goto, StagesInv, threadVars, Threads
<1>7. CASE StopJoin
  BY <1>7 DEF StopJoin, Goto, StagesInv, Threads, Gone, TypeOK
<1>8. CASE StopReturn \/ RestartStart
  BY <1>8 DEF StopReturn, RestartStart, Goto, StagesInv, threadVars
<1>9. CASE Posts
  BY <1>9 DEF Posts, PostHandler, StagesInv, threadVars, callVars
<1> QED
  BY <1>1, <1>2, <1>3, <1>4, <1>5, <1>6, <1>7, <1>8, <1>9 DEF CallBegins, CallContinues

(***************************************************************************)
(* StoppedInv: an io_service of a started service is stopped only while a  *)
(* thread is inside the stop handler.                                      *)
(***************************************************************************)
LEMMA StoppedThread ==
  ASSUME TypeOK, HandlersInv, SweepInv, StoppedInv, NEW t \in Threads, ThreadStep(t)
  PROVE  StoppedInv'
<1> USE DEF Starting, Stopping
<1>1. CASE StartHandler(t)
  <2>1. Takes(t, "start") /\ UNCHANGED <<caller, stopped, pc>>
    BY <1>1 DEF StartHandler, threadVars, callVars
  <2>2. ServiceOf(t) = 1 /\ Has(1, "start")
    BY <2>1, TakesFacts, ServiceFacts DEF HandlersInv
  <2>3. \A s \in Services : ~stopped[s]
    BY <2>2 DEF HandlersInv, StoppedInv
  <2> QED
    BY <2>1, <2>3 DEF StoppedInv
<1>2. CASE StopHandlerSweep(t)
  <2>1. pc[t] = "stopping" /\ UNCHANGED <<started, caller, pc>>
    BY <1>2 DEF StopHandlerSweep, callVars
  <2> QED
    BY <2>1 DEF StoppedInv, SweepInv
<1>3. CASE StopHandlerFlag(t)
  BY <1>3 DEF StopHandlerFlag, callVars, StoppedInv
<1>4. CASE ~StartHandler(t) /\ ~StopHandlerSweep(t) /\ ~StopHandlerFlag(t)
  <2>1. UNCHANGED <<started, caller, stopped>>
    BY <1>4 DEF ThreadStep, HandlerStep, ThreadBegin, StopHandler, UserHandler, HandlerThrows,
       BatchEnds, RunReturns, PollReturns, WhileStarted, callVars
  <2>2. pc[t] # "stopping"
    <3>1. (\E k : Takes(t, k)) => pc[t] # "stopping"
      BY TakesFacts
    <3> QED
      BY <1>4, <3>1 DEF ThreadStep, HandlerStep, ThreadBegin, StopHandler, UserHandler, HandlerThrows,
         BatchEnds, RunReturns, PollReturns, WhileStarted
  <2>3. \A u \in Threads : u # t => pc'[u] = pc[u]
    BY <1>4 DEF ThreadStep, HandlerStep, ThreadBegin, StopHandler, UserHandler, HandlerThrows,
       BatchEnds, RunReturns, PollReturns, WhileStarted, Move, threadVars, TypeOK
  <2> QED
    BY <2>1, <2>2, <2>3 DEF StoppedInv
<1> QED
  BY <1>1, <1>2, <1>3, <1>4

LEMMA StoppedCall ==
  ASSUME TypeOK, HandlersInv, SweepInv, StoppedInv, CallBegins \/ CallContinues \/ Posts
  PROVE  StoppedInv'
<1> USE DEF Starting, Stopping
<1>1. CASE \E p \in Modes : Start(p)
  BY <1>1 DEF Start, Goto, StoppedInv, threadVars
<1>2. CASE Stop \/ StartPost \/ StartReturn \/ StopPost \/ StopReturn
  BY <1>2 DEF Stop, StartPost, StartReturn, StopPost, StopReturn, Goto, StoppedInv, threadVars
<1>3. CASE StartSpawn \/ StopJoin
  <2>1. UNCHANGED <<started, stopped>> /\ (caller' \in Starting => caller \in Starting)
    BY <1>3 DEF StartSpawn, StopJoin, Goto
  <2>2. CASE StartSpawn
    <3>1. caller \in Starting
      BY <2>2 DEF StartSpawn, Goto
    <3> QED
      BY <2>1, <3>1 DEF StoppedInv
  <2>3. CASE StopJoin
    <3>1. \A u \in Threads : pc[u] = "stopping" => pc'[u] = "stopping"
      BY <2>3 DEF StopJoin, TypeOK
    <3> QED
      BY <2>1, <3>1 DEF StoppedInv
  <2> QED
    BY <1>3, <2>2, <2>3
<1>4. CASE RestartStart
  BY <1>4 DEF RestartStart, Goto, StoppedInv
<1>5. CASE Posts
  BY <1>5 DEF Posts, PostHandler, StoppedInv, threadVars, callVars
<1> QED
  BY <1>1, <1>2, <1>3, <1>4, <1>5 DEF CallBegins, CallContinues

(***************************************************************************)
(* ServingInv: when no handler throws, a started service has a thread that *)
(* is in its loop.                                                         *)
(***************************************************************************)
LEMMA ServingThread ==
  ASSUME TypeOK, StoppedInv, ServingInv, ~MayThrow, NEW t \in Threads, ThreadStep(t)
  PROVE  ServingInv'
<1> DEFINE Busy == {"loop", "check", "stopping", "batch"}
<1>1. \A r \in Services : ~Has(r, "throws")'
  <2>1. CASE \E k : Takes(t, k)
    BY <2>1, TakesFacts DEF ServingInv
  <2>2. CASE ~\E k : Takes(t, k)
    <3>1. q' = q
      BY <2>2 DEF ThreadStep, HandlerStep, ThreadBegin, StartHandler, StopHandler, StopHandlerSweep, StopHandlerFlag,
         UserHandler, HandlerThrows, BatchEnds, RunReturns, PollReturns, WhileStarted
    <3> QED
      BY SMTT(30), <3>1 DEF ServingInv, Has
  <2> QED
    BY <2>1, <2>2
<1>2. started' => \E u \in Threads : pc'[u] \in Busy
  <2>1. CASE StartHandler(t)
    BY <2>1, TakesFacts DEF StartHandler, threadVars
  <2>2. CASE StopHandlerFlag(t)
    BY <2>2 DEF StopHandlerFlag
  <2>3. CASE RunReturns(t)
    <3> SUFFICES ASSUME started' PROVE \E u \in Threads : pc'[u] \in Busy
      OBVIOUS
    <3>1. started /\ stopped[ServiceOf(t)] /\ pc[t] = "loop" /\ pc' = [pc EXCEPT ![t] = "exited"]
      BY <2>3 DEF RunReturns, Move
    <3>2. PICK u \in Threads : pc[u] = "stopping"
      BY <3>1, ServiceFacts DEF StoppedInv
    <3>3. pc'[u] = "stopping"
      BY <3>1, <3>2 DEF TypeOK
    <3> QED
      BY <3>3
  <2>4. CASE HandlerThrows(t)
    <3>1. ~Takes(t, "throws")
      BY TakesFacts, ServiceFacts DEF ServingInv
    <3>2. pc' = [pc EXCEPT ![t] = "check"]
      BY <2>4, <3>1 DEF HandlerThrows, Move
    <3> QED
      BY <3>2 DEF TypeOK
  <2>5. CASE StopHandlerSweep(t) \/ UserHandler(t)
    BY ZenonT(30), <2>5 DEF StopHandlerSweep, UserHandler, threadVars, ServingInv
  <2>6. CASE ThreadBegin(t) \/ BatchEnds(t) \/ PollReturns(t)
    BY ZenonT(30), <2>6 DEF ThreadBegin, BatchEnds, PollReturns, Move, TypeOK
  <2>7. CASE WhileStarted(t)
    BY <2>7 DEF WhileStarted, Move, TypeOK
  <2>8. CASE StopHandler(t)
    <3>1. Takes(t, "stop") /\ started' = started
      BY <2>8 DEF StopHandler
    <3>2. pc[t] \in {"loop", "batch"}
      BY <3>1, TakesFacts
    <3>3. pc'[t] \in {"loop", "batch", "stopping"}
      BY <2>8, <3>2 DEF StopHandler, Move, TypeOK
    <3> QED
      BY <3>3
  <2> QED
    BY <2>1, <2>2, <2>3, <2>4, <2>5, <2>6, <2>7, <2>8 DEF ThreadStep, HandlerStep
<1> QED
  BY <1>1, <1>2 DEF ServingInv

LEMMA ServingCall ==
  ASSUME TypeOK, StagesInv, ServingInv, ~MayThrow, CallBegins \/ CallContinues \/ Posts
  PROVE  ServingInv'
<1> DEFINE Busy == {"loop", "check", "stopping", "batch"}
<1>1. UNCHANGED started
  BY DEF CallBegins, CallContinues, Posts, Start, Stop, StartPost, StartSpawn, StartReturn, StopPost, StopJoin,
     StopReturn, RestartStart, PostHandler
<1>2. \A u \in Threads : pc[u] \in Busy => pc'[u] \in Busy
  <2>1. CASE StartSpawn
    <3>1. pc[index] \in Gone /\ pc' = [pc EXCEPT ![index] = "begin"]
      BY <2>1 DEF StartSpawn, Goto, StagesInv, TypeOK, Threads
    <3> QED
      BY <3>1 DEF Gone, TypeOK
  <2>2. CASE StopJoin
    BY <2>2 DEF StopJoin, TypeOK
  <2>3. CASE ~StartSpawn /\ ~StopJoin
    BY <2>3 DEF CallBegins, CallContinues, Posts, Start, Stop, StartPost, StartReturn, StopPost,
       StopReturn, RestartStart, PostHandler, threadVars
  <2> QED
    BY <2>1, <2>2, <2>3
<1>3. \A r \in Services : ~Has(r, "throws")'
  <2>1. CASE StartPost \/ StopPost
    <3>1. PICK k \in {"start", "stop"} : PostTo(1, k)
      BY <2>1 DEF StartPost, StopPost
    <3>2. k \in Kinds /\ k # "throws"
      BY <3>1 DEF Kinds
    <3> QED
      BY <3>1, <3>2, PostToFacts, ServiceFacts DEF ServingInv
  <2>2. CASE Posts
    <3>1. PICK r \in Services, k \in Kinds : PostHandler(r, k)
      BY <2>2 DEF Posts
    <3>2. PostTo(r, k) /\ k # "throws"
      BY <3>1 DEF PostHandler, Throwing
    <3> QED
      BY <3>1, <3>2, PostToFacts DEF ServingInv
  <2>3. CASE RestartStart
    BY <2>3, QueueEmpty DEF RestartStart, Has
  <2>4. CASE ~StartPost /\ ~StopPost /\ ~Posts /\ ~RestartStart
    <3>1. q' = q
      BY <2>4 DEF CallBegins, CallContinues, Start, Stop, StartSpawn, StartReturn, StopJoin, StopReturn
    <3> QED
      BY <3>1 DEF ServingInv, Has
  <2> QED
    BY <2>1, <2>2, <2>3, <2>4
<1> QED
  BY <1>1, <1>2, <1>3 DEF ServingInv

LEMMA LifeInvStep == TypeOK /\ LifeInv /\ [Next]_vars => LifeInv'
<1>1. ASSUME TypeOK, LifeInv, NEW t \in Threads, ThreadStep(t) PROVE LifeInv'
  <2>1. HandlersInv /\ SweepInv /\ StagesInv /\ StoppedInv /\ ServingInv
    BY <1>1 DEF LifeInv
  <2>2. HandlersInv' /\ SweepInv' /\ StagesInv' /\ StoppedInv'
    BY <1>1, <2>1, HandlersThread, StagesThread, StoppedThread
  <2>3. ServingInv'
    <3>1. CASE MayThrow
      BY <3>1 DEF ServingInv
    <3>2. CASE ~MayThrow
      BY <1>1, <2>1, <3>2, ServingThread
    <3> QED
      BY <3>1, <3>2
  <2> QED
    BY <2>2, <2>3 DEF LifeInv
<1>2. ASSUME TypeOK, LifeInv, CallBegins \/ CallContinues \/ Posts PROVE LifeInv'
  BY <1>2, HandlersCall, StagesCall, StoppedCall, ServingCall DEF LifeInv, ServingInv
<1>3. ASSUME LifeInv, UNCHANGED vars PROVE LifeInv'
  <2>1. \A r, h : Has(r, h)' <=> Has(r, h)
    BY <1>3 DEF vars, Has
  <2> QED
    BY <1>3, <2>1 DEF LifeInv, HandlersInv, SweepInv, StagesInv, StoppedInv, ServingInv, vars, threadVars, callVars
<1> QED
  BY SMTT(30), <1>1, <1>2, <1>3 DEF Next

(***************************************************************************)
(* In every reachable state of the service the types and the inductive     *)
(* invariant hold: which of the start, stop and sweep handlers are queued, *)
(* and which threads exist and serve, at each stage of Start and Stop.     *)
(***************************************************************************)
THEOREM LifeInvariant == Spec => [](TypeOK /\ LifeInv)
BY TypeInit, TypeStep, LifeInvInit, LifeInvStep, PTL DEF Spec
-----------------------------------------------------------------------------
(***************************************************************************)
(* Stop leaves no thread behind, Start never assigns over a joinable       *)
(* thread, and no stop handler outlives its Stop: for any number of        *)
(* threads, in both modes, polling or not, and also when handlers throw.   *)
(***************************************************************************)
THEOREM CleanStop == Spec => [](JoinedWhenDown /\ SpawnsOverJoined /\ NoStrayStop)
<1>1. TypeOK /\ LifeInv => JoinedWhenDown
  BY DEF LifeInv, StagesInv, JoinedWhenDown
<1>2. TypeOK /\ LifeInv => SpawnsOverJoined
  BY DEF LifeInv, StagesInv, SpawnsOverJoined, TypeOK, Threads
<1>3. TypeOK /\ LifeInv => NoStrayStop
  BY DEF LifeInv, HandlersInv, SweepInv, NoStrayStop, Stopping
<1> QED
  BY <1>1, <1>2, <1>3, LifeInvariant, PTL
-----------------------------------------------------------------------------
(***************************************************************************)
(* DrainInv.                                                               *)
(***************************************************************************)
LEMMA QueueOrder ==
  ASSUME NEW w \in Seq(Kinds)
  PROVE  /\ \A k \in Kinds : UsersFirst(w) /\ k # "user" => UsersFirst(Append(w, k))
         /\ w # <<>> /\ UsersFirst(w) => UsersFirst(Tail(w))
         /\ w # <<>> /\ UsersFirst(w) /\ InQueue(w, "stop") => InQueue(Tail(w), "stop") \/ ~InQueue(Tail(w), "user")
         /\ ~InQueue(w, "stop") => UsersFirst(w)
<1>1. \A k \in Kinds : UsersFirst(w) /\ k # "user" => UsersFirst(Append(w, k))
  BY DEF UsersFirst
<1>2. ASSUME w # <<>>
      PROVE  /\ Len(w) \in Nat /\ Len(w) > 0
             /\ Len(Tail(w)) = Len(w) - 1
             /\ \A i \in 1..Len(Tail(w)) : Tail(w)[i] = w[i + 1]
  BY <1>2, HeadTailProperties, LenProperties, EmptySeq
<1>3. w # <<>> /\ UsersFirst(w) => UsersFirst(Tail(w))
  BY <1>2 DEF UsersFirst
<1>4. ASSUME w # <<>>, UsersFirst(w), InQueue(w, "stop"), InQueue(Tail(w), "user")
      PROVE  InQueue(Tail(w), "stop")
  <2>1. PICK j \in 1..Len(w) : w[j] = "stop"
    BY <1>4 DEF InQueue
  <2>2. PICK i \in 1..Len(Tail(w)) : Tail(w)[i] = "user"
    BY <1>4 DEF InQueue
  <2>3. i + 1 \in 1..Len(w) /\ w[i + 1] = "user"
    BY <1>2, <1>4, <2>2
  <2>4. i + 1 < j
    BY <1>4, <2>1, <2>3 DEF UsersFirst
  <2>5. j - 1 \in 1..Len(Tail(w)) /\ Tail(w)[j - 1] = "stop"
    BY <1>2, <1>4, <2>1, <2>2, <2>4
  <2> QED
    BY <2>5 DEF InQueue
<1>5. ~InQueue(w, "stop") => UsersFirst(w)
  BY DEF UsersFirst, InQueue
<1> QED
  BY <1>1, <1>3, <1>4, <1>5

LEMMA DrainThread ==
  ASSUME TypeOK, LifeInv, DrainInv, NEW t \in Threads, ThreadStep(t)
  PROVE  DrainInv'
<1>1. caller' = caller
  BY ThreadStays
<1>2. q[1] \in Seq(Kinds) /\ 1 \in Services
  BY ServiceFacts DEF TypeOK
<1>3. q'[1] = q[1] \/ (q[1] # <<>> /\ q'[1] = Tail(q[1]))
  <2>1. CASE \E k : Takes(t, k)
    <3>1. q[ServiceOf(t)] # <<>> /\ q' = [q EXCEPT ![ServiceOf(t)] = Tail(@)]
      BY SMTT(30), <2>1 DEF Takes
    <3> QED
      BY <1>2, <3>1, ServiceFacts DEF TypeOK
  <2>2. CASE ~\E k : Takes(t, k)
    BY <2>2 DEF ThreadStep, HandlerStep, ThreadBegin, StartHandler, StopHandler, StopHandlerSweep, StopHandlerFlag,
       UserHandler, HandlerThrows, BatchEnds, RunReturns, PollReturns, WhileStarted
  <2> QED
    BY <2>1, <2>2
<1>4. Has(1, "user")' => Has(1, "user")
  BY <1>2, <1>3, QueueTail DEF Has
<1>5. caller \in Stopping => UsersFirst(q'[1]) /\ (Has(1, "stop")' \/ ~Has(1, "user")')
  BY <1>2, <1>3, <1>4, QueueOrder DEF DrainInv, Has
<1>6. ~started' => ~Has(1, "user")'
  <2>1. CASE StopHandlerFlag(t)
    <3>1. q' = q /\ pc[t] = "stopping"
      BY <2>1 DEF StopHandlerFlag
    <3>2. caller \in Stopping /\ ~Has(1, "stop")
      BY <3>1 DEF LifeInv, SweepInv
    <3> QED
      BY <1>4, <3>2 DEF DrainInv
  <2>2. CASE ~StopHandlerFlag(t)
    <3>1. ~started' => ~started
      BY <2>2 DEF ThreadStep, HandlerStep, ThreadBegin, StartHandler, StopHandler, StopHandlerSweep,
         UserHandler, HandlerThrows, BatchEnds, RunReturns, PollReturns, WhileStarted
    <3> QED
      BY SMTT(30), <1>4, <3>1 DEF DrainInv
  <2> QED
    BY <2>1, <2>2
<1> QED
  BY <1>1, <1>5, <1>6 DEF DrainInv

LEMMA DrainCall ==
  ASSUME TypeOK, LifeInv, DrainInv, CallBegins \/ CallContinues \/ Posts
  PROVE  DrainInv'
<1>0. q[1] \in Seq(Kinds) /\ q \in [Services -> Seq(Kinds)] /\ 1 \in Services
  BY ServiceFacts DEF TypeOK
<1>1. CASE (\E p \in Modes : Start(p)) \/ Stop \/ StartReturn \/ StopReturn \/ StartSpawn \/ StopJoin
  <2>1. UNCHANGED <<started, q>> /\ (caller' \in Stopping => caller \in Stopping)
    BY <1>1 DEF Start, Stop, StartReturn, StopReturn, StartSpawn, StopJoin, Goto, Stopping
  <2> QED
    BY <2>1 DEF DrainInv, Has
<1>2. CASE StartPost
  <2>1. /\ PostTo(1, "start") /\ caller' \notin Stopping /\ UNCHANGED started
        /\ "start" \in Kinds
    BY <1>2 DEF StartPost, Goto, Stopping, Kinds
  <2>2. Has(1, "user")' <=> Has(1, "user")
    BY <1>0, <2>1, PostToFacts
  <2> QED
    BY <2>1, <2>2 DEF DrainInv
<1>3. CASE StopPost
  <2>1. PostTo(1, "stop") /\ caller = "stop_post" /\ UNCHANGED started /\ "stop" \in Kinds
    BY <1>3 DEF StopPost, Goto, Kinds
  <2>2. started /\ ~Has(1, "stop")
    BY <2>1 DEF LifeInv, HandlersInv, Stopping
  <2>3. Has(1, "stop")'
    BY <1>0, <2>1, PostToFacts
  <2>4. q'[1] = Append(q[1], "stop")
    BY <1>0, <2>1 DEF PostTo
  <2>5. UsersFirst(q'[1])
    BY <1>0, <2>1, <2>2, <2>4, QueueOrder DEF Has
  <2> QED
    BY <2>1, <2>2, <2>3, <2>5 DEF DrainInv
<1>4. CASE RestartStart
  <2>1. caller' \notin Stopping /\ q'[1] = <<>>
    BY <1>0, <1>4 DEF RestartStart, Goto, Stopping
  <2> QED
    BY <2>1, QueueEmpty DEF DrainInv, Has
<1>5. CASE Posts
  <2>1. PICK s \in Services, k \in Kinds : PostHandler(s, k)
    BY <1>5 DEF Posts
  <2>2. /\ PostTo(s, k) /\ UNCHANGED <<started, caller>>
        /\ k = "user" => started /\ caller = "idle"
    BY <2>1 DEF PostHandler, callVars, Throwing
  <2>3. q'[1] = IF s = 1 THEN Append(q[1], k) ELSE q[1]
    BY <1>0, <2>2 DEF PostTo
  <2>4. \A h : Has(1, h)' <=> Has(1, h) \/ (s = 1 /\ h = k)
    BY <1>0, <2>2, PostToFacts
  <2>5. caller \in Stopping => k # "user"
    BY <2>2 DEF Stopping
  <2>6. caller \in Stopping => UsersFirst(q'[1])
    BY <1>0, <2>3, <2>5, QueueOrder DEF DrainInv
  <2> QED
    BY <2>2, <2>4, <2>5, <2>6 DEF DrainInv
<1> QED
  BY <1>1, <1>2, <1>3, <1>4, <1>5 DEF CallBegins, CallContinues

LEMMA DrainInvariant == Spec => []DrainInv
<1>1. Init => DrainInv
  BY ServiceFacts, QueueEmpty DEF Init, DrainInv, Has, Stopping
<1>2. TypeOK /\ LifeInv /\ DrainInv /\ [Next]_vars => DrainInv'
  <2>1. ASSUME DrainInv, UNCHANGED vars PROVE DrainInv'
    BY <2>1 DEF vars, callVars, DrainInv, Has
  <2> QED
    BY <2>1, DrainThread, DrainCall DEF Next
<1> QED
  BY <1>1, <1>2, LifeInvariant, PTL DEF Spec

(***************************************************************************)
(* Stop() lets the handlers posted to io_service 1 before it run, for any  *)
(* number of threads, in both modes, and also when handlers throw.         *)
(***************************************************************************)
THEOREM StopDrains == Spec => []DrainedWhenDown
<1>1. DrainInv => DrainedWhenDown
  BY DEF DrainInv, DrainedWhenDown
<1> QED
  BY <1>1, DrainInvariant, PTL
-----------------------------------------------------------------------------
(***************************************************************************)
(* RunInv.  A step of a thread cannot leave run() before Stop() is called: *)
(* no io_service is stopped, nothing throws and no stop handler waits.     *)
(***************************************************************************)
LEMMA RunThread ==
  ASSUME TypeOK, LifeInv, RunInv, ~MayThrow, NEW t \in Threads, ThreadStep(t)
  PROVE  RunInv'
<1>1. /\ UNCHANGED caller
      /\ \A u \in Threads : pc'[u] \in Gone <=> pc[u] \in Gone
  BY ThreadStays
<1>2. \A r \in Services : ~Has(r, "notconn")'
  <2>1. CASE \E k : Takes(t, k)
    BY <2>1, TakesFacts DEF RunInv
  <2>2. CASE ~\E k : Takes(t, k)
    <3>1. q' = q
      BY <2>2 DEF ThreadStep, HandlerStep, ThreadBegin, StartHandler, StopHandler, StopHandlerSweep, StopHandlerFlag,
         UserHandler, HandlerThrows, BatchEnds, RunReturns, PollReturns, WhileStarted
    <3> QED
      BY SMTT(30), <3>1 DEF RunInv, Has
  <2> QED
    BY <2>1, <2>2
<1>3. caller = "idle" /\ started' => started
  <2>1. CASE StartHandler(t)
    <3>1. Has(1, "start")
      BY SMTT(30), <2>1, TakesFacts, ServiceFacts DEF StartHandler, LifeInv, HandlersInv
    <3> QED
      BY <3>1 DEF LifeInv, HandlersInv
  <2>2. CASE ~StartHandler(t)
    BY ZenonT(30), <2>2 DEF ThreadStep, HandlerStep, ThreadBegin, StopHandler, StopHandlerSweep, StopHandlerFlag,
       UserHandler, HandlerThrows, BatchEnds, RunReturns, PollReturns, WhileStarted
  <2> QED
    BY <2>1, <2>2
<1>4. ASSUME Running', ~polling'
      PROVE  \A u \in Threads : /\ pc'[u] \in Gone \cup {"begin", "loop"}
                                /\ pc'[u] = "loop" => ~tpoll'[u]
  <2>1. Running /\ caller \notin Stopping
    BY <1>1, <1>3, <1>4 DEF Running, Stopping
  <2>2. polling' = polling
    BY DEF ThreadStep, HandlerStep, ThreadBegin, StartHandler, StopHandler, StopHandlerSweep, StopHandlerFlag,
       UserHandler, HandlerThrows, BatchEnds, RunReturns, PollReturns, WhileStarted
  <2>3. \A u \in Threads : /\ pc[u] \in Gone \cup {"begin", "loop"}
                           /\ pc[u] = "loop" => ~tpoll[u]
    BY <1>4, <2>1, <2>2 DEF RunInv
  <2>4. pc[t] \notin {"stopping", "batch", "check"}
    BY <2>3 DEF Gone
  <2>5. \A s \in Services : ~stopped[s]
    BY <2>1, <2>3 DEF LifeInv, StoppedInv, Running, Starting, Gone
  <2>6. ~Takes(t, "stop") /\ ~Takes(t, "throws") /\ ~Takes(t, "notconn")
    <3>1. \A s \in Services : ~Has(s, "stop")
      BY <2>1, ServiceFacts DEF LifeInv, HandlersInv
    <3>2. \A s \in Services : ~Has(s, "throws") /\ ~Has(s, "notconn")
      BY DEF LifeInv, ServingInv, RunInv
    <3> QED
      BY <3>1, <3>2, TakesFacts, ServiceFacts
  <2>7. CASE ThreadBegin(t)
    BY <1>4, <2>2, <2>3, <2>7 DEF ThreadBegin, Move, TypeOK
  <2>8. CASE StartHandler(t) \/ UserHandler(t)
    BY <2>3, <2>8 DEF StartHandler, UserHandler, threadVars
  <2>9. ThreadBegin(t) \/ StartHandler(t) \/ UserHandler(t)
    <3>1. ~StopHandler(t) /\ ~HandlerThrows(t)
      BY <2>6 DEF StopHandler, HandlerThrows
    <3>2. ~StopHandlerSweep(t) /\ ~StopHandlerFlag(t) /\ ~BatchEnds(t) /\ ~WhileStarted(t)
      BY <2>4 DEF StopHandlerSweep, StopHandlerFlag, BatchEnds, WhileStarted
    <3>3. ~RunReturns(t) /\ ~PollReturns(t)
      BY <2>3, <2>5, ServiceFacts DEF RunReturns, PollReturns
    <3> QED
      BY <3>1, <3>2, <3>3 DEF ThreadStep, HandlerStep
  <2> QED
    BY <2>7, <2>8, <2>9
<1>5. caller' = "idle" /\ started' => \A u \in Threads : pc'[u] \notin Gone
  BY <1>1, <1>3 DEF RunInv
<1> QED
  BY <1>2, <1>4, <1>5 DEF RunInv

LEMMA RunCall ==
  ASSUME TypeOK, LifeInv, RunInv, ~MayThrow, CallBegins \/ CallContinues \/ Posts
  PROVE  RunInv'
<1> DEFINE Runs(u) == pc[u] \in Gone \cup {"begin", "loop"} /\ (pc[u] = "loop" => ~tpoll[u])
<1>1. \A r \in Services : ~Has(r, "notconn")'
  <2>1. CASE StartPost \/ StopPost
    <3>1. PICK k \in {"start", "stop"} : PostTo(1, k)
      BY <2>1 DEF StartPost, StopPost
    <3>2. k \in Kinds /\ k # "notconn"
      BY <3>1 DEF Kinds
    <3> QED
      BY <3>1, <3>2, PostToFacts, ServiceFacts DEF RunInv
  <2>2. CASE Posts
    <3>1. PICK r \in Services, k \in Kinds : PostHandler(r, k)
      BY <2>2 DEF Posts
    <3>2. PostTo(r, k) /\ k # "notconn"
      BY <3>1 DEF PostHandler, Throwing
    <3> QED
      BY <3>1, <3>2, PostToFacts DEF RunInv
  <2>3. CASE RestartStart
    BY <2>3, QueueEmpty DEF RestartStart, Has
  <2>4. CASE ~StartPost /\ ~StopPost /\ ~Posts /\ ~RestartStart
    <3>1. q' = q
      BY <2>4 DEF CallBegins, CallContinues, Start, Stop, StartSpawn, StartReturn, StopJoin, StopReturn
    <3> QED
      BY <3>1 DEF RunInv, Has
  <2> QED
    BY <2>1, <2>2, <2>3, <2>4
<1>2. CASE (\E p \in Modes : Start(p)) \/ Stop \/ StopPost \/ StopJoin \/ RestartStart
  <2>1. caller' \notin {"spawn", "start_spin", "idle"}
    BY SMTT(30), <1>2 DEF Start, Stop, StopPost, StopJoin, RestartStart, Goto
  <2> QED
    BY <1>1, <2>1 DEF RunInv, Running
<1>3. CASE StartPost
  <2>1. caller = "start_post" /\ caller' = "spawn" /\ UNCHANGED pc
    BY <1>3 DEF StartPost, Goto, threadVars
  <2>2. \A u \in Threads : pc'[u] \in Gone
    BY <2>1 DEF LifeInv, StagesInv
  <2> QED
    BY <1>1, <2>1, <2>2 DEF RunInv, Gone
<1>4. CASE StartSpawn
  <2>1. /\ caller = "spawn" /\ caller' # "idle" /\ UNCHANGED <<polling, tpoll>>
        /\ pc' = [pc EXCEPT ![index] = "begin"]
    BY <1>4 DEF StartSpawn, Goto
  <2>2. ~polling => \A u \in Threads : Runs(u)
    BY <2>1 DEF RunInv, Running
  <2>3. ~polling => \A u \in Threads : Runs(u)'
    BY <2>1, <2>2 DEF TypeOK
  <2> QED
    BY <1>1, <2>1, <2>3 DEF RunInv
<1>5. CASE StartReturn
  <2>1. caller = "start_spin" /\ UNCHANGED <<polling, tpoll, pc>>
    BY <1>5 DEF StartReturn, Goto, threadVars
  <2>2. \A u \in Threads : pc'[u] \notin Gone
    BY <2>1 DEF LifeInv, StagesInv
  <2>3. ~polling => \A u \in Threads : Runs(u)'
    BY <2>1 DEF RunInv, Running
  <2> QED
    BY <1>1, <2>1, <2>2, <2>3 DEF RunInv
<1>6. CASE StopReturn
  <2>1. caller' = "idle" /\ ~started'
    BY <1>6 DEF StopReturn, Goto
  <2> QED
    BY <1>1, <2>1 DEF RunInv, Running
<1>7. CASE Posts
  <2>1. UNCHANGED <<started, polling, pc, tpoll, caller>>
    BY <1>7 DEF Posts, PostHandler, threadVars, callVars
  <2> QED
    BY <1>1, <2>1 DEF RunInv, Running
<1> QED
  BY <1>2, <1>3, <1>4, <1>5, <1>6, <1>7 DEF CallBegins, CallContinues

(***************************************************************************)
(* A service started without polling keeps all of its threads in run() as  *)
(* long as nobody calls Stop() and no handler throws, for any number of    *)
(* threads and however late they are scheduled.                            *)
(***************************************************************************)
THEOREM ThreadsServe == Spec => []AllThreadsServe
<1>1. Init => RunInv
  BY QueueEmpty DEF Init, RunInv, Running, Has
<1>2. TypeOK /\ LifeInv /\ RunInv /\ [Next]_vars => RunInv'
  <2>1. ASSUME RunInv, UNCHANGED vars PROVE RunInv'
    BY <2>1 DEF vars, threadVars, callVars, RunInv, Running, Has
  <2>2. CASE MayThrow
    BY <2>2 DEF RunInv
  <2> QED
    BY <2>1, <2>2, RunThread, RunCall DEF Next
<1>3. RunInv => AllThreadsServe
  BY DEF RunInv, Running, AllThreadsServe
<1> QED
  BY <1>1, <1>2, <1>3, LifeInvariant, PTL DEF Spec
-----------------------------------------------------------------------------
(***************************************************************************)
(* The refinement: every step of the service is a step of ServiceLifecycle *)
(* or leaves up, live and call alone.                                      *)
(***************************************************************************)
LEMMA ThreadRefines ==
  ASSUME TypeOK, LifeInv, NEW t \in Threads, ThreadStep(t)
  PROVE  Lifecycle!LifeNext \/ UNCHANGED <<started, Live, Call>>
<1>1. Call' = Call
  BY ThreadStays DEF Call
<1>2. Live' = Live
  BY ThreadStays DEF Live
<1>3. CASE StartHandler(t)
  <2>1. Takes(t, "start") /\ started' = TRUE
    BY <1>3 DEF StartHandler
  <2>2. Has(1, "start") /\ pc[t] \in {"loop", "batch"}
    BY <2>1, TakesFacts, ServiceFacts DEF LifeInv, HandlersInv
  <2>3. Call = "start" /\ t \in Live
    BY <2>2 DEF LifeInv, HandlersInv, Call, Live, Gone
  <2>4. Lifecycle!Rise
    BY <1>1, <1>2, <2>1, <2>3 DEF Lifecycle!Rise
  <2> QED
    BY <2>4 DEF Lifecycle!LifeNext
<1>4. CASE StopHandlerFlag(t)
  <2>1. pc[t] = "stopping" /\ started' = FALSE
    BY <1>4 DEF StopHandlerFlag
  <2>2. Call \in {"stop", "restart"}
    BY <2>1 DEF LifeInv, SweepInv, Stopping, Call
  <2>3. Lifecycle!Fall
    BY <1>1, <1>2, <2>1, <2>2 DEF Lifecycle!Fall
  <2> QED
    BY <2>3 DEF Lifecycle!LifeNext
<1>5. CASE ~StartHandler(t) /\ ~StopHandlerFlag(t)
  <2>1. started' = started
    BY <1>5 DEF ThreadStep, HandlerStep, ThreadBegin, StopHandler, StopHandlerSweep, UserHandler, HandlerThrows,
       BatchEnds, RunReturns, PollReturns, WhileStarted
  <2> QED
    BY SMTT(30), <1>1, <1>2, <2>1
<1> QED
  BY <1>3, <1>4, <1>5

LEMMA CallRefines ==
  ASSUME TypeOK, LifeInv, ~MayThrow, CallBegins \/ CallContinues \/ Posts
  PROVE  Lifecycle!LifeNext \/ UNCHANGED <<started, Live, Call>>
<1>1. CASE \E p \in Modes : Start(p)
  <2>1. caller = "idle" /\ caller' = "start_post" /\ ~started /\ UNCHANGED <<started, pc>>
    BY <1>1 DEF Start, Goto, threadVars
  <2>2. Live = {} /\ Live' = Live /\ Call = "none" /\ Call' = "start"
    BY <2>1 DEF Live, Call, LifeInv, StagesInv
  <2>3. Lifecycle!CallStart
    BY <2>1, <2>2 DEF Lifecycle!CallStart
  <2> QED
    BY <2>3 DEF Lifecycle!LifeNext
<1>2. CASE Stop
  <2>1. caller = "idle" /\ caller' = "stop_post" /\ started /\ UNCHANGED <<started, pc>>
    BY <1>2 DEF Stop, Goto, threadVars
  <2>2. Live' = Live /\ Call = "none" /\ Call' \in {"stop", "restart"}
    BY <2>1 DEF Live, Call
  <2>3. Lifecycle!CallStop
    BY <2>1, <2>2 DEF Lifecycle!CallStop
  <2> QED
    BY <2>3 DEF Lifecycle!LifeNext
<1>3. CASE StartSpawn
  <2>1. /\ caller = "spawn" /\ caller' \in {"spawn", "start_spin"} /\ index \in Threads
        /\ pc' = [pc EXCEPT ![index] = "begin"] /\ UNCHANGED started
    BY <1>3 DEF StartSpawn, Goto, TypeOK
  <2>2. pc[index] \in Gone
    BY <2>1 DEF LifeInv, StagesInv, Threads
  <2>3. Live' = Live \cup {index} /\ index \notin Live
    BY <2>1, <2>2 DEF Live, Gone, TypeOK
  <2>4. Call = "start" /\ Call' = "start"
    BY <2>1 DEF Call
  <2>5. Lifecycle!Spawn(index)
    BY <2>1, <2>3, <2>4 DEF Lifecycle!Spawn
  <2> QED
    BY <2>1, <2>5 DEF Lifecycle!LifeNext
<1>4. CASE StartReturn
  <2>1. caller = "start_spin" /\ caller' = "idle" /\ started /\ UNCHANGED <<started, pc>>
    BY <1>4 DEF StartReturn, Goto, threadVars
  <2>2. Live = Threads /\ Live' = Live /\ Call = "start" /\ Call' = "none"
    BY <2>1 DEF Live, Call, LifeInv, StagesInv
  <2>3. Lifecycle!StartDone
    BY <2>1, <2>2 DEF Lifecycle!StartDone
  <2> QED
    BY <2>3 DEF Lifecycle!LifeNext
<1>5. CASE StopJoin
  <2>1. /\ caller = "join" /\ caller' \in {"join", "stop_spin"} /\ index \in Threads /\ pc[index] = "exited"
        /\ pc' = [pc EXCEPT ![index] = "joined"] /\ UNCHANGED <<started, restart>>
    BY <1>5 DEF StopJoin, Goto, TypeOK
  <2>2. Live' = Live \ {index} /\ index \in Live
    BY <2>1 DEF Live, Gone, TypeOK
  <2>3. started => Live # {index}
    <3> SUFFICES ASSUME started PROVE Live # {index}
      OBVIOUS
    <3>1. PICK u \in Threads : pc[u] \in {"loop", "check", "stopping", "batch"}
      BY DEF LifeInv, ServingInv
    <3> QED
      BY <2>1, <3>1 DEF Live, Gone
  <2>4. Call \in {"stop", "restart"} /\ Call' = Call
    BY <2>1 DEF Call
  <2>5. Lifecycle!Join(index)
    BY <2>1, <2>2, <2>3, <2>4 DEF Lifecycle!Join
  <2> QED
    BY <2>1, <2>5 DEF Lifecycle!LifeNext
<1>6. CASE StopReturn \/ RestartStart
  <2>1. /\ caller = "stop_spin" /\ ~started /\ UNCHANGED <<started, pc, restart>>
        /\ (~restart /\ caller' = "idle") \/ (restart /\ caller' = "start_post")
    BY <1>6 DEF StopReturn, RestartStart, Goto, threadVars
  <2>2. Live = {} /\ Live' = Live
    BY <2>1 DEF Live, LifeInv, StagesInv
  <2>3. \/ Call = "stop" /\ Call' = "none"
        \/ Call = "restart" /\ Call' = "start"
    BY <2>1 DEF Call
  <2>4. Lifecycle!StopDone
    BY <2>1, <2>2, <2>3 DEF Lifecycle!StopDone
  <2> QED
    BY <2>4 DEF Lifecycle!LifeNext
<1>7. CASE StartPost \/ StopPost \/ Posts
  <2>1. /\ UNCHANGED <<started, pc, restart>>
        /\ \/ caller' = caller
           \/ caller = "start_post" /\ caller' = "spawn"
           \/ caller = "stop_post" /\ caller' = "join"
    BY <1>7 DEF StartPost, StopPost, Posts, PostHandler, Goto, threadVars, callVars
  <2>2. Live' = Live /\ Call' = Call
    BY <2>1 DEF Live, Call
  <2> QED
    BY <2>1, <2>2
<1> QED
  BY <1>1, <1>2, <1>3, <1>4, <1>5, <1>6, <1>7 DEF CallBegins, CallContinues

(***************************************************************************)
(* When no handler throws, Service keeps the promises of ServiceLifecycle: *)
(* Start returns with the service up and all threads there, Stop with the  *)
(* service down and all threads joined, and a service that is up always    *)
(* has a thread.                                                           *)
(***************************************************************************)
THEOREM LifecycleRefined == ASSUME ~MayThrow PROVE Spec => KeepsLifecycle
<1>1. Init => Lifecycle!LifeInit
  BY DEF Init, Lifecycle!LifeInit, Live, Call, Gone
<1>2. TypeOK /\ LifeInv /\ [Next]_vars => [Lifecycle!LifeNext]_(Lifecycle!lifeVars)
  <2>1. ASSUME UNCHANGED vars PROVE UNCHANGED <<started, Live, Call>>
    BY <2>1 DEF vars, threadVars, callVars, Live, Call
  <2> QED
    BY <2>1, ThreadRefines, CallRefines DEF Next, Lifecycle!lifeVars
<1> QED
  BY <1>1, <1>2, LifeInvariant, PTL DEF Spec, KeepsLifecycle, Lifecycle!LifeSpec
=============================================================================
