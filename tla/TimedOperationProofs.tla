------------------------ MODULE TimedOperationProofs ------------------------
(***************************************************************************)
(* Proofs about TimedOperation, for every set of io threads and every      *)
(* number of calls.                                                        *)
(***************************************************************************)
EXTENDS TimedOperation, SequenceTheorems, TLAPS

(***************************************************************************)
(* The variables start with values of their types.                         *)
(***************************************************************************)
LEMMA TimedInit == Init => TypeOK /\ TimedInv
<1> SUFFICES ASSUME Init PROVE TypeOK /\ TimedInv
  OBVIOUS
<1>1. TypeOK
  <2>1. at \in [IoThreads -> {"run", "write", "dead"}]
    BY DEF Init
  <2>2. write \in [IoThreads -> Writes]
    BY TimedAssumption DEF Init, NoWrite, Writes
  <2>3. QED
    BY <2>1, <2>2, TimedAssumption DEF Init, TypeOK
<1>2. TimedInv
  BY DEF Init, TimedInv, CountInv, QueueInv, CallerInv, TimerDue, OpDue
<1>3. QED
  BY <1>1, <1>2

(***************************************************************************)
(* Short sequences: what op_queue_ holds after a completion is added to it *)
(* or taken off it.                                                        *)
(***************************************************************************)
LEMMA AppendFirst == \A a : Append(<<>>, a) = <<a>>
OBVIOUS

LEMMA AppendSecond == \A a, b : Append(<<a>>, b) = <<a, b>>
<1> TAKE a, b
<1>1. <<a>> \in Seq({a, b}) /\ <<a, b>> \in Seq({a, b})
  OBVIOUS
<1>2. Append(<<a>>, b) \in Seq({a, b}) /\ Len(Append(<<a>>, b)) = 2
  BY <1>1
<1>3. \A i \in 1..2 : Append(<<a>>, b)[i] = <<a, b>>[i]
  BY <1>1
<1>4. QED
  BY ZenonT(30), <1>1, <1>2, <1>3, SeqEqual

LEMMA TailFirst == \A a : Tail(<<a>>) = <<>>
OBVIOUS

LEMMA TailSecond == \A a, b : Tail(<<a, b>>) = <<b>>
OBVIOUS

LEMMA HeadFirst == \A a : Head(<<a>>) = a
OBVIOUS

LEMMA HeadSecond == \A a, b : Head(<<a, b>>) = a
OBVIOUS

LEMMA EmptyConcat == \A a : <<>> \o <<a>> = <<a>>
OBVIOUS

LEMMA ConcatEmpty == \A a : <<a>> \o <<>> = <<a>>
OBVIOUS

(***************************************************************************)
(* The queues that occur.                                                  *)
(***************************************************************************)
LEMMA Queues ==
  /\ Append(<<>>, "timer") = <<"timer">> /\ Append(<<>>, "op") = <<"op">>
  /\ Append(<<"op">>, "timer") = <<"op", "timer">> /\ Append(<<"timer">>, "op") = <<"timer", "op">>
  /\ Tail(<<"timer">>) = <<>> /\ Tail(<<"op">>) = <<>>
  /\ Tail(<<"op", "timer">>) = <<"timer">> /\ Tail(<<"timer", "op">>) = <<"op">>
  /\ Head(<<"timer">>) = "timer" /\ Head(<<"op">>) = "op"
  /\ Head(<<"op", "timer">>) = "op" /\ Head(<<"timer", "op">>) = "timer"
  /\ <<>> \o <<"op">> = <<"op">> /\ <<>> \o <<"timer">> = <<"timer">>
  /\ <<"op">> \o <<>> = <<"op">> /\ <<"timer">> \o <<>> = <<"timer">>
  /\ <<>> \o <<>> = <<>>
<1>1. Append(<<>>, "timer") = <<"timer">> /\ Append(<<>>, "op") = <<"op">>
  BY ZenonT(30), AppendFirst
<1>2. Append(<<"op">>, "timer") = <<"op", "timer">> /\ Append(<<"timer">>, "op") = <<"timer", "op">>
  BY ZenonT(30), AppendSecond
<1>3. Tail(<<"timer">>) = <<>> /\ Tail(<<"op">>) = <<>>
  BY ZenonT(30), TailFirst
<1>4. Tail(<<"op", "timer">>) = <<"timer">> /\ Tail(<<"timer", "op">>) = <<"op">>
  BY ZenonT(30), TailSecond
<1>5. Head(<<"timer">>) = "timer" /\ Head(<<"op">>) = "op"
  BY ZenonT(30), HeadFirst
<1>6. Head(<<"op", "timer">>) = "op" /\ Head(<<"timer", "op">>) = "timer"
  BY ZenonT(30), HeadSecond
<1>7. <<>> \o <<"op">> = <<"op">> /\ <<>> \o <<"timer">> = <<"timer">>
  BY ZenonT(30), EmptyConcat
<1>8. <<"op">> \o <<>> = <<"op">> /\ <<"timer">> \o <<>> = <<"timer">>
  BY ZenonT(30), ConcatEmpty
<1>9. <<>> \o <<>> = <<>>
  OBVIOUS
<1>10. QED
  BY ZenonT(30), <1>1, <1>2, <1>3, <1>4, <1>5, <1>6, <1>7, <1>8, <1>9

(***************************************************************************)
(* The positions of the caller and the completions it has to expect.       *)
(***************************************************************************)
LEMMA CallerPreserves ==
  ASSUME TypeOK, TimedInv, Begin \/ CallerStep
  PROVE  TimedInv'
<1> USE DEF TimedInv, CountInv, QueueInv, CallerInv, TimerDue, OpDue
<1>1. CASE Begin
  BY <1>1 DEF Begin, TypeOK
<1>2. CASE ArmTimer
  BY <1>2 DEF ArmTimer, TypeOK
<1>3. CASE StartOp
  <2>1. CountInv' /\ CallerInv'
    BY <1>3 DEF StartOp, TypeOK
  <2>2. QueueInv'
    BY ZenonT(30), <1>3, Queues DEF StartOp, TypeOK
  <2>3. QED
    BY <2>1, <2>2
<1>4. CASE WaitDone
  BY <1>4 DEF WaitDone, opVars, TypeOK
<1>5. CASE Report
  BY <1>5 DEF Report, opVars, TypeOK
<1>6. QED
  BY <1>1, <1>2, <1>3, <1>4, <1>5 DEF CallerStep

(***************************************************************************)
(* A completion becomes due once.                                          *)
(***************************************************************************)
LEMMA EndsPreserve ==
  ASSUME TypeOK, TimedInv, NEW t \in IoThreads, TimerExpires \/ OpEnds \/ Close(t)
  PROVE  TimedInv'
<1> USE DEF TimedInv, TimerDue, OpDue
<1>1. CASE TimerExpires
  <2>1. CountInv' /\ CallerInv'
    BY <1>1 DEF TimerExpires, callVars, CountInv, CallerInv
  <2>2. q = <<>> \/ q = <<"op">>
    BY <1>1 DEF TimerExpires, QueueInv
  <2>3. QueueInv'
    BY ZenonT(30), <1>1, <2>2, Queues DEF TimerExpires, QueueInv
  <2>4. QED
    BY <2>1, <2>3
<1>2. CASE OpEnds
  <2>1. CountInv' /\ CallerInv'
    BY <1>2 DEF OpEnds, callVars, CountInv, CallerInv
  <2>2. q = <<>> \/ q = <<"timer">>
    BY <1>2 DEF OpEnds, QueueInv
  <2>3. QueueInv'
    BY ZenonT(30), <1>2, <2>2, Queues DEF OpEnds, QueueInv
  <2>4. QED
    BY <2>1, <2>3
<1>3. CASE Close(t)
  <2>1. CountInv' /\ CallerInv'
    BY <1>3 DEF Close, callVars, CountInv, CallerInv
  <2>2. op = "pending" => q = <<>> \/ q = <<"timer">>
    BY <1>3 DEF QueueInv
  <2>3. QueueInv'
    BY ZenonT(30), <1>3, <2>2, Queues DEF Close, QueueInv
  <2>4. QED
    BY <2>1, <2>3
<1>4. QED
  BY <1>1, <1>2, <1>3

(***************************************************************************)
(* A completion counts itself, and the first one makes the other due.      *)
(***************************************************************************)
LEMMA HandlersPreserve ==
  ASSUME TypeOK, TimedInv, NEW t \in IoThreads, ThreadStep(t)
  PROVE  TimedInv'
<1> USE DEF TimedInv, TimerDue, OpDue
<1>1. CASE TimerHandler(t)
  <2>1. q = <<"timer">> \/ q = <<"timer", "op">>
    BY <1>1, Queues DEF TimerHandler, Pops, QueueInv
  <2>2. /\ TimerDue /\ (q = <<"timer", "op">> <=> OpDue)
        /\ pc' = pc /\ calls' = calls /\ done' = done + 1
    BY <1>1, <2>1, Queues DEF TimerHandler, AsyncDone, QueueInv
  <2>3. CASE Cancels("timer")
    <3>1. CountInv' /\ CallerInv'
      BY <2>2, <2>3 DEF Cancels, TypeOK, CountInv, CallerInv
    <3>2. QueueInv'
      BY ZenonT(30), <2>1, <2>2, <2>3, Queues DEF Cancels, TypeOK, QueueInv
    <3>3. QED
      BY <3>1, <3>2
  <2>4. CASE Counts("timer") /\ q' = Tail(q)
    <3>1. CountInv' /\ CallerInv'
      BY <2>2, <2>4 DEF Counts, TypeOK, CountInv, CallerInv
    <3>2. QueueInv'
      BY ZenonT(30), <2>1, <2>2, <2>4, Queues DEF Counts, TypeOK, QueueInv
    <3>3. QED
      BY <3>1, <3>2
  <2>5. QED
    BY <1>1, <2>3, <2>4 DEF TimerHandler, AsyncDone
<1>2. CASE OpHandler(t)
  <2>1. q = <<"op">> \/ q = <<"op", "timer">>
    BY <1>2, Queues DEF OpHandler, Pops, QueueInv
  <2>2. /\ OpDue /\ (q = <<"op", "timer">> <=> TimerDue)
        /\ pc' = pc /\ calls' = calls /\ done' = done + 1
    BY <1>2, <2>1, Queues DEF OpHandler, AsyncDone, QueueInv
  <2>3. CASE Cancels("op")
    <3>1. CountInv' /\ CallerInv'
      BY <2>2, <2>3 DEF Cancels, TypeOK, CountInv, CallerInv
    <3>2. QueueInv'
      BY ZenonT(30), <2>1, <2>2, <2>3, Queues DEF Cancels, TypeOK, QueueInv
    <3>3. QED
      BY <3>1, <3>2
  <2>4. CASE Counts("op") /\ q' = Tail(q)
    <3>1. CountInv' /\ CallerInv'
      BY <2>2, <2>4 DEF Counts, TypeOK, CountInv, CallerInv
    <3>2. QueueInv'
      BY ZenonT(30), <2>1, <2>2, <2>4, Queues DEF Counts, TypeOK, QueueInv
    <3>3. QED
      BY <3>1, <3>2
  <2>5. QED
    BY <1>2, <2>3, <2>4 DEF OpHandler, AsyncDone
<1>3. CASE AssignValue(t)
  BY <1>3 DEF AssignValue, opVars, CountInv, QueueInv, CallerInv
<1>4. QED
  BY <1>1, <1>2, <1>3 DEF ThreadStep

(***************************************************************************)
(* The variables keep their types.  Those of "done" and of op_queue_ follow*)
(* from the inductive invariant in the next state.                         *)
(***************************************************************************)
LEMMA TypesPreserved ==
  ASSUME TypeOK, TimedInv, TimedInv', Next
  PROVE  TypeOK'
<1>1. done' \in 0..2
  BY DEF TimedInv, CountInv
<1>2. q' \in Seq({"timer", "op"})
  <2>1. /\ <<>> \in Seq({"timer", "op"})
        /\ <<"timer">> \in Seq({"timer", "op"}) /\ <<"op">> \in Seq({"timer", "op"})
        /\ <<"timer", "op">> \in Seq({"timer", "op"}) /\ <<"op", "timer">> \in Seq({"timer", "op"})
    OBVIOUS
  <2>2. q' \in {<<>>, <<"timer">>, <<"op">>, <<"timer", "op">>, <<"op", "timer">>}
    BY Zenon DEF TimedInv, QueueInv
  <2>3. QED
    BY ZenonT(30), <2>1, <2>2
<1>3. CASE Begin
  BY <1>1, <1>2, <1>3, TimedAssumption DEF Begin, TypeOK
<1>4. CASE ArmTimer \/ StartOp \/ WaitDone \/ Report
  BY <1>1, <1>2, <1>4 DEF ArmTimer, StartOp, WaitDone, Report, opVars, TypeOK
<1>5. CASE TimerExpires \/ OpEnds
  BY <1>1, <1>2, <1>5 DEF TimerExpires, OpEnds, callVars, TypeOK
<1>6. ASSUME NEW t \in IoThreads, Close(t)
      PROVE  TypeOK'
  BY <1>1, <1>2, <1>6 DEF Close, callVars, TypeOK
<1>7. ASSUME NEW t \in IoThreads, TimerHandler(t)
      PROVE  TypeOK'
  <2>1. timer' \in {"off", "armed", "expired", "cancelled", "counted"}
        /\ op' \in {"off", "pending", "ok", "error", "aborted", "counted"}
    BY ZenonT(30), <1>7 DEF TimerHandler, AsyncDone, Counts, Cancels, TypeOK
  <2>2. error' \in {"none", "timed_out", "error", "aborted"}
    BY <1>7 DEF TimerHandler, AsyncDone, TypeOK
  <2>3. at' \in [IoThreads -> {"run", "write", "dead"}]
    BY <1>7 DEF TimerHandler, AsyncDone, TypeOK
  <2>4. QED
    BY <1>1, <1>2, <1>7, <2>1, <2>2, <2>3 DEF TimerHandler, TypeOK
<1>8. ASSUME NEW t \in IoThreads, OpHandler(t)
      PROVE  TypeOK'
  <2>1. timer' \in {"off", "armed", "expired", "cancelled", "counted"}
        /\ op' \in {"off", "pending", "ok", "error", "aborted", "counted"}
    BY ZenonT(30), <1>8 DEF OpHandler, AsyncDone, Counts, Cancels, TypeOK
  <2>2. error' \in {"none", "timed_out", "error", "aborted"}
    <3>1. OpDue
      BY <1>8, Queues DEF OpHandler, Pops, TimedInv, QueueInv
    <3>2. QED
      BY <1>8, <3>1 DEF OpHandler, AsyncDone, TypeOK, OpDue
  <2>3. at' \in [IoThreads -> {"run", "write", "dead"}]
    BY <1>8 DEF OpHandler, AsyncDone, TypeOK
  <2>4. write' \in [IoThreads -> Writes]
    BY <1>8 DEF OpHandler, Writes, TypeOK
  <2>5. QED
    BY <1>1, <1>2, <1>8, <2>1, <2>2, <2>3, <2>4 DEF OpHandler, TypeOK
<1>9. ASSUME NEW t \in IoThreads, AssignValue(t)
      PROVE  TypeOK'
  <2>1. NoWrite \in Writes
    BY TimedAssumption DEF NoWrite, Writes
  <2>2. write[t] \in Writes
    BY DEF TypeOK
  <2>3. write[t].n \in Sizes \cup {0}
    BY <2>2 DEF Writes
  <2>4. value' \in Sizes \cup {0}
    BY <1>9, <2>3 DEF AssignValue, TypeOK
  <2>5. write' \in [IoThreads -> Writes] /\ at' \in [IoThreads -> {"run", "write", "dead"}]
    BY <1>9, <2>1 DEF AssignValue, TypeOK
  <2>6. QED
    BY <1>1, <1>2, <1>9, <2>4, <2>5 DEF AssignValue, opVars, TypeOK
<1>10. QED
  BY <1>3, <1>4, <1>5, <1>6, <1>7, <1>8, <1>9 DEF Next, CallerStep, ThreadStep

(***************************************************************************)
(* The types and the inductive invariant hold in every reachable state.    *)
(***************************************************************************)
THEOREM TimedInvariant == Spec => [](TypeOK /\ TimedInv)
<1>1. TypeOK /\ TimedInv /\ Next => TypeOK' /\ TimedInv'
  <2> SUFFICES ASSUME TypeOK, TimedInv, Next PROVE TypeOK' /\ TimedInv'
    OBVIOUS
  <2>1. TimedInv'
    <3>1. CASE TimerExpires \/ OpEnds
      <4>1. PICK t \in IoThreads : at[t] # "dead"
        BY <3>1 DEF TimerExpires, OpEnds, Served
      <4>2. QED
        BY <3>1, <4>1, EndsPreserve
    <3>2. CASE \E t \in IoThreads : ThreadStep(t) \/ Close(t)
      BY <3>2, EndsPreserve, HandlersPreserve
    <3>3. QED
      BY <3>1, <3>2, CallerPreserves DEF Next
  <2>2. QED
    BY <2>1, TypesPreserved
<1>2. TypeOK /\ TimedInv /\ UNCHANGED vars => TypeOK' /\ TimedInv'
  BY DEF vars, callVars, opVars, TypeOK, TimedInv, CountInv, QueueInv, CallerInv, TimerDue, OpDue
<1>3. QED
  BY <1>1, <1>2, TimedInit, PTL DEF Spec

(***************************************************************************)
(* Once the wait of a timed Send or Receive is over, neither of its two    *)
(* completions is outstanding, whatever closes the socket meanwhile and    *)
(* however many threads run the io_service.                                *)
(***************************************************************************)
THEOREM BothCompleted == Spec => []NothingOutstanding
<1>1. TypeOK /\ TimedInv => NothingOutstanding
  BY DEF TimedInv, QueueInv, CallerInv, TimerDue, OpDue, NothingOutstanding
<1>2. QED
  BY <1>1, TimedInvariant, PTL

(***************************************************************************)
(* ValueInv, for a single io thread.                                       *)
(***************************************************************************)
LEMMA ValueCaller ==
  ASSUME TypeOK, TimedInv, ValueInv, Begin \/ CallerStep
  PROVE  ValueInv'
<1>1. CASE Begin
  BY <1>1 DEF Begin, ValueInv, OpWasFirst
<1>2. CASE ArmTimer
  <2>1. done = 0
    BY <1>2 DEF ArmTimer, TimedInv, CountInv, CallerInv
  <2>2. QED
    BY <1>2, <2>1 DEF ArmTimer, ValueInv, OpWasFirst
<1>3. CASE StartOp
  <2>1. op = "off" /\ pc = "start"
    BY <1>3 DEF StartOp, TimedInv, CallerInv
  <2>2. ~OpWasFirst
    BY <2>1 DEF ValueInv
  <2>3. ~OpWasFirst' /\ op' # "ok"
    BY <1>3, <2>1, <2>2 DEF StartOp, OpWasFirst
  <2>4. QED
    BY <2>3 DEF ValueInv
<1>4. CASE WaitDone
  BY <1>4 DEF WaitDone, opVars, ValueInv, OpWasFirst, Assigned, Assigning, Died
<1>5. CASE Report
  BY <1>5 DEF Report, opVars, ValueInv, OpWasFirst
<1>6. QED
  BY <1>1, <1>2, <1>3, <1>4, <1>5 DEF CallerStep

LEMMA ValueEnds ==
  ASSUME TypeOK, TimedInv, ValueInv,
         TimerExpires \/ OpEnds \/ \E t \in IoThreads : Close(t)
  PROVE  ValueInv'
<1>1. UNCHANGED <<pc, calls, done, error, value, at, write>>
  BY DEF TimerExpires, OpEnds, Close, callVars
<1>2. OpWasFirst' = OpWasFirst
  BY <1>1 DEF OpWasFirst
<1>3. op = "counted" => op' = "counted" /\ moved' = moved
  BY DEF TimerExpires, OpEnds, Close
<1>4. op' = "ok" => moved' > 0
  <2>1. op' = "ok" => (op = "ok" /\ moved' = moved) \/ moved' \in Sizes
    BY DEF TimerExpires, OpEnds, Close
  <2>2. moved' \in Sizes => moved' > 0
    BY TimedAssumption
  <2>3. QED
    BY <2>1, <2>2 DEF ValueInv
<1>5. op = "counted" => Assigned' = Assigned /\ Assigning' = Assigning /\ Died' = Died
  BY <1>1, <1>3 DEF Assigned, Assigning, Died
<1>6. QED
  BY <1>2, <1>3, <1>4, <1>5 DEF ValueInv

LEMMA ValueHandlers ==
  ASSUME TypeOK, TimedInv, ValueInv, NEW t \in IoThreads, ThreadStep(t), \A u \in IoThreads : u = t
  PROVE  ValueInv'
<1>1. CASE TimerHandler(t)
  <2>1. /\ at[t] = "run" /\ UNCHANGED <<pc, calls, value, moved, write>>
        /\ done' = done + 1
        /\ error' = IF done = 0 THEN IF timer = "expired" THEN "timed_out" ELSE "aborted" ELSE error
    BY <1>1 DEF TimerHandler, Pops, AsyncDone
  <2>2. op' = "ok" => moved' > 0
    BY ZenonT(30), <1>1, <2>1 DEF TimerHandler, AsyncDone, Counts, Cancels, ValueInv
  <2>3. CASE done = 0
    BY <2>1, <2>2, <2>3 DEF ValueInv, OpWasFirst
  <2>4. CASE done > 0
    <3>1. OpWasFirst' => OpWasFirst
      BY <2>1, <2>4 DEF OpWasFirst
    <3>2. op' = op /\ at' = [at EXCEPT ![t] = "run"]
      BY <1>1, <2>4 DEF TimerHandler, AsyncDone, Counts
    <3>3. OpWasFirst => Assigned
      BY <2>1 DEF ValueInv, Assigning, Died
    <3>4. Assigned => Assigned'
      BY <2>1, <3>2 DEF Assigned, TypeOK
    <3>5. QED
      BY <2>1, <2>2, <3>1, <3>2, <3>3, <3>4 DEF ValueInv
  <2>5. QED
    BY <2>3, <2>4 DEF TypeOK
<1>2. CASE OpHandler(t)
  <2>1. /\ at[t] = "run" /\ UNCHANGED <<pc, calls, value, moved>>
        /\ done' = done + 1
        /\ error' = IF done = 0 THEN IF op = "ok" THEN "none" ELSE op ELSE error
        /\ write' = [write EXCEPT ![t] = [call |-> calls, n |-> moved]]
    BY <1>2 DEF OpHandler, Pops, AsyncDone
  <2>2. OpDue
    BY <1>2, Queues DEF OpHandler, Pops, TimedInv, QueueInv
  <2>3. op' = "counted"
    BY ZenonT(30), <1>2 DEF OpHandler, AsyncDone, Counts, Cancels
  <2>4. CASE done = 0
    <3>1. OpWasFirst' => op = "ok"
      BY <2>1, <2>2, <2>4 DEF OpWasFirst, OpDue
    <3>2. OpWasFirst' => moved' > 0
      BY <2>1, <3>1 DEF ValueInv
    <3>3. at' = [at EXCEPT ![t] = "write"] \/ at' = [at EXCEPT ![t] = "dead"]
      BY <1>2 DEF OpHandler, AsyncDone
    <3>4. Assigning' \/ Died'
      BY <2>1, <2>4, <3>3 DEF Assigning, Died, TypeOK
    <3>5. QED
      BY <2>3, <3>2, <3>4 DEF ValueInv
  <2>5. CASE done > 0
    <3>1. ~OpWasFirst
      BY <2>2 DEF ValueInv, OpDue
    <3>2. ~OpWasFirst'
      BY <2>1, <2>5, <3>1 DEF OpWasFirst
    <3>3. QED
      BY <2>3, <3>2 DEF ValueInv
  <2>6. QED
    BY <2>4, <2>5 DEF TypeOK
<1>3. CASE AssignValue(t)
  <2>1. /\ at[t] = "write" /\ at' = [at EXCEPT ![t] = "run"]
        /\ UNCHANGED <<pc, calls, done, error, op, moved>>
    BY <1>3 DEF AssignValue, opVars
  <2>2. OpWasFirst' = OpWasFirst
    BY <2>1 DEF OpWasFirst
  <2>3. OpWasFirst => Assigning
    BY <2>1 DEF ValueInv, Assigned, Died
  <2>4. OpWasFirst => value' = moved
    BY <1>3, <2>3 DEF OpWasFirst, Assigning, AssignValue
  <2>5. OpWasFirst => Assigned'
    BY <2>1, <2>4 DEF Assigned, TypeOK
  <2>6. QED
    BY <2>1, <2>2, <2>5 DEF ValueInv
<1>4. QED
  BY <1>1, <1>2, <1>3 DEF ThreadStep

(***************************************************************************)
(* With one io thread, a timed Send or Receive that reports no error       *)
(* returns what its operation transferred, although the assignment follows *)
(* async_done_handler outside of the mutex: that thread assigns before it  *)
(* can run the timer's completion, for which the caller waits.             *)
(***************************************************************************)
THEOREM FirstResult ==
  ASSUME \A t, u \in IoThreads : t = u
  PROVE  Spec => []FirstResultReturned
<1>1. Init => ValueInv
  BY DEF Init, ValueInv, OpWasFirst
<1>2. TypeOK /\ TimedInv /\ ValueInv /\ [Next]_vars => ValueInv'
  <2>1. ASSUME ValueInv, UNCHANGED vars PROVE ValueInv'
    BY <2>1 DEF vars, callVars, opVars, ValueInv, OpWasFirst, Assigned, Assigning, Died
  <2>2. QED
    BY <2>1, ValueCaller, ValueEnds, ValueHandlers DEF Next
<1>3. TypeOK /\ TimedInv /\ ValueInv => FirstResultReturned
  <2> SUFFICES ASSUME TypeOK, TimedInv, ValueInv, pc = "report", error = "none"
               PROVE  value = moved /\ moved > 0
    BY DEF FirstResultReturned
  <2>1. calls > 0
    BY DEF TimedInv, CallerInv, TypeOK
  <2>2. done = 2
    BY <2>1 DEF TimedInv, CountInv, CallerInv
  <2>3. QED
    BY <2>2 DEF ValueInv, OpWasFirst, Assigned, Assigning, Died
<1>4. QED
  BY <1>1, <1>2, <1>3, TimedInvariant, PTL DEF Spec
=============================================================================
