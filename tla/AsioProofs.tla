----------------------------- MODULE AsioProofs -----------------------------
(***************************************************************************)
(* Lemmas about the executor and the socket: the handlers the models       *)
(* build, what sequences of handlers contain, and how steps move them.     *)
(* UDPServerProofs and UDPClientProofs rest on them.                       *)
(***************************************************************************)
EXTENDS AsioSocket, SequenceTheorems, FiniteSetTheorems, TLAPS

(***************************************************************************)
(* The handlers the model builds, and what is in their fields.             *)
(***************************************************************************)
LEMMA PostedHandlerFacts ==
  ASSUME NEW k \in Kinds
  PROVE  PostedHandler(k) \in Handler /\ PostedHandler(k).h = k
BY DEF PostedHandler, Handler, Results

LEMMA RecvOpFacts ==
  ASSUME NEW c \in Nat, NEW s \in Nat
  PROVE  /\ RecvOp(c, s) \in Handler
         /\ RecvOp(c, s).h = "recv" /\ RecvOp(c, s).buf = c /\ RecvOp(c, s).sess = s
BY DEF RecvOp, Handler, Results, Kinds

LEMMA SendOpFacts ==
  ASSUME NEW l \in Nat, NEW m \in Nat, NEW s \in Nat
  PROVE  /\ SendOp(l, m, s) \in Handler
         /\ SendOp(l, m, s).h = "send" /\ SendOp(l, m, s).sess = s
         /\ SendOp(l, m, s).buf = l /\ SendOp(l, m, s).n = m
BY DEF SendOp, Handler, Results, Kinds

LEMMA FinishedFacts ==
  ASSUME NEW c \in Handler, NEW r \in Results, NEW k \in Nat
  PROVE  /\ Finished(c, r, k) \in Handler
         /\ Finished(c, r, k).h = c.h /\ Finished(c, r, k).sess = c.sess
BY ZenonT(30) DEF Finished, Handler, Results

LEMMA AbortAllFacts ==
  ASSUME NEW ops \in Seq(Handler)
  PROVE  /\ AbortAll(ops) \in Seq(Handler)
         /\ Len(AbortAll(ops)) = Len(ops)
         /\ \A i \in 1..Len(ops) : /\ AbortAll(ops)[i].h = ops[i].h
                                   /\ AbortAll(ops)[i].sess = ops[i].sess
<1>1. ASSUME NEW i \in 1..Len(ops)
      PROVE  /\ Finished(ops[i], "aborted", ops[i].n) \in Handler
             /\ Finished(ops[i], "aborted", ops[i].n).h = ops[i].h
             /\ Finished(ops[i], "aborted", ops[i].n).sess = ops[i].sess
  <2>1. ops[i] \in Handler
    BY ElementOfSeq
  <2>2. ops[i].n \in Nat
    BY <2>1 DEF Handler
  <2>3. QED
    BY ZenonT(30), <2>1, <2>2, FinishedFacts DEF Results
<1>2. QED
  BY <1>1 DEF AbortAll

(***************************************************************************)
(* The place where sequences of handlers grow.                             *)
(***************************************************************************)
LEMMA CompleteTyped ==
  ASSUME SockTypeOK, NEW rest \in Seq(Handler), NEW cs \in Seq(Handler), Complete(rest, cs)
  PROVE  ready' \in Seq(Handler) /\ queue' \in Seq(Handler)
<1>1. rest \o cs \in Seq(Handler) /\ queue \o cs \in Seq(Handler)
  BY ConcatProperties DEF SockTypeOK
<1>2. QED
  BY <1>1 DEF Complete, SockTypeOK

LEMMA TailTyped ==
  ASSUME SockTypeOK, ready # <<>>
  PROVE  Head(ready) \in Handler /\ Tail(ready) \in Seq(Handler)
BY HeadTailProperties DEF SockTypeOK

LEMMA FinishHandlerFacts ==
  ASSUME SockTypeOK, FinishHandler, ready # <<>>
  PROVE  /\ ready' = Tail(ready)
         /\ ready' \in Seq(Handler)
         /\ runner' = NoThread /\ step' = "begin"
<1>1. Tail(ready) \in Seq(Handler)
  BY TailTyped
<1>2. QED
  BY <1>1, ConcatEmptySeq DEF FinishHandler, Post, LeaveHandler

LEMMA HeadKept ==
  ASSUME NEW s \in Seq(Handler), NEW x \in Seq(Handler), s # <<>>
  PROVE  s \o x # <<>> /\ Head(s \o x) = Head(s)
<1>1. Len(s) \in Nat \ {0}
  BY EmptySeq
<1>2. /\ s \o x \in Seq(Handler) /\ Len(s \o x) = Len(s) + Len(x)
      /\ (s \o x)[1] = s[1]
  BY <1>1, ConcatProperties, LenProperties
<1>3. s \o x # <<>>
  BY <1>1, <1>2, LenProperties
<1>4. QED
  BY <1>2, <1>3

-----------------------------------------------------------------------------
(***************************************************************************)
(* What sequences of handlers contain.                                     *)
(***************************************************************************)
LEMMA InSeqConcat ==
  ASSUME NEW s \in Seq(Handler), NEW x \in Seq(Handler), NEW k
  PROVE  InSeq(s \o x, k) <=> InSeq(s, k) \/ InSeq(x, k)
<1>1. /\ Len(s) \in Nat /\ Len(x) \in Nat /\ Len(s \o x) = Len(s) + Len(x)
      /\ \A i \in 1..Len(s) + Len(x) : (s \o x)[i] = IF i <= Len(s) THEN s[i] ELSE x[i - Len(s)]
  BY ConcatProperties, LenProperties
<1>2. ASSUME InSeq(s \o x, k) PROVE InSeq(s, k) \/ InSeq(x, k)
  <2>1. PICK i \in 1..Len(s) + Len(x) : (s \o x)[i].h = k
    BY <1>1, <1>2 DEF InSeq
  <2>2. CASE i <= Len(s)
    BY <1>1, <2>1, <2>2 DEF InSeq
  <2>3. CASE ~(i <= Len(s))
    <3>1. i - Len(s) \in 1..Len(x) /\ x[i - Len(s)].h = k
      BY <1>1, <2>1, <2>3
    <3>2. QED
      BY <3>1 DEF InSeq
  <2>4. QED
    BY <2>2, <2>3
<1>3. ASSUME InSeq(s, k) PROVE InSeq(s \o x, k)
  <2>1. PICK i \in 1..Len(s) : s[i].h = k
    BY <1>3 DEF InSeq
  <2>2. i \in 1..Len(s \o x) /\ (s \o x)[i].h = k
    BY <1>1, <2>1
  <2>3. QED
    BY <2>2 DEF InSeq
<1>4. ASSUME InSeq(x, k) PROVE InSeq(s \o x, k)
  <2>1. PICK i \in 1..Len(x) : x[i].h = k
    BY <1>4 DEF InSeq
  <2>2. /\ Len(s) + i \in 1..Len(s) + Len(x) /\ ~(Len(s) + i <= Len(s))
        /\ (Len(s) + i) - Len(s) = i
    BY <1>1
  <2>3. Len(s) + i \in 1..Len(s \o x) /\ (s \o x)[Len(s) + i].h = k
    BY <1>1, <2>1, <2>2
  <2>4. QED
    BY <2>3 DEF InSeq
<1>5. QED
  BY <1>2, <1>3, <1>4

LEMMA TailConcat ==
  ASSUME NEW s \in Seq(Handler), s # <<>>, NEW x \in Seq(Handler)
  PROVE  Tail(s \o x) = Tail(s) \o x
OBVIOUS

LEMMA InSeqTail ==
  ASSUME NEW s \in Seq(Handler), s # <<>>, NEW k
  PROVE  InSeq(s, k) <=> Head(s).h = k \/ InSeq(Tail(s), k)
<1>1. /\ Len(s) \in Nat \ {0} /\ Head(s) = s[1] /\ Len(Tail(s)) = Len(s) - 1
      /\ \A i \in 1..Len(Tail(s)) : Tail(s)[i] = s[i + 1]
  BY HeadTailProperties, EmptySeq
<1>2. ASSUME InSeq(s, k), Head(s).h # k PROVE InSeq(Tail(s), k)
  <2>1. PICK i \in 1..Len(s) : s[i].h = k
    BY <1>2 DEF InSeq
  <2>2. i # 1
    BY <1>1, <1>2, <2>1
  <2>3. i - 1 \in 1..Len(Tail(s)) /\ (i - 1) + 1 = i
    BY <1>1, <2>2
  <2>4. Tail(s)[i - 1].h = k
    BY <1>1, <2>1, <2>3
  <2>5. QED
    BY <2>3, <2>4 DEF InSeq
<1>3. ASSUME Head(s).h = k PROVE InSeq(s, k)
  BY <1>1, <1>3 DEF InSeq
<1>4. ASSUME InSeq(Tail(s), k) PROVE InSeq(s, k)
  <2>1. PICK i \in 1..Len(Tail(s)) : Tail(s)[i].h = k
    BY <1>4 DEF InSeq
  <2>2. i + 1 \in 1..Len(s) /\ s[i + 1].h = k
    BY <1>1, <2>1
  <2>3. QED
    BY <2>2 DEF InSeq
<1>5. QED
  BY <1>2, <1>3, <1>4

LEMMA InSeqSingle ==
  ASSUME NEW c \in Handler, NEW k
  PROVE  InSeq(<<c>>, k) <=> c.h = k
BY DEF InSeq

LEMMA InSeqAbort ==
  ASSUME NEW ops \in Seq(Handler), NEW k
  PROVE  InSeq(AbortAll(ops), k) <=> InSeq(ops, k)
BY AbortAllFacts DEF InSeq

LEMMA InSeqNonEmpty ==
  ASSUME NEW s \in Seq(Handler), s # <<>>, NEW k, \A i \in 1..Len(s) : s[i].h = k
  PROVE  InSeq(s, k)
BY EmptySeq DEF InSeq

LEMMA InSeqEmpty ==
  ASSUME NEW k
  PROVE  ~InSeq(<<>>, k)
BY DEF InSeq
-----------------------------------------------------------------------------
(***************************************************************************)
(* How the steps of the executor move completions.                         *)
(***************************************************************************)
Carries(k) == \E t \in IoThreads : carried[t] # NoHandler /\ carried[t].h = k

LEMMA CompletionIs ==
  ASSUME NEW k
  PROVE  /\ CompletionOf(k) <=> InSeq(queue, k) \/ InSeq(ready, k) \/ Carries(k)
         /\ CompletionOf(k)' <=> InSeq(queue', k) \/ InSeq(ready', k) \/ Carries(k)'
BY DEF CompletionOf, Carries, InSeq

LEMMA PopKeeps ==
  ASSUME SockTypeOK, NEW t \in IoThreads, PopCompletion(t), NEW k
  PROVE  /\ ready' = ready
         /\ InSeq(queue, k) \/ Carries(k) => InSeq(queue', k) \/ Carries(k)'
<1> USE DEF SockTypeOK
<1>1. /\ queue # <<>> /\ carried[t] = NoHandler
      /\ carried' = [carried EXCEPT ![t] = Head(queue)]
      /\ queue' = Tail(queue) /\ ready' = ready
  BY DEF PopCompletion, Free
<1>2. Head(queue) \in Handler /\ (InSeq(queue, k) <=> Head(queue).h = k \/ InSeq(Tail(queue), k))
  BY <1>1, HeadTailProperties, InSeqTail
<1>3. Head(queue).h = k => Carries(k)'
  BY <1>1, <1>2, NoHandlerAssumption DEF Carries
<1>4. Carries(k) => Carries(k)'
  BY <1>1 DEF Carries
<1>5. QED
  BY <1>1, <1>2, <1>3, <1>4

LEMMA DispatchKeeps ==
  ASSUME SockTypeOK, NEW t \in IoThreads, Dispatch(t), NEW k
  PROVE  /\ \E c \in Handler : ready' = ready \o <<c>> /\ (c.h = k \/ (Carries(k) => Carries(k)'))
         /\ queue' = queue
<1> USE DEF SockTypeOK
<1>1. /\ carried[t] \in Handler /\ ready' = Append(ready, carried[t])
      /\ carried' = [carried EXCEPT ![t] = NoHandler] /\ queue' = queue
  BY DEF Dispatch
<1>2. ready' = ready \o <<carried[t]>>
  BY <1>1, AppendIsConcat
<1>3. carried[t].h # k => (Carries(k) => Carries(k)')
  BY <1>1 DEF Carries
<1>4. QED
  BY ZenonT(30), <1>1, <1>2, <1>3

(***************************************************************************)
(* A completion, once there, stays until its handler is finished.          *)
(***************************************************************************)
LEMMA CompleteKeeps ==
  ASSUME SockTypeOK, NEW cs \in Seq(Handler), Complete(ready, cs), NEW k
  PROVE  InSeq(queue, k) => InSeq(queue', k)
<1>1. InSeq(queue \o cs, k) <=> InSeq(queue, k) \/ InSeq(cs, k)
  BY InSeqConcat DEF SockTypeOK
<1>2. QED
  BY <1>1 DEF Complete

LEMMA CompleteAdds ==
  ASSUME SockTypeOK, NEW cs \in Seq(Handler), Complete(ready, cs), NEW k, InSeq(cs, k)
  PROVE  \E x \in Seq(Handler) : ready' = ready \o x /\ (InSeq(queue', k) \/ InSeq(x, k))
<1>0. <<>> \in Seq(Handler) /\ ready \o <<>> = ready
  BY EmptySeq, ConcatEmptySeq DEF SockTypeOK
<1>1. CASE StrandRequired
  <2>1. ready' = ready \o <<>> /\ queue' = queue \o cs
    BY <1>0, <1>1 DEF Complete
  <2>2. InSeq(queue', k)
    BY <2>1, InSeqConcat DEF SockTypeOK
  <2>3. QED
    BY ZenonT(30), <1>0, <2>1, <2>2
<1>2. CASE ~StrandRequired
  BY <1>2 DEF Complete
<1>3. QED
  BY ZenonT(30), <1>1, <1>2

(***************************************************************************)
(* Pending(ops, k): an operation of kind k is in the reactor's queue or    *)
(* on its way to "ready".  No step but a handler's makes such an operation *)
(* disappear: it shows up at the tail of "ready".                          *)
(***************************************************************************)
Pending(ops, k) == ops # <<>> \/ InSeq(queue, k) \/ Carries(k)

LEMMA MovedTail ==
  ASSUME NEW s \in Seq(Handler), s # <<>>, NEW k, \A i \in 1..Len(s) : s[i].h = k
  PROVE  /\ Head(s) \in Handler /\ Head(s).h = k
         /\ Tail(s) \in Seq(Handler) /\ \A i \in 1..Len(Tail(s)) : Tail(s)[i].h = k
<1>1. /\ Head(s) \in Handler /\ Tail(s) \in Seq(Handler) /\ Len(s) \in Nat \ {0}
      /\ Head(s) = s[1] /\ Len(Tail(s)) = Len(s) - 1
      /\ \A i \in 1..Len(Tail(s)) : Tail(s)[i] = s[i + 1]
  BY HeadTailProperties, EmptySeq
<1>2. QED
  BY <1>1

LEMMA AppendedKind ==
  ASSUME NEW s \in Seq(Handler), NEW c \in Handler, NEW k, c.h = k, \A i \in 1..Len(s) : s[i].h = k
  PROVE  /\ Append(s, c) # <<>>
         /\ \A i \in 1..Len(Append(s, c)) : Append(s, c)[i].h = k
<1>1. /\ Len(s) \in Nat /\ Append(s, c) \in Seq(Handler) /\ Len(Append(s, c)) = Len(s) + 1
      /\ \A i \in 1..Len(s) : Append(s, c)[i] = s[i]
      /\ Append(s, c)[Len(s) + 1] = c
  BY AppendProperties, LenProperties
<1>2. QED
  BY <1>1, EmptySeq
-----------------------------------------------------------------------------
(***************************************************************************)
(* How many handlers of a kind a sequence holds.                           *)
(***************************************************************************)
LEMMA CountType ==
  ASSUME NEW s \in Seq(Handler), NEW k
  PROVE  IsFiniteSet(Positions(s, k)) /\ Count(s, k) \in Nat
<1>1. Len(s) \in Nat
  BY LenProperties
<1>2. IsFiniteSet(1..Len(s)) /\ Positions(s, k) \in SUBSET (1..Len(s))
  BY <1>1, FS_Interval DEF Positions
<1>3. IsFiniteSet(Positions(s, k))
  BY <1>2, FS_Subset
<1>4. QED
  BY <1>3, FS_CardinalityType DEF Count

LEMMA CountNone ==
  ASSUME NEW s \in Seq(Handler), NEW k, ~InSeq(s, k)
  PROVE  Count(s, k) = 0
<1>1. Positions(s, k) = {}
  BY DEF InSeq, Positions
<1>2. QED
  BY <1>1, FS_EmptySet DEF Count

LEMMA CountAll ==
  ASSUME NEW s \in Seq(Handler), NEW k, \A i \in 1..Len(s) : s[i].h = k
  PROVE  Count(s, k) = Len(s)
<1>1. Len(s) \in Nat
  BY LenProperties
<1>2. Positions(s, k) = 1..Len(s)
  BY DEF Positions
<1>3. Cardinality(1..Len(s)) = Len(s)
  <2>1. Cardinality(1..Len(s)) = IF 1 > Len(s) THEN 0 ELSE Len(s) - 1 + 1
    BY <1>1, FS_Interval
  <2>2. QED
    BY <1>1, <2>1
<1>4. QED
  BY <1>2, <1>3 DEF Count

LEMMA CountSingle ==
  ASSUME NEW c \in Handler, NEW k
  PROVE  Count(<<c>>, k) = IF c.h = k THEN 1 ELSE 0
<1>1. <<c>> \in Seq(Handler) /\ Len(<<c>>) = 1 /\ \A i \in 1..1 : <<c>>[i] = c
  OBVIOUS
<1>2. CASE c.h = k
  BY <1>1, <1>2, CountAll
<1>3. CASE c.h # k
  BY ZenonT(30), <1>1, <1>3, CountNone, InSeqSingle
<1>4. QED
  BY <1>2, <1>3

(***************************************************************************)
(* The positions of a concatenation are those of its first part and those  *)
(* of its second, shifted.                                                 *)
(***************************************************************************)
LEMMA CountConcat ==
  ASSUME NEW s \in Seq(Handler), NEW x \in Seq(Handler), NEW k
  PROVE  Count(s \o x, k) = Count(s, k) + Count(x, k)
<1> DEFINE P == Positions(x, k)
           Q == {i \in 1..Len(s \o x) : i > Len(s) /\ (s \o x)[i].h = k}
           f == [i \in P |-> Len(s) + i]
<1>1. /\ Len(s) \in Nat /\ Len(x) \in Nat /\ Len(s \o x) = Len(s) + Len(x)
      /\ \A i \in 1..Len(s) + Len(x) : (s \o x)[i] = IF i <= Len(s) THEN s[i] ELSE x[i - Len(s)]
  BY ConcatProperties, LenProperties
<1>2. Positions(s \o x, k) = Positions(s, k) \cup Q /\ Positions(s, k) \cap Q = {}
  BY <1>1 DEF Positions
<1>3. f \in [P -> Q]
  <2>1. ASSUME NEW i \in P PROVE Len(s) + i \in Q
    <3>1. i \in 1..Len(x) /\ x[i].h = k
      BY DEF Positions
    <3>2. Len(s) + i \in 1..Len(s) + Len(x) /\ ~(Len(s) + i <= Len(s)) /\ (Len(s) + i) - Len(s) = i
      BY <1>1, <3>1
    <3>3. QED
      BY <1>1, <3>1, <3>2
  <2>2. QED
    BY <2>1
<1>4. \A i, j \in P : f[i] = f[j] => i = j
  BY <1>1 DEF Positions
<1>5. ASSUME NEW j \in Q PROVE \E i \in P : f[i] = j
  <2>1. j - Len(s) \in 1..Len(x) /\ x[j - Len(s)].h = k /\ Len(s) + (j - Len(s)) = j
    BY <1>1
  <2>2. j - Len(s) \in P
    BY <2>1 DEF Positions
  <2>3. QED
    BY <2>1, <2>2
<1>6. ExistsBijection(P, Q)
  <2> HIDE DEF P, Q, f
  <2>1. f \in Bijection(P, Q)
    BY <1>3, <1>4, <1>5 DEF Bijection, Injection, Surjection, IsInjective
  <2>2. QED
    BY <2>1 DEF ExistsBijection
<1>7. IsFiniteSet(P) /\ IsFiniteSet(Q) /\ Cardinality(Q) = Count(x, k)
  <2>1. IsFiniteSet(P)
    BY CountType
  <2>2. QED
    BY ZenonT(30), <1>6, <2>1, FS_Bijection DEF Count
<1>8. IsFiniteSet(Positions(s, k)) /\ Count(s, k) \in Nat /\ Count(x, k) \in Nat
  BY CountType
<1>9. Cardinality(Positions(s, k) \cup Q) = Count(s, k) + Count(x, k) - Cardinality(Positions(s, k) \cap Q)
  <2> HIDE DEF P, Q, f
  <2>1. QED
    BY <1>7, <1>8, FS_Union DEF Count
<1>10. QED
  <2> HIDE DEF P, Q, f
  <2>1. Count(s \o x, k) = Cardinality(Positions(s, k) \cup Q)
    BY ZenonT(30), <1>2 DEF Count
  <2>2. Cardinality(Positions(s, k) \cap Q) = 0
    BY SMTT(30), <1>2, FS_EmptySet
  <2>3. QED
    BY <1>8, <1>9, <2>1, <2>2

LEMMA CountTail ==
  ASSUME NEW s \in Seq(Handler), s # <<>>, NEW k
  PROVE  /\ Tail(s) \in Seq(Handler) /\ Count(Tail(s), k) \in Nat
         /\ Count(s, k) = Count(Tail(s), k) + (IF Head(s).h = k THEN 1 ELSE 0)
<1>1. Head(s) \in Handler /\ Tail(s) \in Seq(Handler) /\ s = <<Head(s)>> \o Tail(s)
  BY HeadTailProperties
<1>2. Count(<<Head(s)>> \o Tail(s), k) = Count(<<Head(s)>>, k) + Count(Tail(s), k)
  <2>1. <<Head(s)>> \in Seq(Handler)
    BY <1>1
  <2>2. QED
    BY ZenonT(30), <1>1, <2>1, CountConcat
<1>3. Count(s, k) = Count(<<Head(s)>> \o Tail(s), k)
  BY ZenonT(30), <1>1
<1>4. Count(<<Head(s)>>, k) = IF Head(s).h = k THEN 1 ELSE 0
  BY ZenonT(30), <1>1, CountSingle
<1>5. Count(Tail(s), k) \in Nat
  BY ZenonT(30), <1>1, CountType
<1>6. QED
  BY <1>1, <1>2, <1>3, <1>4, <1>5

LEMMA CountAbort ==
  ASSUME NEW ops \in Seq(Handler), NEW k
  PROVE  Count(AbortAll(ops), k) = Count(ops, k)
<1>1. Positions(AbortAll(ops), k) = Positions(ops, k)
  BY AbortAllFacts DEF Positions
<1>2. QED
  BY <1>1 DEF Count
-----------------------------------------------------------------------------
(***************************************************************************)
(* How the steps of the executor move the handlers of a kind: no step but  *)
(* a handler's own changes how many there are.                             *)
(***************************************************************************)
LEMMA CompleteCounts ==
  ASSUME SockTypeOK, NEW rest \in Seq(Handler), NEW cs \in Seq(Handler), Complete(rest, cs), NEW k
  PROVE  Count(queue', k) + Count(ready', k) = Count(queue, k) + Count(rest, k) + Count(cs, k)
<1>1. queue \in Seq(Handler)
  BY DEF SockTypeOK
<1>2. /\ Count(queue, k) \in Nat /\ Count(rest, k) \in Nat /\ Count(cs, k) \in Nat
      /\ Count(queue \o cs, k) = Count(queue, k) + Count(cs, k)
      /\ Count(rest \o cs, k) = Count(rest, k) + Count(cs, k)
  BY <1>1, CountType, CountConcat
<1>3. CASE StrandRequired
  <2>1. ready' = rest /\ queue' = queue \o cs
    BY <1>3 DEF Complete
  <2>2. QED
    BY <1>2, <2>1
<1>4. CASE ~StrandRequired
  <2>1. ready' = rest \o cs /\ queue' = queue
    BY <1>4 DEF Complete
  <2>2. QED
    BY <1>2, <2>1
<1>5. QED
  BY <1>3, <1>4

LEMMA CompletionsType ==
  ASSUME SockTypeOK, NEW k, IsFiniteSet(CarriersOf(k))
  PROVE  Count(queue, k) \in Nat /\ Count(ready, k) \in Nat /\ Cardinality(CarriersOf(k)) \in Nat
BY CountType, FS_CardinalityType DEF SockTypeOK

LEMMA PopCounts ==
  ASSUME SockTypeOK, NEW t \in IoThreads, PopCompletion(t), NEW k, IsFiniteSet(CarriersOf(k))
  PROVE  IsFiniteSet(CarriersOf(k)') /\ Completions(k)' = Completions(k)
<1>1. /\ queue # <<>> /\ carried[t] = NoHandler
      /\ carried' = [carried EXCEPT ![t] = Head(queue)]
      /\ queue' = Tail(queue) /\ ready' = ready
  BY DEF PopCompletion, Free
<1>2. /\ Count(queue', k) \in Nat
      /\ Count(queue, k) = Count(queue', k) + (IF Head(queue).h = k THEN 1 ELSE 0)
  BY <1>1, CountTail DEF SockTypeOK
<1>3. Head(queue) \in Handler /\ Head(queue) # NoHandler
  BY <1>1, HeadTailProperties, NoHandlerAssumption DEF SockTypeOK
<1>4. t \notin CarriersOf(k)
  BY <1>1 DEF CarriersOf
<1>5. CarriersOf(k)' = IF Head(queue).h = k THEN CarriersOf(k) \cup {t} ELSE CarriersOf(k)
  BY <1>1, <1>3 DEF CarriersOf, SockTypeOK
<1>6. /\ IsFiniteSet(CarriersOf(k) \cup {t})
      /\ Cardinality(CarriersOf(k) \cup {t}) = Cardinality(CarriersOf(k)) + 1
  BY <1>4, FS_AddElement
<1>7. Count(ready', k) = Count(ready, k)
  BY <1>1
<1>8. QED
  BY <1>2, <1>5, <1>6, <1>7, CompletionsType DEF Completions

LEMMA DispatchCounts ==
  ASSUME SockTypeOK, NEW t \in IoThreads, Dispatch(t), NEW k, IsFiniteSet(CarriersOf(k))
  PROVE  IsFiniteSet(CarriersOf(k)') /\ Completions(k)' = Completions(k)
<1>1. /\ carried[t] \in Handler /\ carried[t] # NoHandler
      /\ ready' = Append(ready, carried[t])
      /\ carried' = [carried EXCEPT ![t] = NoHandler] /\ queue' = queue
  BY DEF Dispatch, SockTypeOK
<1>2. ready' = ready \o <<carried[t]>> /\ <<carried[t]>> \in Seq(Handler)
  BY <1>1, AppendIsConcat DEF SockTypeOK
<1>3. Count(ready', k) = Count(ready, k) + Count(<<carried[t]>>, k)
  <2> DEFINE c == <<carried[t]>>
  <2>1. ready \in Seq(Handler) /\ c \in Seq(Handler) /\ ready' = ready \o c
    BY <1>2 DEF SockTypeOK
  <2> HIDE DEF c
  <2>2. Count(ready', k) = Count(ready, k) + Count(c, k)
    BY <2>1, CountConcat
  <2>3. QED
    BY <2>2 DEF c
<1>4. Count(<<carried[t]>>, k) = IF carried[t].h = k THEN 1 ELSE 0
  BY <1>1, CountSingle
<1>5. CarriersOf(k)' = CarriersOf(k) \ {t} /\ (t \in CarriersOf(k) <=> carried[t].h = k)
  BY <1>1 DEF CarriersOf, SockTypeOK
<1>6. /\ IsFiniteSet(CarriersOf(k) \ {t})
      /\ Cardinality(CarriersOf(k) \ {t}) =
           IF t \in CarriersOf(k) THEN Cardinality(CarriersOf(k)) - 1 ELSE Cardinality(CarriersOf(k))
  BY FS_RemoveElement
<1>7. Count(queue', k) = Count(queue, k)
  BY <1>1
<1>8. QED
  BY <1>3, <1>4, <1>5, <1>6, <1>7, CompletionsType DEF Completions

(***************************************************************************)
(* The shapes that the steps of the server and the client have.            *)
(***************************************************************************)
LEMMA CompletingCounts ==
  ASSUME SockTypeOK, NEW cs \in Seq(Handler), Complete(ready, cs), UNCHANGED carried, NEW k,
         IsFiniteSet(CarriersOf(k))
  PROVE  IsFiniteSet(CarriersOf(k)') /\ Completions(k)' = Completions(k) + Count(cs, k)
<1>1. ready \in Seq(Handler)
  BY DEF SockTypeOK
<1>2. Count(queue', k) + Count(ready', k) = Count(queue, k) + Count(ready, k) + Count(cs, k)
  BY <1>1, CompleteCounts
<1>3. CarriersOf(k)' = CarriersOf(k)
  BY DEF CarriersOf
<1>4. /\ Count(cs, k) \in Nat /\ Count(queue, k) \in Nat /\ Count(ready, k) \in Nat
      /\ Cardinality(CarriersOf(k)) \in Nat
  BY CountType, CompletionsType
<1>5. queue' \in Seq(Handler) /\ ready' \in Seq(Handler)
  BY <1>1, CompleteTyped
<1>6. Count(queue', k) \in Nat /\ Count(ready', k) \in Nat
  BY <1>5, CountType
<1>7. QED
  BY <1>2, <1>3, <1>4, <1>6 DEF Completions

LEMMA FinishingCounts ==
  ASSUME SockTypeOK, ready # <<>>, NEW x \in Seq(Handler), ready' = Tail(ready) \o x,
         UNCHANGED <<queue, carried>>, NEW k, ~InSeq(x, k), IsFiniteSet(CarriersOf(k))
  PROVE  /\ IsFiniteSet(CarriersOf(k)')
         /\ Completions(k) \in Nat /\ Completions(k)' \in Nat
         /\ Completions(k) = Completions(k)' + (IF Head(ready).h = k THEN 1 ELSE 0)
<1>1. /\ Tail(ready) \in Seq(Handler) /\ Count(Tail(ready), k) \in Nat
      /\ Count(ready, k) = Count(Tail(ready), k) + (IF Head(ready).h = k THEN 1 ELSE 0)
  BY CountTail DEF SockTypeOK
<1>2. Count(ready', k) = Count(Tail(ready), k) + Count(x, k) /\ Count(x, k) = 0
  BY ZenonT(30), <1>1, CountConcat, CountNone
<1>3. CarriersOf(k)' = CarriersOf(k) /\ Count(queue', k) = Count(queue, k)
  BY DEF CarriersOf
<1>4. Count(queue, k) \in Nat /\ Count(ready, k) \in Nat /\ Cardinality(CarriersOf(k)) \in Nat
  BY CompletionsType
<1>5. Completions(k)' = Count(queue, k) + Count(Tail(ready), k) + Cardinality(CarriersOf(k))
  <2>1. Count(ready', k) = Count(Tail(ready), k)
    BY <1>1, <1>2
  <2>2. QED
    BY <1>3, <2>1 DEF Completions
<1>6. Completions(k) = Count(queue, k) + Count(ready, k) + Cardinality(CarriersOf(k))
  BY DEF Completions
<1>7. Completions(k) \in Nat /\ Completions(k)' \in Nat
  BY <1>1, <1>4, <1>5, <1>6
<1>8. Completions(k) = Completions(k)' + (IF Head(ready).h = k THEN 1 ELSE 0)
  BY <1>1, <1>4, <1>5, <1>6
<1>9. QED
  BY <1>3, <1>7, <1>8

LEMMA PostingCounts ==
  ASSUME SockTypeOK, NEW x \in Seq(Handler), ready' = ready \o x,
         UNCHANGED <<queue, carried>>, NEW k, ~InSeq(x, k), IsFiniteSet(CarriersOf(k))
  PROVE  IsFiniteSet(CarriersOf(k)') /\ Completions(k)' = Completions(k)
<1>1. Count(ready', k) = Count(ready, k) + Count(x, k) /\ Count(x, k) = 0
  BY CountConcat, CountNone DEF SockTypeOK
<1>2. CarriersOf(k)' = CarriersOf(k) /\ Count(queue', k) = Count(queue, k)
  BY DEF CarriersOf
<1>3. Count(ready', k) = Count(ready, k)
  BY <1>1, CompletionsType
<1>4. QED
  BY <1>2, <1>3 DEF Completions

(***************************************************************************)
(* The receives, pending or to complete, when the kernel finishes an       *)
(* operation, close() or cancel() aborts all, and an executor step moves   *)
(* a completion.                                                           *)
(***************************************************************************)
AllOf(ops, k) == \A i \in 1..Len(ops) : ops[i].h = k

LEMMA KeptReceptions ==
  ASSUME SockTypeOK, IsFiniteSet(CarriersOf("recv")), UNCHANGED readOps,
         \/ UNCHANGED <<ready, queue, carried>>
         \/ \E t \in IoThreads : PopCompletion(t) \/ Dispatch(t)
         \/ \E c \in Handler : /\ c.h # "recv" /\ UNCHANGED carried
                               /\ Complete(ready, <<c>>) \/ (ready' = ready \o <<c>> /\ UNCHANGED queue)
  PROVE  IsFiniteSet(CarriersOf("recv")') /\ Receptions' = Receptions
<1>1. CASE UNCHANGED <<ready, queue, carried>>
  <2>1. CarriersOf("recv")' = CarriersOf("recv") /\ Completions("recv")' = Completions("recv")
    BY <1>1 DEF CarriersOf, Completions
  <2>2. QED
    BY <2>1 DEF Receptions
<1>2. CASE \E t \in IoThreads : PopCompletion(t) \/ Dispatch(t)
  BY <1>2, PopCounts, DispatchCounts DEF Receptions
<1>3. ASSUME NEW c \in Handler, c.h # "recv", UNCHANGED carried,
             Complete(ready, <<c>>) \/ (ready' = ready \o <<c>> /\ UNCHANGED queue)
      PROVE  IsFiniteSet(CarriersOf("recv")') /\ Receptions' = Receptions
  <2> DEFINE x == <<c>>
  <2>1. x \in Seq(Handler) /\ Count(x, "recv") = 0 /\ ~InSeq(x, "recv")
    BY <1>3, CountSingle, InSeqSingle
  <2>2. Complete(ready, x) \/ (ready' = ready \o x /\ UNCHANGED queue)
    BY <1>3
  <2> HIDE DEF x
  <2>3. IsFiniteSet(CarriersOf("recv")') /\ Completions("recv")' = Completions("recv")
    <3>1. Completions("recv") + 0 = Completions("recv")
      BY CompletionsType DEF Completions
    <3>2. QED
      BY SMTT(30), <1>3, <2>1, <2>2, <3>1, CompletingCounts, PostingCounts
  <2>4. QED
    BY <1>3, <2>3 DEF Receptions
<1>4. QED
  BY ZenonT(30), <1>1, <1>2, <1>3

LEMMA ReceiveMoves ==
  ASSUME SockTypeOK, IsFiniteSet(CarriersOf("recv")), AllOf(readOps, "recv"), readOps # <<>>,
         NEW c \in Handler, c.h = "recv",
         Complete(ready, <<c>>), readOps' = Tail(readOps), UNCHANGED carried
  PROVE  IsFiniteSet(CarriersOf("recv")') /\ Receptions' = Receptions
<1> DEFINE x == <<c>>
<1>1. x \in Seq(Handler) /\ Count(x, "recv") = 1 /\ Complete(ready, x)
  BY CountSingle
<1> HIDE DEF x
<1>2. IsFiniteSet(CarriersOf("recv")') /\ Completions("recv")' = Completions("recv") + 1
  BY <1>1, CompletingCounts
<1>3. Len(readOps) \in Nat /\ Len(readOps') = Len(readOps) - 1
  BY HeadTailProperties, LenProperties DEF SockTypeOK
<1>4. Completions("recv") \in Nat
  BY CompletionsType DEF Completions
<1>5. QED
  BY <1>2, <1>3, <1>4 DEF Receptions

LEMMA AbortMoves ==
  ASSUME SockTypeOK, IsFiniteSet(CarriersOf("recv")), AllOf(readOps, "recv"), AllOf(writeOps, "send"),
         Complete(ready, AbortedOps), readOps' = <<>>, UNCHANGED carried
  PROVE  IsFiniteSet(CarriersOf("recv")') /\ Receptions' = Receptions
<1>1. /\ AbortAll(readOps) \in Seq(Handler) /\ AbortAll(writeOps) \in Seq(Handler)
      /\ AbortedOps \in Seq(Handler)
  BY AbortAllFacts, ConcatProperties DEF AbortedOps, SockTypeOK
<1>2. Count(AbortedOps, "recv") = Count(readOps, "recv") + Count(writeOps, "recv")
  BY <1>1, CountConcat, CountAbort DEF AbortedOps, SockTypeOK
<1>3. Count(readOps, "recv") = Len(readOps)
  BY CountAll DEF AllOf, SockTypeOK
<1>4. Count(writeOps, "recv") = 0
  BY CountNone DEF AllOf, InSeq, SockTypeOK
<1>5. IsFiniteSet(CarriersOf("recv")') /\ Completions("recv")' = Completions("recv") + Count(AbortedOps, "recv")
  BY <1>1, CompletingCounts
<1>6. Len(readOps') = 0 /\ Len(readOps) \in Nat
  BY LenProperties DEF SockTypeOK
<1>7. Completions("recv") \in Nat
  BY CompletionsType DEF Completions
<1>8. QED
  BY <1>2, <1>3, <1>4, <1>5, <1>6, <1>7 DEF Receptions

LEMMA FinishedReceptions ==
  ASSUME SockTypeOK, IsFiniteSet(CarriersOf("recv")), ready # <<>>, FinishHandler,
         UNCHANGED <<queue, carried>>
  PROVE  /\ IsFiniteSet(CarriersOf("recv")')
         /\ Completions("recv") \in Nat /\ Completions("recv")' \in Nat
         /\ Completions("recv") = Completions("recv")' + (IF Head(ready).h = "recv" THEN 1 ELSE 0)
<1>1. <<>> \in Seq(Handler) /\ ~InSeq(<<>>, "recv") /\ ready' = Tail(ready) \o <<>>
  BY InSeqEmpty, EmptySeq DEF FinishHandler, Post
<1>2. QED
  BY ZenonT(30), <1>1, FinishingCounts
=============================================================================
