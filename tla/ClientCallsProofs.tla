------------------------- MODULE ClientCallsProofs --------------------------
(***************************************************************************)
(* Proofs about ClientCalls, for any bounds and with or without failures.  *)
(***************************************************************************)
EXTENDS ClientCalls, TLAPS

(***************************************************************************)
(* The steps that a call or handler moves to, by name.                     *)
(***************************************************************************)
LEMMA StepNames ==
  /\ {"idle", "resolve", "open", "bind", "connected", "close", "flags", "transfer"} \subseteq Steps
  /\ GroupCalls \subseteq Steps
  /\ \A k \in GroupCalls \cup {"disconnect"} :
       PostStep[k] \in {"post_join", "post_leave", "post_disconnect"} /\ PostStep[k] \in Steps
BY DEF Steps, GroupCalls, PostStep

(***************************************************************************)
(* Every action keeps the types: first the places, then the flags, then    *)
(* the rest.                                                               *)
(***************************************************************************)
Flagged == connected \in BOOLEAN /\ member \in BOOLEAN /\ wanted \in BOOLEAN /\ again \in BOOLEAN /\ alive \in BOOLEAN

Counted == lead \in Int /\ connects \in Nat /\ socket \in {"open", "closed"}

Listed ==
  /\ queue \in Seq(GroupCalls \cup {"disconnect"})
  /\ mishaps \subseteq {"overlap", "bind", "option", "lookup", "overtaken"}

Placed == at \in [{"app", "io"} -> Steps]

LEMMA TypeParts == TypeOK <=> Flagged /\ Counted /\ Listed /\ Placed
BY DEF TypeOK, Flagged, Counted, Listed, Placed

LEMMA PlacedStep == Placed /\ Next => Placed'
<1> SUFFICES ASSUME Placed, Next PROVE Placed'
  OBVIOUS
<1>0. ASSUME NEW a \in {"app", "io"}, NEW to \in Steps, at' = [at EXCEPT ![a] = to] PROVE Placed'
  BY <1>0 DEF Placed
<1>1. CASE Connect \/ Resolve \/ Open \/ Bind \/ Connected
  BY <1>0, <1>1, StepNames DEF Connect, Resolve, Open, Bind, Connected, Goto, Throws
<1>2. CASE Disconnect \/ Transfer \/ Transferred
  BY <1>0, <1>2, StepNames DEF Disconnect, Transfer, Transferred, Goto
<1>3. CASE \E k \in GroupCalls : GroupCall(k)
  BY ZenonT(30), <1>0, <1>3, StepNames DEF GroupCall, Goto
<1>4. CASE \E k \in GroupCalls \cup {"disconnect"} : AsyncCall(k) \/ Post(k)
  BY <1>0, <1>4, StepNames DEF AsyncCall, Post, Goto
<1>5. CASE DisconnectHandler
  BY <1>0, <1>5, StepNames DEF DisconnectHandler, Goto, Placed
<1>6. CASE GroupHandler
  BY ZenonT(30), <1>0, <1>6, StepNames DEF GroupHandler, Goto
<1>7. CASE \E a \in {"app", "io"} : Close(a) \/ Flags(a)
  BY <1>0, <1>7, StepNames DEF Close, Flags, Goto, Throws
<1>8. CASE \E a \in {"app", "io"} : \E k \in GroupCalls : SetOption(a, k)
  BY <1>0, <1>8, StepNames DEF SetOption, Goto, Throws
<1> QED
  BY <1>1, <1>2, <1>3, <1>4, <1>5, <1>6, <1>7, <1>8 DEF Next, AppStep

LEMMA FlaggedStep == Flagged /\ Next => Flagged'
<1> SUFFICES ASSUME Flagged, Next PROVE Flagged'
  OBVIOUS
<1> USE DEF Flagged
<1>1. CASE Connect \/ Resolve \/ Connected
  BY ZenonT(30), <1>1 DEF Connect, Resolve, Connected
<1>2. CASE Open \/ Bind
  BY ZenonT(30), <1>2 DEF Open, Bind, Throws
<1>3. CASE Disconnect \/ Transfer \/ Transferred
  BY ZenonT(30), <1>3 DEF Disconnect, Transfer, Transferred
<1>4. CASE \E k \in GroupCalls : GroupCall(k)
  BY <1>4 DEF GroupCall
<1>5. CASE \E k \in GroupCalls \cup {"disconnect"} : AsyncCall(k) \/ Post(k)
  BY ZenonT(30), <1>5 DEF AsyncCall, Post
<1>6. CASE DisconnectHandler \/ GroupHandler
  BY <1>6 DEF DisconnectHandler, GroupHandler
<1>7. CASE \E a \in {"app", "io"} : Close(a) \/ Flags(a)
  BY ZenonT(30), <1>7 DEF Close, Flags, Throws
<1>8. CASE \E a \in {"app", "io"} : \E k \in GroupCalls : SetOption(a, k)
  BY ZenonT(30), <1>8 DEF SetOption, Throws
<1> QED
  BY <1>1, <1>2, <1>3, <1>4, <1>5, <1>6, <1>7, <1>8 DEF Next, AppStep

LEMMA CountedStep == Counted /\ Next => Counted'
BY DEF Counted, Next, AppStep, Connect, Resolve, Open, Bind, Connected, Disconnect, Transfer, Transferred,
       GroupCall, AsyncCall, Post, DisconnectHandler, GroupHandler, Close, Flags, SetOption

LEMMA ListedStep == Listed /\ Next => Listed'
<1> SUFFICES ASSUME Listed, Next PROVE Listed'
  OBVIOUS
<1> USE DEF Listed
<1>1. CASE Connect \/ Resolve \/ Open \/ Bind \/ Connected
  BY ZenonT(30), <1>1 DEF Connect, Resolve, Open, Bind, Connected
<1>2. CASE Disconnect \/ Transfer \/ Transferred
  BY ZenonT(30), <1>2 DEF Disconnect, Transfer, Transferred, Begun
<1>3. CASE \E k \in GroupCalls : GroupCall(k)
  BY <1>3 DEF GroupCall, Overtakes
<1>4. CASE \E k \in GroupCalls \cup {"disconnect"} : AsyncCall(k) \/ Post(k)
  <2>1. ASSUME NEW k \in GroupCalls \cup {"disconnect"} PROVE Append(queue, k) \in Seq(GroupCalls \cup {"disconnect"})
    OBVIOUS
  <2> QED
    BY ZenonT(30), <1>4, <2>1 DEF AsyncCall, Post
<1>5. CASE DisconnectHandler \/ GroupHandler
  <2>1. queue # <<>> => Tail(queue) \in Seq(GroupCalls \cup {"disconnect"})
    OBVIOUS
  <2>2. queue' \in Seq(GroupCalls \cup {"disconnect"})
    BY <1>5, <2>1 DEF DisconnectHandler, GroupHandler
  <2>3. mishaps' = mishaps \/ mishaps' = mishaps \cup {"overlap"}
    BY <1>5 DEF DisconnectHandler, GroupHandler, Begun
  <2> QED
    BY ZenonT(30), <2>2, <2>3
<1>6. CASE \E a \in {"app", "io"} : Close(a) \/ Flags(a)
  BY ZenonT(30), <1>6 DEF Close, Flags, Overtakes
<1>7. CASE \E a \in {"app", "io"} : \E k \in GroupCalls : SetOption(a, k)
  BY ZenonT(30), <1>7 DEF SetOption
<1> QED
  BY <1>1, <1>2, <1>3, <1>4, <1>5, <1>6, <1>7 DEF Next, AppStep

(***************************************************************************)
(* The calls and handlers keep the types of UDPClient's state.             *)
(***************************************************************************)
THEOREM CallsTypeCorrect == Spec => []TypeOK
<1>1. Init => TypeOK
  <2> SUFFICES ASSUME Init PROVE TypeOK
    OBVIOUS
  <2>1. Flagged
    BY ZenonT(30) DEF Init, Flagged
  <2>2. Counted /\ Listed
    BY DEF Init, Counted, Listed
  <2>3. Placed
    BY StepNames DEF Init, Placed
  <2> QED
    BY <2>1, <2>2, <2>3, TypeParts
<1>2. TypeOK /\ UNCHANGED vars => TypeOK'
  BY DEF vars, TypeOK
<1>3. TypeOK /\ Next => TypeOK'
  BY TypeParts, PlacedStep, FlaggedStep, CountedStep, ListedStep
    DEF TypeOK, Flagged, Counted, Listed, Placed
<1> QED
  BY <1>1, <1>2, <1>3, PTL DEF Spec

(***************************************************************************)
(* Every action keeps SessionInv.                                          *)
(***************************************************************************)
LEMMA SessionStep == TypeOK /\ SessionInv /\ Next => SessionInv'
<1> SUFFICES ASSUME TypeOK, SessionInv, Next PROVE SessionInv'
  OBVIOUS
<1> USE DEF SessionInv, Disconnecting, Connecting, SocketInside, Other
<1>a. Placed /\ lead \in Int /\ connected \in BOOLEAN
  BY DEF TypeOK, Placed
<1>1. CASE Connect
  BY <1>a, <1>1 DEF Connect, Goto, Placed
<1>2. CASE Resolve
  BY <1>a, <1>2 DEF Resolve, Goto, Placed
<1>3. CASE Open
  BY <1>a, <1>3 DEF Open, Goto, Throws, Placed
<1>4. CASE Bind
  BY <1>a, <1>4 DEF Bind, Goto, Throws, Placed
<1>5. CASE Connected
  BY <1>a, <1>5 DEF Connected, Goto, Placed
<1>6. CASE Disconnect
  BY <1>a, <1>6 DEF Disconnect, Goto, Begun, Placed
<1>7. CASE Transfer \/ Transferred
  BY <1>a, <1>7 DEF Transfer, Transferred, Goto, Begun, Placed
<1>8. CASE \E k \in GroupCalls : GroupCall(k)
  BY <1>a, <1>8 DEF GroupCall, Goto, Overtakes, Placed, GroupCalls
<1>9. CASE \E k \in GroupCalls \cup {"disconnect"} : AsyncCall(k) \/ Post(k)
  BY <1>a, <1>9, StepNames DEF AsyncCall, Post, Goto, Placed
<1>10. CASE DisconnectHandler
  BY <1>a, <1>10 DEF DisconnectHandler, Goto, Begun, Placed
<1>11. CASE GroupHandler
  BY <1>a, <1>11 DEF GroupHandler, Goto, Placed, GroupCalls
<1>12. CASE \E a \in {"app", "io"} : Close(a)
  BY <1>a, <1>12 DEF Close, Goto, Throws, Overtakes, Placed
<1>13. CASE \E a \in {"app", "io"} : Flags(a)
  BY <1>a, <1>13 DEF Flags, Goto, Overtakes, Placed
<1>14. CASE \E a \in {"app", "io"} : \E k \in GroupCalls : SetOption(a, k)
  BY <1>a, <1>14 DEF SetOption, Goto, Throws, Placed, GroupCalls
<1> QED
  BY <1>1, <1>2, <1>3, <1>4, <1>5, <1>6, <1>7, <1>8, <1>9, <1>10, <1>11, <1>12, <1>13, <1>14 DEF Next, AppStep

(***************************************************************************)
(* A client whose disconnects have not overlapped is consistent inside and *)
(* between its calls.                                                      *)
(***************************************************************************)
THEOREM CallsInvariant == Spec => []SessionInv
<1>1. Init => SessionInv
  BY DEF Init, SessionInv, Disconnecting, Connecting, SocketInside
<1>2. SessionInv /\ UNCHANGED vars => SessionInv'
  BY DEF vars, SessionInv, Disconnecting, Connecting, SocketInside
<1> QED
  BY <1>1, <1>2, SessionStep, CallsTypeCorrect, PTL DEF Spec

(***************************************************************************)
(* Between calls, UDPClient is connected exactly when its socket is open,  *)
(* but for a bind() that failed and for disconnects that overlapped.       *)
(***************************************************************************)
THEOREM SocketFollowsFlag == Spec => []SocketMatchesFlag
<1>1. TypeOK /\ SessionInv => SocketMatchesFlag
  BY DEF TypeOK, SessionInv, SocketInside, SocketMatchesFlag, Quiet
<1> QED
  BY <1>1, CallsTypeCorrect, CallsInvariant, PTL

(***************************************************************************)
(* Between calls, onConnected and onDisconnected have alternated, but for  *)
(* lookups that failed and for disconnects that overlapped.                *)
(***************************************************************************)
THEOREM CallbacksInTurn == Spec => []CallbacksAlternate
<1>1. SessionInv => CallbacksAlternate
  BY DEF SessionInv, CallbacksAlternate
<1> QED
  BY <1>1, CallsInvariant, PTL
-----------------------------------------------------------------------------
(***************************************************************************)
(* A course outlives a step that leaves the handlers, the membership and   *)
(* the wish alone.                                                         *)
(***************************************************************************)
LEMMA CourseKept ==
  ASSUME HasCourse, queue' = queue, wanted' = wanted, Entered' = Entered
  PROVE  HasCourse'
BY SMTT(30) DEF HasCourse, Course, InEffect

(***************************************************************************)
(* Without a waiting group call there is a course when the membership is   *)
(* the one that is wanted.                                                 *)
(***************************************************************************)
LEMMA CourseSettled ==
  ASSUME Len(queue') \in Nat, ~Waiting(GroupCalls)', Entered' = InEffect(wanted)'
  PROVE  HasCourse'
<1>1. InEffect(wanted') \in GroupCalls
  BY DEF InEffect, GroupCalls
<1>2. PICK after \in [0..Len(queue') -> GroupCalls] : \A i \in 0..Len(queue') : after[i] = InEffect(wanted')
  <2> DEFINE same == [i \in 0..Len(queue') |-> InEffect(wanted')]
  <2>1. same \in [0..Len(queue') -> GroupCalls] /\ \A i \in 0..Len(queue') : same[i] = InEffect(wanted')
    BY <1>1
  <2> QED
    BY ZenonT(30), <2>1
<1>4. \A i \in 1..Len(queue') : queue'[i] \notin GroupCalls /\ i - 1 \in 0..Len(queue') /\ i \in 0..Len(queue')
  BY DEF Waiting
<1>5. Course(after)'
  BY <1>2, <1>4 DEF Course, InEffect
<1> QED
  BY <1>5 DEF HasCourse

(***************************************************************************)
(* The io thread enters the first handler: a group call changes the        *)
(* membership, and the others follow it.                                   *)
(***************************************************************************)
LEMMA CoursePopped ==
  ASSUME TypeOK, HasCourse, queue # <<>>, queue' = Tail(queue), wanted' = wanted,
         Entered' = IF Head(queue) \in GroupCalls THEN Head(queue) ELSE Entered
  PROVE  HasCourse' /\ (Head(queue) \in GroupCalls => Head(queue) # Entered)
<1>1. PICK after \in [0..Len(queue) -> GroupCalls] : Course(after)
  BY DEF HasCourse
<1>2. Len(queue) \in Nat \ {0} /\ Len(queue') = Len(queue) - 1
  BY DEF TypeOK
<1>3. \A i \in 1..(Len(queue) - 1) : queue'[i] = queue[i + 1]
  BY DEF TypeOK
<1>4. Head(queue) = queue[1]
  BY DEF TypeOK
<1>5. PICK rest \in [0..Len(queue') -> GroupCalls] : \A i \in 0..(Len(queue) - 1) : rest[i] = after[i + 1]
  <2> DEFINE shifted == [i \in 0..(Len(queue) - 1) |-> after[i + 1]]
  <2>1. shifted \in [0..Len(queue') -> GroupCalls] /\ \A i \in 0..(Len(queue) - 1) : shifted[i] = after[i + 1]
    BY <1>2
  <2> QED
    BY ZenonT(30), <2>1
<1>7. after[1] = Entered'
  BY <1>1, <1>2, <1>4 DEF Course
<1>8. ASSUME NEW i \in 1..Len(queue')
      PROVE  IF queue'[i] \in GroupCalls
             THEN rest[i] = queue'[i] /\ rest[i - 1] # queue'[i]
             ELSE rest[i] = rest[i - 1]
  <2>1. i \in 1..(Len(queue) - 1) /\ i - 1 \in 0..(Len(queue) - 1) /\ i \in 0..(Len(queue) - 1)
        /\ i + 1 \in 1..Len(queue) /\ (i + 1) - 1 = i /\ (i - 1) + 1 = i
    BY <1>2
  <2>2. rest[i] = after[i + 1] /\ rest[i - 1] = after[i] /\ queue'[i] = queue[i + 1]
    BY <1>3, <1>5, <2>1
  <2> QED
    BY <1>1, <2>1, <2>2 DEF Course
<1>9. ASSUME NEW i \in 0..Len(queue'), \A j \in (i + 1)..Len(queue') : queue'[j] \notin GroupCalls
      PROVE  rest[i] = InEffect(wanted)
  <2>1. ASSUME NEW j \in (i + 2)..Len(queue) PROVE queue[j] \notin GroupCalls
    <3>1. j - 1 \in (i + 1)..Len(queue') /\ (j - 1) + 1 = j
      BY <1>2
    <3> QED
      BY SMTT(30), <1>2, <1>3, <1>9, <3>1
  <2>2. i + 1 \in 0..Len(queue) /\ (i + 1) + 1 = i + 2
    BY <1>2
  <2>3. after[i + 1] = InEffect(wanted)
    BY <1>1, <2>1, <2>2 DEF Course
  <2> QED
    BY <1>2, <1>5, <2>3
<1>10. Course(rest)'
  <2>1. rest[0] = Entered'
    BY <1>2, <1>5, <1>7
  <2> QED
    BY <2>1, <1>8, <1>9 DEF Course, InEffect
<1>11. Head(queue) \in GroupCalls => Head(queue) # Entered
  BY <1>1, <1>2, <1>4 DEF Course
<1> QED
  BY <1>10, <1>11 DEF HasCourse

(***************************************************************************)
(* The application posts a handler: a group call in turn becomes the wish. *)
(***************************************************************************)
LEMMA CoursePosted ==
  ASSUME TypeOK, HasCourse, NEW k \in GroupCalls \cup {"disconnect"}, queue' = Append(queue, k), Entered' = Entered,
         InEffect(wanted') = IF k \in GroupCalls THEN k ELSE InEffect(wanted),
         k \in GroupCalls => k # InEffect(wanted)
  PROVE  HasCourse'
<1>1. PICK after \in [0..Len(queue) -> GroupCalls] : Course(after)
  BY DEF HasCourse
<1>2. Len(queue) \in Nat /\ Len(queue') = Len(queue) + 1
  BY DEF TypeOK
<1>3. \A i \in 1..Len(queue) : queue'[i] = queue[i]
  BY DEF TypeOK
<1>4. queue'[Len(queue) + 1] = k
  BY DEF TypeOK
<1>6. InEffect(wanted') \in GroupCalls
  BY DEF InEffect, GroupCalls
<1>5. PICK longer \in [0..Len(queue') -> GroupCalls] :
        /\ \A i \in 0..Len(queue) : longer[i] = after[i]
        /\ longer[Len(queue) + 1] = InEffect(wanted')
  <2> DEFINE whole == [i \in 0..(Len(queue) + 1) |-> IF i <= Len(queue) THEN after[i] ELSE InEffect(wanted')]
  <2>1. /\ whole \in [0..Len(queue') -> GroupCalls]
        /\ \A i \in 0..Len(queue) : whole[i] = after[i]
        /\ whole[Len(queue) + 1] = InEffect(wanted')
    BY <1>2, <1>6
  <2> QED
    BY <2>1
<1>8. after[Len(queue)] = InEffect(wanted)
  BY <1>1, <1>2 DEF Course
<1>9. ASSUME NEW i \in 1..Len(queue')
      PROVE  IF queue'[i] \in GroupCalls
             THEN longer[i] = queue'[i] /\ longer[i - 1] # queue'[i]
             ELSE longer[i] = longer[i - 1]
  <2>1. CASE i = Len(queue) + 1
    <3>1. i - 1 = Len(queue) /\ longer[i - 1] = after[Len(queue)]
      BY <1>2, <1>5, <2>1
    <3> QED
      BY <1>4, <1>5, <1>8, <2>1, <3>1
  <2>2. CASE i # Len(queue) + 1
    <3>1. i \in 1..Len(queue) /\ i \in 0..Len(queue) /\ i - 1 \in 0..Len(queue)
      BY <1>2, <2>2
    <3> QED
      BY ZenonT(30), <1>1, <1>3, <1>5, <3>1 DEF Course
  <2> QED
    BY <2>1, <2>2
<1>10. ASSUME NEW i \in 0..Len(queue'), \A j \in (i + 1)..Len(queue') : queue'[j] \notin GroupCalls
       PROVE  longer[i] = InEffect(wanted')
  <2>1. CASE i = Len(queue) + 1
    BY <1>5, <2>1
  <2>2. CASE i # Len(queue) + 1
    <3>1. i \in 0..Len(queue) /\ Len(queue) + 1 \in (i + 1)..Len(queue')
      BY <1>2, <2>2
    <3>2. k \notin GroupCalls
      BY <1>4, <1>10, <3>1
    <3>3. \A j \in (i + 1)..Len(queue) : queue[j] \notin GroupCalls
      BY <1>2, <1>3, <1>10, <3>1
    <3> QED
      BY <1>1, <1>5, <3>1, <3>2, <3>3 DEF Course
  <2> QED
    BY <2>1, <2>2
<1>11. Course(longer)'
  <2>1. longer[0] = Entered'
    BY <1>1, <1>2, <1>5 DEF Course
  <2> QED
    BY ZenonT(30), <2>1, <1>9, <1>10 DEF Course, InEffect
<1> QED
  BY <1>11 DEF HasCourse

(***************************************************************************)
(* What has gone wrong is never forgotten.                                 *)
(***************************************************************************)
LEMMA CleanBefore == Next /\ Clean' => Clean
<1>1. Next => mishaps \subseteq mishaps'
  BY DEF Next, AppStep, Connect, Resolve, Open, Bind, Connected, Disconnect, Transfer, Transferred, Begun, Overtakes,
         GroupCall, AsyncCall, Post, DisconnectHandler, GroupHandler, Close, Flags, SetOption
<1> QED
  BY <1>1 DEF Clean

(***************************************************************************)
(* The group calls that wait, after a step that leaves the handlers alone, *)
(* takes the first one, or adds one.                                       *)
(***************************************************************************)
LEMMA WaitingKept == queue' = queue => (Waiting(GroupCalls)' <=> Waiting(GroupCalls))
BY DEF Waiting

LEMMA WaitingPopped ==
  ASSUME TypeOK, queue # <<>>, queue' = Tail(queue)
  PROVE  /\ Waiting(GroupCalls)' => Waiting(GroupCalls)
         /\ Head(queue) \in GroupCalls => Waiting(GroupCalls)
<1>1. Len(queue) \in Nat \ {0} /\ Len(queue') = Len(queue) - 1 /\ Head(queue) = queue[1]
  BY DEF TypeOK
<1>2. \A i \in 1..(Len(queue) - 1) : queue'[i] = queue[i + 1]
  BY DEF TypeOK
<1> QED
  BY <1>1, <1>2 DEF Waiting

LEMMA WaitingPosted ==
  ASSUME TypeOK, NEW k \in GroupCalls \cup {"disconnect"}, queue' = Append(queue, k), k \notin GroupCalls
  PROVE  Waiting(GroupCalls)' => Waiting(GroupCalls)
<1>1. Len(queue) \in Nat /\ Len(queue') = Len(queue) + 1 /\ queue'[Len(queue) + 1] = k
  BY DEF TypeOK
<1>2. \A i \in 1..Len(queue) : queue'[i] = queue[i]
  BY SMTT(30) DEF TypeOK
<1> QED
  BY <1>1, <1>2 DEF Waiting

(***************************************************************************)
(* Every action keeps the part of MembershipInv about the calls.           *)
(***************************************************************************)
LEMMA UntroubledStep ==
  ASSUME TypeOK, SessionInv, MembershipInv, Next, Clean'
  PROVE  Untroubled'
<1>a. Placed /\ connected \in BOOLEAN /\ member \in BOOLEAN /\ wanted \in BOOLEAN /\ socket \in {"open", "closed"}
  BY DEF TypeOK, Placed
<1>b. Clean /\ "overlap" \notin mishaps /\ "option" \notin mishaps' /\ "overtaken" \notin mishaps'
  BY CleanBefore DEF Clean
<1>c. Untroubled /\ (connected /\ socket = "open" => HasCourse)
  BY <1>b DEF MembershipInv
<1>d. /\ ~(Disconnecting("app") /\ Disconnecting("io"))
      /\ Disconnecting("app") \/ Disconnecting("io") => connected
      /\ Connecting => ~connected
      /\ "bind" \notin mishaps => SocketInside
  BY <1>b DEF SessionInv
<1> USE DEF Untroubled, GroupPending, InEffect, GroupCalls
<1>1. CASE Connect
  BY <1>a, <1>c, <1>1, WaitingKept DEF Connect, Goto, Placed
<1>2. CASE Resolve
  BY <1>a, <1>c, <1>2, WaitingKept DEF Resolve, Goto, Placed
<1>3. CASE Open
  BY ZenonT(30), <1>a, <1>c, <1>d, <1>3, WaitingKept DEF Open, Goto, Throws, Placed, Connecting
<1>4. CASE Bind
  BY ZenonT(30), <1>a, <1>c, <1>d, <1>4, WaitingKept DEF Bind, Goto, Throws, Placed, Connecting, SocketInside
<1>5. CASE Connected
  BY <1>a, <1>c, <1>d, <1>5, WaitingKept DEF Connected, Goto, Placed, Connecting
<1>6. CASE Disconnect
  BY <1>a, <1>c, <1>6, WaitingKept DEF Disconnect, Goto, Placed, Begun
<1>7. CASE Transfer
  BY <1>a, <1>c, <1>7, WaitingKept DEF Transfer, Goto, Placed
<1>8. CASE Transferred
  BY <1>a, <1>c, <1>8, WaitingKept DEF Transferred, Goto, Placed, Begun
<1>9. ASSUME NEW k \in GroupCalls, GroupCall(k) PROVE Untroubled'
  BY <1>a, <1>b, <1>c, <1>9, WaitingKept DEF GroupCall, InTurn, Overtakes, Goto, Placed
<1>10. ASSUME NEW k \in GroupCalls \cup {"disconnect"}, AsyncCall(k) PROVE Untroubled'
  BY <1>a, <1>c, <1>10, WaitingKept DEF AsyncCall, InTurn, PostStep, Goto, Placed
<1>11. ASSUME NEW k \in GroupCalls \cup {"disconnect"}, Post(k) PROVE Untroubled'
  BY <1>a, <1>c, <1>11, WaitingPosted DEF Post, PostStep, Goto, Placed
<1>12. CASE DisconnectHandler
  BY <1>a, <1>c, <1>12, WaitingPopped DEF DisconnectHandler, Goto, Placed, Begun
<1>13. CASE GroupHandler
  <2>1. queue # <<>> /\ Head(queue) \in GroupCalls /\ queue' = Tail(queue) /\ at["io"] = "idle"
    BY <1>13 DEF GroupHandler, Goto
  <2>2. Waiting(GroupCalls)
    BY <2>1, WaitingPopped
  <2>3. connected /\ at["app"] \notin GroupCalls \cup {"flags"} /\ socket = "open"
    BY <1>a, <1>c, <1>d, <2>1, <2>2 DEF SocketInside
  <2>4. at' = [at EXCEPT !["io"] = Head(queue)]
    BY <1>13, <2>3 DEF GroupHandler, Goto
  <2>5. Head(queue) # InEffect(member)
    <3>1. Entered' = Head(queue) /\ Entered = InEffect(member)
      BY <1>a, <2>1, <2>4 DEF Entered, Placed
    <3> QED
      BY <1>c, <1>13, <2>1, <2>3, <3>1, CoursePopped DEF GroupHandler
  <2> QED
    BY <1>a, <1>c, <1>13, <2>1, <2>3, <2>4, <2>5 DEF GroupHandler, Placed
<1>14. ASSUME NEW a \in {"app", "io"}, Close(a) PROVE Untroubled'
  BY ZenonT(30), <1>a, <1>b, <1>c, <1>d, <1>14, WaitingKept
  DEF Close, Goto, Throws, Other, Overtakes, Placed, Disconnecting
<1>15. ASSUME NEW a \in {"app", "io"}, Flags(a) PROVE Untroubled'
  BY <1>a, <1>b, <1>c, <1>d, <1>15, WaitingKept DEF Flags, Goto, Overtakes, Placed, Disconnecting, SocketInside
<1>16. ASSUME NEW a \in {"app", "io"}, NEW k \in GroupCalls, SetOption(a, k) PROVE Untroubled'
  <2>1. ~(MayFail /\ Throws(a) /\ mishaps' = mishaps \cup {"option"})
    BY <1>b
  <2>2. CASE a = "io"
    <3>1. connected /\ socket = "open" /\ k # InEffect(member)
      BY <1>a, <1>c, <1>d, <1>16, <2>2 DEF SetOption, SocketInside
    <3>2. at' = [at EXCEPT !["io"] = "idle"] /\ member' = (k = "join") /\ wanted' = wanted /\ alive' = alive
          /\ mishaps' = mishaps
      BY <1>a, <1>16, <2>1, <2>2, <3>1 DEF SetOption, Goto
    <3> QED
      BY <1>a, <1>c, <1>16, <2>2, <3>1, <3>2, WaitingKept DEF SetOption, Placed
  <2>3. CASE a = "app"
    <3>1. at' = [at EXCEPT !["app"] = "idle"] /\ at["app"] = k /\ alive' = alive /\ mishaps' = mishaps
      BY ZenonT(30), <1>a, <1>c, <1>16, <2>1, <2>3 DEF SetOption, Goto, Throws
    <3>2. (socket = "open" /\ connected /\ member' = (k = "join")) \/ member' = member
      BY <1>a, <1>c, <1>16, <2>1, <3>1 DEF SetOption
    <3>3. UNCHANGED <<connected, socket, queue>>
      BY <1>16 DEF SetOption
    <3> QED
      BY <1>a, <1>c, <3>1, <3>2, <3>3, WaitingKept DEF Placed
  <2> QED
    BY <2>2, <2>3
<1> QED
  BY <1>1, <1>2, <1>3, <1>4, <1>5, <1>6, <1>7, <1>8, <1>9, <1>10, <1>11, <1>12, <1>13, <1>14, <1>15, <1>16
    DEF Next, AppStep

(***************************************************************************)
(* Every action keeps the course of the membership.                        *)
(***************************************************************************)
LEMMA CourseStep ==
  ASSUME TypeOK, SessionInv, MembershipInv, Next, Clean', connected', socket' = "open"
  PROVE  HasCourse'
<1>a. Placed /\ connected \in BOOLEAN /\ member \in BOOLEAN /\ wanted \in BOOLEAN /\ socket \in {"open", "closed"}
  BY DEF TypeOK, Placed
<1>b. Clean /\ "overlap" \notin mishaps /\ "option" \notin mishaps' /\ "overtaken" \notin mishaps'
  BY CleanBefore DEF Clean
<1>c. Untroubled /\ (connected /\ socket = "open" => HasCourse)
  BY <1>b DEF MembershipInv
<1>d. Connecting => ~connected
  BY <1>b DEF SessionInv
<1>e. ASSUME connected, socket = "open", queue' = queue, wanted' = wanted, member' = member, at'["io"] = at["io"]
      PROVE  HasCourse'
  BY <1>c, <1>e, CourseKept DEF Entered
<1>1. CASE Connect \/ Resolve
  BY ZenonT(30), <1>a, <1>1, <1>d DEF Connect, Resolve, Goto, Connecting
<1>2. CASE Open \/ Bind
  BY ZenonT(30), <1>a, <1>2, <1>d DEF Open, Bind, Connecting
<1>3. CASE Connected
  <2>1. ~connected /\ ~member /\ ~Waiting(GroupCalls) /\ at["io"] \notin GroupCalls
    BY <1>c, <1>d, <1>3 DEF Connected, Goto, Connecting, Untroubled, GroupPending
  <2>2. Entered' = InEffect(wanted)' /\ queue' = queue
    BY <1>a, <1>3, <2>1 DEF Connected, Goto, Entered, InEffect, Placed
  <2>3. Len(queue') \in Nat
    BY <2>2 DEF TypeOK
  <2> QED
    BY <2>1, <2>2, <2>3, WaitingKept, CourseSettled
<1>4. CASE Disconnect \/ Transfer \/ Transferred
  BY ZenonT(30), <1>a, <1>e, <1>4 DEF Disconnect, Transfer, Transferred, Goto, Placed
<1>5. ASSUME NEW k \in GroupCalls, GroupCall(k) PROVE HasCourse'
  BY <1>a, <1>e, <1>5 DEF GroupCall, Goto, Placed
<1>6. ASSUME NEW k \in GroupCalls \cup {"disconnect"}, AsyncCall(k) PROVE HasCourse'
  BY <1>a, <1>e, <1>6 DEF AsyncCall, Goto, Placed
<1>7. ASSUME NEW k \in GroupCalls \cup {"disconnect"}, Post(k) PROVE HasCourse'
  <2>1. connected /\ socket = "open" /\ queue' = Append(queue, k) /\ member' = member /\ at'["io"] = at["io"]
    BY <1>a, <1>7 DEF Post, Goto, Placed
  <2>2. Entered' = Entered
    BY <2>1 DEF Entered
  <2>3. InEffect(wanted') = IF k \in GroupCalls THEN k ELSE InEffect(wanted)
    BY ZenonT(30), <1>7 DEF Post, InEffect, GroupCalls
  <2>4. k \in GroupCalls => k # InEffect(wanted)
    BY <1>c, <1>7 DEF Post, PostStep, Goto, Untroubled, InEffect, GroupCalls
  <2> QED
    BY <1>c, <2>1, <2>2, <2>3, <2>4, CoursePosted
<1>8. CASE DisconnectHandler
  <2>1. connected /\ socket = "open" /\ queue # <<>> /\ queue' = Tail(queue) /\ wanted' = wanted
        /\ Head(queue) = "disconnect" /\ member' = member
    BY <1>8 DEF DisconnectHandler
  <2>2. Entered' = Entered /\ Head(queue) \notin GroupCalls
    BY <1>a, <1>8, <2>1 DEF DisconnectHandler, Goto, Entered, Placed, GroupCalls
  <2> QED
    BY <1>c, <2>1, <2>2, CoursePopped
<1>9. CASE GroupHandler
  <2>1. connected /\ socket = "open" /\ queue # <<>> /\ queue' = Tail(queue) /\ wanted' = wanted
        /\ Head(queue) \in GroupCalls
    BY <1>9 DEF GroupHandler
  <2>2. Entered' = Head(queue)
    BY <1>a, <1>9, <2>1 DEF GroupHandler, Goto, Entered, Placed, GroupCalls
  <2> QED
    BY <1>c, <2>1, <2>2, CoursePopped
<1>10. CASE \E a \in {"app", "io"} : Close(a) \/ Flags(a)
  BY <1>10 DEF Close, Flags
<1>11. ASSUME NEW a \in {"app", "io"}, NEW k \in GroupCalls, SetOption(a, k) PROVE HasCourse'
  <2>1. connected /\ socket = "open" /\ queue' = queue /\ at[a] = k
    BY <1>11 DEF SetOption
  <2>2. ~(MayFail /\ Throws(a) /\ mishaps' = mishaps \cup {"option"})
    BY <1>b
  <2>3. CASE a = "io"
    <3>1. k # InEffect(member)
      BY <1>c, <2>1, <2>3 DEF Untroubled
    <3>2. Entered' = Entered /\ wanted' = wanted
      BY ZenonT(30), <1>a, <1>11, <2>1, <2>2, <2>3, <3>1 DEF SetOption, Goto, Entered, Placed, InEffect, GroupCalls
    <3> QED
      BY <1>c, <2>1, <3>2, CourseKept
  <2>4. CASE a = "app" /\ member' = member /\ wanted' = wanted
    BY <1>a, <1>e, <1>11, <2>1, <2>4 DEF SetOption, Goto, Throws, Placed
  <2>5. CASE a = "app" /\ member' = (k = "join") /\ wanted' = (k = "join")
    <3>1. ~Waiting(GroupCalls) /\ at["io"] \notin GroupCalls
      BY <1>c, <2>1, <2>5 DEF Untroubled, GroupPending
    <3>2. at'["io"] = at["io"]
      BY <1>a, <1>11, <2>5 DEF SetOption, Goto, Throws, Placed
    <3>3. Entered' = InEffect(wanted)'
      BY <2>5, <3>1, <3>2 DEF Entered, InEffect
    <3>4. Len(queue') \in Nat
      BY <2>1 DEF TypeOK
    <3> QED
      BY <2>1, <3>1, <3>3, <3>4, WaitingKept, CourseSettled
  <2> QED
    BY <1>11, <2>3, <2>4, <2>5 DEF SetOption
<1> QED
  BY <1>1, <1>2, <1>3, <1>4, <1>5, <1>6, <1>7, <1>8, <1>9, <1>10, <1>11 DEF Next, AppStep

(***************************************************************************)
(* As long as no disconnects overlap, nothing overtakes a group call and   *)
(* the system refuses none, the waiting handlers lead from the membership  *)
(* of the socket to the one the calls ask for.                             *)
(***************************************************************************)
THEOREM MembershipCourse == Spec => []MembershipInv
<1> USE DEF MembershipInv, Untroubled, GroupPending, Waiting, Clean, HasCourse, Course, Entered, InEffect
<1>1. Init => MembershipInv
  BY DEF Init, GroupCalls
<1>2. MembershipInv /\ UNCHANGED vars => MembershipInv'
  BY DEF vars
<1> HIDE DEF Untroubled, Clean, HasCourse
<1>3. TypeOK /\ SessionInv /\ MembershipInv /\ Next => MembershipInv'
  BY UntroubledStep, CourseStep DEF MembershipInv
<1> QED
  BY <1>1, <1>2, <1>3, CallsTypeCorrect, CallsInvariant, PTL DEF Spec

(***************************************************************************)
(* UDPClient's group calls never end the io thread with an exception,      *)
(* unless the system refuses one, or a disconnect or a direct call         *)
(* overtakes it.                                                           *)
(***************************************************************************)
THEOREM GroupCallsSpareThread == Spec => []IoThreadLives
<1>1. MembershipInv => IoThreadLives
  BY DEF MembershipInv, Clean, Untroubled, IoThreadLives
<1> QED
  BY <1>1, MembershipCourse, PTL

(***************************************************************************)
(* When nothing is in progress a connected client is a member of the group *)
(* exactly when the calls of its session say so.                           *)
(***************************************************************************)
THEOREM MembershipAsCalled == Spec => []MembershipFollowsCalls
<1>1. TypeOK /\ SessionInv /\ MembershipInv => MembershipFollowsCalls
  <2> SUFFICES ASSUME TypeOK, SessionInv, MembershipInv, Quiet, connected, ~Waiting(GroupCalls), Clean
               PROVE  member = wanted
    BY DEF MembershipFollowsCalls, Clean
  <2>1. socket = "open"
    BY DEF SessionInv, MembershipInv, Clean, Untroubled, SocketInside, Quiet
  <2>2. PICK after \in [0..Len(queue) -> GroupCalls] : Course(after)
    BY <2>1 DEF MembershipInv, HasCourse
  <2>3. Len(queue) \in Nat
    BY DEF TypeOK
  <2>4. after[0] = InEffect(member)
    BY <2>2 DEF Course, Entered, Quiet, GroupCalls
  <2>5. after[0] = InEffect(wanted)
    BY <2>2, <2>3 DEF Course, Waiting
  <2> QED
    BY <2>4, <2>5 DEF InEffect, TypeOK
<1> QED
  BY <1>1, CallsTypeCorrect, CallsInvariant, MembershipCourse, PTL
=============================================================================
