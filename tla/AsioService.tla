---------------------------- MODULE AsioService -----------------------------
(***************************************************************************)
(* Service (source/server/asio/service.cpp): one application thread calls  *)
(* Start, Stop and Restart, and N threads run ServiceThread.               *)
(*                                                                         *)
(* In Service(N, false) thread t runs io_service t; in Service(N, true)    *)
(* all threads run io_service 1, and the handlers of the service go        *)
(* through one strand.  q[s] holds the handlers waiting in io_service s in *)
(* execution order (in the second mode, those of the service's strand):    *)
(* "start" and "stop" are those of Start and Stop, "user" is one posted    *)
(* while the service is up, "late" one posted before, during or after a    *)
(* call, and "throws" and "notconn" are handlers that end with a           *)
(* system_error, the latter with not_connected.                            *)
(***************************************************************************)
EXTENDS Integers, Sequences, FiniteSets

CONSTANTS
  N,         \* number of threads
  Pool,      \* second argument of the constructor
  Modes,     \* values of the argument of Start: whether to poll
  MayThrow,  \* whether posted handlers may throw
  MaxQueue,  \* bound on the handlers that wait when one is posted
  MaxRuns    \* bound on the calls of Start and Restart

ASSUME ServiceAssumption ==
  /\ N \in Nat \ {0}
  /\ Pool \in BOOLEAN
  /\ Modes \subseteq BOOLEAN
  /\ MayThrow \in BOOLEAN
  /\ MaxQueue \in Nat
  /\ MaxRuns \in Nat

VARIABLES
  started,  \* _started
  polling,  \* _polling
  q,        \* q[s]: handlers waiting in io_service s
  stopped,  \* stopped[s]: io_service s has been stopped
  pc,       \* pc[t]: where ServiceThread t is
  tpoll,    \* tpoll[t]: its local variable polling
  sweep,    \* the next io_service that the stop handler stops
  caller,   \* where the application thread is
  index,    \* the thread that it spawns or joins next
  restart,  \* whether it is inside Restart
  saved,    \* the local variable polling of Restart
  runs      \* calls of Start and Restart so far

threadVars == <<pc, tpoll, sweep>>

callVars == <<caller, index, restart, saved, runs>>

vars == <<started, polling, q, stopped, threadVars, callVars>>

Threads == 1..N

Services == IF Pool THEN 1..1 ELSE 1..N

ServiceOf(t) == IF Pool THEN 1 ELSE t

Throwing == IF MayThrow THEN {"throws", "notconn"} ELSE {}

Kinds == {"start", "stop", "late", "user", "throws", "notconn"}

Gone == {"none", "joined"}

TypeOK ==
  /\ started \in BOOLEAN
  /\ polling \in BOOLEAN
  /\ q \in [Services -> Seq(Kinds)]
  /\ stopped \in [Services -> BOOLEAN]
  /\ pc \in [Threads -> {"none", "begin", "loop", "check", "stopping", "batch", "exited", "joined"}]
  /\ tpoll \in [Threads -> BOOLEAN]
  /\ sweep \in Services
  /\ caller \in {"idle", "start_post", "spawn", "start_spin", "stop_post", "join", "stop_spin"}
  /\ index \in Threads
  /\ restart \in BOOLEAN
  /\ saved \in BOOLEAN
  /\ runs \in Nat

Init ==
  /\ started = FALSE
  /\ polling = FALSE
  /\ q = [s \in Services |-> <<>>]
  /\ stopped = [s \in Services |-> FALSE]
  /\ pc = [t \in Threads |-> "none"]
  /\ tpoll = [t \in Threads |-> FALSE]
  /\ sweep = 1
  /\ caller = "idle"
  /\ index = 1
  /\ restart = FALSE
  /\ saved = FALSE
  /\ runs = 0
-----------------------------------------------------------------------------
(***************************************************************************)
(* Start(p): the test, _polling, the posted start handler, the threads,    *)
(* the wait.  An io_service that was stopped runs no handler again, so     *)
(* applications call Start once and then Restart.                          *)
(***************************************************************************)
Goto(from, to) == caller = from /\ caller' = to

PostTo(s, k) == q' = [q EXCEPT ![s] = Append(@, k)]

Start(p) ==
  /\ Goto("idle", "start_post")
  /\ runs < MaxRuns
  /\ \A s \in Services : ~stopped[s]
  /\ ~started
  /\ polling' = p
  /\ runs' = runs + 1
  /\ UNCHANGED <<started, q, stopped, threadVars, index, restart, saved>>

StartPost ==
  /\ Goto("start_post", "spawn")
  /\ PostTo(1, "start")
  /\ index' = 1
  /\ UNCHANGED <<started, polling, stopped, threadVars, restart, saved, runs>>

StartSpawn ==
  /\ Goto("spawn", IF index = N THEN "start_spin" ELSE "spawn")
  /\ pc' = [pc EXCEPT ![index] = "begin"]
  /\ index' = IF index = N THEN 1 ELSE index + 1
  /\ UNCHANGED <<started, polling, q, stopped, tpoll, sweep, restart, saved, runs>>

StartReturn ==
  /\ Goto("start_spin", "idle")
  /\ started
  /\ restart' = FALSE
  /\ UNCHANGED <<started, polling, q, stopped, threadVars, index, saved, runs>>

(***************************************************************************)
(* Stop(), which Restart() calls first.                                    *)
(***************************************************************************)
Stop ==
  /\ Goto("idle", "stop_post")
  /\ started
  /\ restart' \in {r \in BOOLEAN : r => runs < MaxRuns}
  /\ saved' = polling
  /\ runs' = IF restart' THEN runs + 1 ELSE runs
  /\ UNCHANGED <<started, polling, q, stopped, threadVars, index>>

StopPost_Front ==
  /\ Goto("stop_post", "join")
  /\ q' = [q EXCEPT ![1] = <<"stop">> \o @]
  /\ index' = 1
  /\ UNCHANGED <<started, polling, stopped, threadVars, restart, saved, runs>>

StopPost ==
  /\ Goto("stop_post", "join")
  /\ PostTo(1, "stop")
  /\ index' = 1
  /\ UNCHANGED <<started, polling, stopped, threadVars, restart, saved, runs>>

StopJoin_NoWait ==
  /\ Goto("join", IF index = N THEN "stop_spin" ELSE "join")
  /\ pc' = [pc EXCEPT ![index] = "joined"]
  /\ polling' = (polling /\ index # N)
  /\ index' = IF index = N THEN 1 ELSE index + 1
  /\ UNCHANGED <<started, q, stopped, tpoll, sweep, restart, saved, runs>>

StopJoin ==
  /\ Goto("join", IF index = N THEN "stop_spin" ELSE "join")
  /\ pc[index] = "exited"
  /\ pc' = [pc EXCEPT ![index] = "joined"]
  /\ polling' = (polling /\ index # N)
  /\ index' = IF index = N THEN 1 ELSE index + 1
  /\ UNCHANGED <<started, q, stopped, tpoll, sweep, restart, saved, runs>>

StopReturn_NoWait ==
  /\ Goto("stop_spin", "idle")
  /\ ~restart
  /\ UNCHANGED <<started, polling, q, stopped, threadVars, index, restart, saved, runs>>

StopReturn ==
  /\ Goto("stop_spin", "idle")
  /\ ~started
  /\ ~restart
  /\ UNCHANGED <<started, polling, q, stopped, threadVars, index, restart, saved, runs>>

(***************************************************************************)
(* ... and goes on: new io_services, and Start(saved).                     *)
(***************************************************************************)
RestartStart ==
  /\ Goto("stop_spin", "start_post")
  /\ ~started
  /\ restart
  /\ q' = [s \in Services |-> <<>>]
  /\ stopped' = [s \in Services |-> FALSE]
  /\ polling' = saved
  /\ UNCHANGED <<started, threadVars, index, restart, saved, runs>>

(***************************************************************************)
(* Post(), and the handlers that servers and clients post.                 *)
(***************************************************************************)
PostHandler(s, k) ==
  /\ Len(q[s]) < MaxQueue
  /\ k \in IF started /\ caller = "idle" THEN {"user"} \cup Throwing ELSE {"late"} \cup Throwing
  /\ PostTo(s, k)
  /\ UNCHANGED <<started, polling, stopped, threadVars, callVars>>
-----------------------------------------------------------------------------
(***************************************************************************)
(* ServiceThread.                                                          *)
(***************************************************************************)
Move(t, to) == pc' = [pc EXCEPT ![t] = to]

ThreadBegin(t) ==
  /\ pc[t] = "begin"
  /\ Move(t, "loop")
  /\ tpoll' = [tpoll EXCEPT ![t] = polling]
  /\ UNCHANGED <<started, polling, q, stopped, sweep, callVars>>

(***************************************************************************)
(* run() and poll() take the next handler of an io_service that is not     *)
(* stopped.  A thread that is inside the strand goes on with the handlers  *)
(* that were in it even when the io_service has been stopped ("batch").    *)
(***************************************************************************)
Takes(t, k) ==
  /\ pc[t] = "batch" \/ (pc[t] = "loop" /\ ~stopped[ServiceOf(t)])
  /\ Pool => \A u \in Threads : pc[u] # "stopping" /\ (pc[u] = "batch" => u = t)
  /\ q[ServiceOf(t)] # <<>>
  /\ Head(q[ServiceOf(t)]) = k
  /\ q' = [q EXCEPT ![ServiceOf(t)] = Tail(@)]

StartHandler_NoFlag(t) ==
  /\ Takes(t, "start")
  /\ UNCHANGED <<started, polling, stopped, threadVars, callVars>>

StartHandler(t) ==
  /\ Takes(t, "start")
  /\ started' = TRUE
  /\ UNCHANGED <<polling, stopped, threadVars, callVars>>

StopHandler(t) ==
  /\ Takes(t, "stop")
  /\ IF started THEN Move(t, "stopping") ELSE UNCHANGED pc
  /\ sweep' = 1
  /\ UNCHANGED <<started, polling, stopped, tpoll, callVars>>

(***************************************************************************)
(* The stop handler stops one io_service after the other, then clears      *)
(* _started.                                                               *)
(***************************************************************************)
StopHandlerSweep_OnlyFirst(t) ==
  /\ pc[t] = "stopping"
  /\ ~stopped[sweep]
  /\ stopped' = [stopped EXCEPT ![sweep] = TRUE]
  /\ UNCHANGED <<started, polling, q, pc, tpoll, sweep, callVars>>

StopHandlerSweep(t) ==
  /\ pc[t] = "stopping"
  /\ ~stopped[sweep]
  /\ stopped' = [stopped EXCEPT ![sweep] = TRUE]
  /\ sweep' = IF sweep + 1 \in Services THEN sweep + 1 ELSE sweep
  /\ UNCHANGED <<started, polling, q, pc, tpoll, callVars>>

StopHandlerFlag(t) ==
  /\ pc[t] = "stopping"
  /\ stopped[sweep]
  /\ started' = FALSE
  /\ Move(t, IF Pool THEN "batch" ELSE "loop")
  /\ UNCHANGED <<polling, q, stopped, tpoll, sweep, callVars>>

BatchEnds(t) ==
  /\ pc[t] = "batch"
  /\ Move(t, "loop")
  /\ UNCHANGED <<started, polling, q, stopped, tpoll, sweep, callVars>>

UserHandler(t) ==
  /\ \E k \in {"user", "late"} : Takes(t, k)
  /\ UNCHANGED <<started, polling, stopped, threadVars, callVars>>

(***************************************************************************)
(* not_connected is ignored, any other system_error ends the thread.       *)
(***************************************************************************)
HandlerThrows(t) ==
  /\ \/ Takes(t, "throws") /\ Move(t, "exited")
     \/ Takes(t, "notconn") /\ Move(t, "check")
  /\ UNCHANGED <<started, polling, stopped, tpoll, sweep, callVars>>

RunReturns_NoWork(t) ==
  /\ pc[t] = "loop"
  /\ ~tpoll[t]
  /\ stopped[ServiceOf(t)] \/ q[ServiceOf(t)] = <<>>
  /\ Move(t, "exited")
  /\ UNCHANGED <<started, polling, q, stopped, tpoll, sweep, callVars>>

RunReturns(t) ==
  /\ pc[t] = "loop"
  /\ ~tpoll[t]
  /\ stopped[ServiceOf(t)]
  /\ Move(t, "exited")
  /\ UNCHANGED <<started, polling, q, stopped, tpoll, sweep, callVars>>

(***************************************************************************)
(* poll() returns when there is nothing to run, or another thread of the   *)
(* pool is running it.                                                     *)
(***************************************************************************)
PollReturns(t) ==
  /\ pc[t] = "loop"
  /\ tpoll[t]
  /\ \/ q[ServiceOf(t)] = <<>>
     \/ stopped[ServiceOf(t)]
     \/ Pool /\ \E u \in Threads \ {t} : pc[u] \in {"loop", "stopping", "batch"}
  /\ Move(t, "check")
  /\ UNCHANGED <<started, polling, q, stopped, tpoll, sweep, callVars>>

WhileStarted(t) ==
  /\ pc[t] = "check"
  /\ Move(t, IF started THEN "loop" ELSE "exited")
  /\ UNCHANGED <<started, polling, q, stopped, tpoll, sweep, callVars>>
-----------------------------------------------------------------------------
HandlerStep(t) ==
  \/ StartHandler(t) \/ StopHandler(t) \/ StopHandlerSweep(t) \/ StopHandlerFlag(t)
  \/ UserHandler(t) \/ HandlerThrows(t)

ThreadStep(t) ==
  \/ ThreadBegin(t) \/ HandlerStep(t) \/ BatchEnds(t)
  \/ RunReturns(t) \/ PollReturns(t) \/ WhileStarted(t)

CallBegins == Stop \/ \E p \in Modes : Start(p)

CallContinues ==
  \/ StartPost \/ StartSpawn \/ StartReturn
  \/ StopPost \/ StopJoin \/ StopReturn \/ RestartStart

Posts == \E s \in Services, k \in Kinds : PostHandler(s, k)

Next == CallBegins \/ CallContinues \/ Posts \/ \E t \in Threads : ThreadStep(t)

Spec == Init /\ [][Next]_vars

(***************************************************************************)
(* Fairness: threads that can go on do so, a call that has begun too, and  *)
(* a thread leaves the strand, whose batch of ready handlers is finite.    *)
(***************************************************************************)
FairSpec ==
  /\ Spec
  /\ \A t \in Threads : WF_vars(ThreadStep(t)) /\ WF_vars(BatchEnds(t))
  /\ WF_vars(CallContinues)
-----------------------------------------------------------------------------
InQueue(w, k) == \E i \in 1..Len(w) : w[i] = k

Has(s, k) == InQueue(q[s], k)

(***************************************************************************)
(* After Stop has returned no thread is left, and every thread has been    *)
(* joined: the vector of std::thread can be destroyed or assigned to.      *)
(***************************************************************************)
JoinedWhenDown == caller = "idle" /\ ~started => \A t \in Threads : pc[t] \in Gone

(***************************************************************************)
(* Start() assigns a thread only over one that has been joined (assigning  *)
(* over a joinable std::thread ends the program).                          *)
(***************************************************************************)
SpawnsOverJoined == caller = "spawn" => pc[index] \in Gone

(***************************************************************************)
(* A service that was started without polling keeps all its threads until  *)
(* it is stopped, however early or late they are scheduled.  (With polling *)
(* a thread may find IsStarted() false before the start handler has run.)  *)
(***************************************************************************)
AllThreadsServe ==
  ~MayThrow /\ caller = "idle" /\ started /\ ~polling
    => \A t \in Threads : pc[t] \in {"begin", "loop"}

(***************************************************************************)
(* Stop() lets what was posted to the service before it run: when it has   *)
(* returned, io_service 1 holds none of those handlers.                    *)
(***************************************************************************)
DrainedWhenDown == caller = "idle" /\ ~started => ~Has(1, "user")

(***************************************************************************)
(* No stop handler outlives the Stop() that posted it, so none can end a   *)
(* later run of the service.                                               *)
(***************************************************************************)
NoStrayStop ==
  caller \notin {"join", "stop_spin"}
    => /\ \A s \in Services : ~Has(s, "stop")
       /\ \A t \in Threads : pc[t] # "stopping"

(***************************************************************************)
(* The service keeps the promises of ServiceLifecycle (when no handler     *)
(* ends a thread with an exception).                                       *)
(***************************************************************************)
Call ==
  IF caller = "idle" THEN "none"
  ELSE IF caller \in {"start_post", "spawn", "start_spin"} THEN "start"
  ELSE IF restart THEN "restart" ELSE "stop"

Live == {t \in Threads : pc[t] \notin Gone}

Lifecycle == INSTANCE ServiceLifecycle WITH up <- started, live <- Live, call <- Call

KeepsLifecycle == Lifecycle!LifeSpec

(***************************************************************************)
(* The inductive invariant behind these properties.  Each call has at most *)
(* one handler waiting, and only while the call is in progress; the stages *)
(* of the call say which threads are there.                                *)
(***************************************************************************)
Once(w, k) == \A i, j \in 1..Len(w) : w[i] = k /\ w[j] = k => i = j

Starting == {"start_post", "spawn", "start_spin"}

Stopping == {"join", "stop_spin"}

HandlersInv ==
  /\ \A s \in Services : s # 1 => ~Has(s, "start") /\ ~Has(s, "stop")
  /\ Once(q[1], "start") /\ Once(q[1], "stop")
  /\ Has(1, "start") => caller \in {"spawn", "start_spin"} /\ ~started
  /\ Has(1, "stop") => caller \in Stopping /\ started
  /\ caller = "start_post" => ~started
  /\ caller = "stop_post" => started

SweepInv ==
  /\ \A t \in Threads : pc[t] = "stopping" => caller \in Stopping /\ started /\ ~Has(1, "stop")
  /\ \A t, u \in Threads : pc[t] = "stopping" /\ pc[u] = "stopping" => t = u

StagesInv ==
  /\ caller \in {"start_post", "stop_spin"} => \A t \in Threads : pc[t] \in Gone
  /\ caller = "idle" /\ ~started => \A t \in Threads : pc[t] \in Gone
  /\ caller = "spawn" => \A t \in Threads : pc[t] \in Gone <=> t >= index
  /\ caller = "start_spin" => \A t \in Threads : pc[t] \notin Gone
  /\ caller = "join" => \A t \in Threads : t < index => pc[t] \in Gone

StoppedInv ==
  /\ caller \in Starting => \A s \in Services : ~stopped[s]
  /\ started /\ (\E s \in Services : stopped[s]) => \E t \in Threads : pc[t] = "stopping"

ServingInv ==
  ~MayThrow =>
    /\ \A s \in Services : ~Has(s, "throws")
    /\ started => \E t \in Threads : pc[t] \in {"loop", "check", "stopping", "batch"}

(***************************************************************************)
(* The stop handler waits behind what was posted before Stop(), and when   *)
(* it has been taken nothing of that is left.                              *)
(***************************************************************************)
UsersFirst(w) == \A i, j \in 1..Len(w) : w[i] = "user" /\ w[j] = "stop" => i < j

DrainInv ==
  /\ caller \in Stopping => UsersFirst(q[1]) /\ (Has(1, "stop") \/ ~Has(1, "user"))
  /\ ~started => ~Has(1, "user")

(***************************************************************************)
(* From its spawning to the call of Stop() a thread that does not poll is  *)
(* on its way to run() or in it.                                           *)
(***************************************************************************)
Running == caller \in {"spawn", "start_spin"} \/ (caller = "idle" /\ started)

RunInv ==
  ~MayThrow =>
    /\ \A s \in Services : ~Has(s, "notconn")
    /\ caller = "idle" /\ started => \A t \in Threads : pc[t] \notin Gone
    /\ Running /\ ~polling =>
         \A t \in Threads : /\ pc[t] \in Gone \cup {"begin", "loop"}
                            /\ pc[t] = "loop" => ~tpoll[t]

(***************************************************************************)
(* Start() and Stop() return, and Restart() too.                           *)
(***************************************************************************)
StartReturns == caller = "start_post" ~> caller = "idle"

StopReturns == caller = "stop_post" ~> caller = "idle"
=============================================================================
