-------------------------- MODULE ServiceLifecycle --------------------------
(***************************************************************************)
(* What Service promises to the thread that calls it: Start returns when   *)
(* the service is up; Stop returns when it is down and its threads have    *)
(* been joined; Restart is Stop and then Start; threads are spawned by     *)
(* Start only and joined by Stop only, and while the service is up at      *)
(* least one thread is there.                                              *)
(***************************************************************************)
CONSTANT Threads

VARIABLES
  up,    \* IsStarted()
  live,  \* threads spawned and not yet joined
  call   \* the call in progress

lifeVars == <<up, live, call>>

LifeInit == up = FALSE /\ live = {} /\ call = "none"

CallStart == call = "none" /\ ~up /\ live = {} /\ call' = "start" /\ UNCHANGED <<up, live>>

CallStop == call = "none" /\ up /\ call' \in {"stop", "restart"} /\ UNCHANGED <<up, live>>

Spawn(t) == call = "start" /\ t \notin live /\ live' = live \cup {t} /\ UNCHANGED <<up, call>>

Rise == call = "start" /\ live # {} /\ up' = TRUE /\ UNCHANGED <<live, call>>

StartDone == call = "start" /\ up /\ live = Threads /\ call' = "none" /\ UNCHANGED <<up, live>>

Fall == call \in {"stop", "restart"} /\ up' = FALSE /\ UNCHANGED <<live, call>>

Join(t) ==
  /\ call \in {"stop", "restart"}
  /\ t \in live
  /\ up => live # {t}
  /\ live' = live \ {t}
  /\ UNCHANGED <<up, call>>

StopDone ==
  /\ ~up
  /\ live = {}
  /\ \/ call = "stop" /\ call' = "none"
     \/ call = "restart" /\ call' = "start"
  /\ UNCHANGED <<up, live>>

LifeNext ==
  \/ CallStart \/ CallStop \/ Rise \/ StartDone \/ Fall \/ StopDone
  \/ \E t \in Threads : Spawn(t) \/ Join(t)

LifeSpec == LifeInit /\ [][LifeNext]_lifeVars
=============================================================================
