--------------------------- MODULE ThreadControl ----------------------------
(***************************************************************************)
(* Thread (source/server/thread.cpp): priority, affinity and sleep of one  *)
(* thread.  The thread reads and sets its own attributes and sleeps, while *)
(* another thread sets them through its std::thread.  A call that throws   *)
(* changes nothing.                                                        *)
(***************************************************************************)
EXTENDS Integers, FiniteSets

CONSTANTS
  Online,      \* the CPUs of the machine
  Bits,        \* size of the bitset of an affinity: 64
  Second,      \* nanoseconds in a second
  MaxSleep,    \* bound on the argument of SleepFor
  Priorities   \* the priorities that are set

ASSUME ThreadAssumption ==
  /\ Online \subseteq Nat
  /\ Bits \in Nat
  /\ Second \in Nat \ {0}
  /\ MaxSleep \in Nat
  /\ Priorities \subseteq {"IDLE", "LOWEST", "LOW", "NORMAL", "HIGH", "HIGHEST", "REALTIME"}

VARIABLES
  policy,  \* scheduling policy of the thread: "OTHER" or "RR"
  prio,    \* its sched_priority
  mask,    \* the CPUs it may run on
  doing,   \* the thread is "idle", in "sleep", or inside GetPriority() ("get")
  read,    \* sched.sched_priority of that call
  got,     \* its result
  req,     \* the time for nanosleep(): seconds and nanoseconds
  given,   \* auxiliary: the last priority that was set, "none" at first
  asked,   \* auxiliary: the last affinity that was set
  held,    \* auxiliary: the priorities the thread has had since GetPriority() began
  plain,   \* auxiliary: it had the policy "OTHER" then
  due      \* auxiliary: what is left of the time to sleep

attrVars == <<policy, prio, given, held>>

getVars == <<read, got, plain>>

threadVars == <<attrVars, getVars, mask, asked, doing, req, due>>

(***************************************************************************)
(* The two tables: what SetPriority sets, and what GetPriority makes of a  *)
(* sched_priority.                                                         *)
(***************************************************************************)
Levels == <<"IDLE", "LOWEST", "LOW", "NORMAL", "HIGH", "HIGHEST", "REALTIME">>

SchedPriority ==
  [IDLE |-> 1, LOWEST |-> 15, LOW |-> 30, NORMAL |-> 50, HIGH |-> 70, HIGHEST |-> 85, REALTIME |-> 99]

Limits == <<15, 30, 50, 70, 85, 99>>

Level_OffByOne(pol, p) ==
  IF pol = "RR" THEN Levels[1 + Cardinality({i \in 1..6 : p > Limits[i]})] ELSE "NORMAL"

Level(pol, p) ==
  IF pol = "RR" THEN Levels[1 + Cardinality({i \in 1..6 : p >= Limits[i]})] ELSE "NORMAL"

GetAffinity == mask \cap 0..Bits - 1

ThreadInit ==
  /\ policy = "OTHER"
  /\ prio = 0
  /\ mask = Online
  /\ doing = "idle"
  /\ read = 0
  /\ got = "NORMAL"
  /\ req = <<0, 0>>
  /\ given = "none"
  /\ asked = Online
  /\ held = {"NORMAL"}
  /\ plain = TRUE
  /\ due = 0
-----------------------------------------------------------------------------
(***************************************************************************)
(* SetPriority(priority) keeps the policy, and throws under "OTHER", which *)
(* knows no priorities.  SetPriority(thread, priority) sets "RR" too.      *)
(***************************************************************************)
Sets(p) ==
  /\ prio' = SchedPriority[p]
  /\ given' = p
  /\ held' = held \cup {p}
  /\ UNCHANGED <<getVars, mask, asked, doing, req, due>>

SetPriority(p) == doing = "idle" /\ policy = "RR" /\ Sets(p) /\ UNCHANGED policy

SetPriorityOf(p) == policy' = "RR" /\ Sets(p)

(***************************************************************************)
(* GetPriority() makes two system calls: the priority, then the policy.    *)
(***************************************************************************)
GetPriority_Unread ==
  /\ doing = "idle"
  /\ doing' = "get"
  /\ read' = 0
  /\ held' = {Level(policy, prio)}
  /\ plain' = (policy = "OTHER")
  /\ UNCHANGED <<policy, prio, given, got, mask, asked, req, due>>

GetPriority ==
  /\ doing = "idle"
  /\ doing' = "get"
  /\ read' = prio
  /\ held' = {Level(policy, prio)}
  /\ plain' = (policy = "OTHER")
  /\ UNCHANGED <<policy, prio, given, got, mask, asked, req, due>>

GetPolicy ==
  /\ doing = "get"
  /\ doing' = "idle"
  /\ got' = Level(policy, read)
  /\ UNCHANGED <<attrVars, read, plain, mask, asked, req, due>>

(***************************************************************************)
(* SetAffinity, by the thread itself or by another one: the kernel takes   *)
(* the CPUs that exist, and refuses an affinity without any.               *)
(***************************************************************************)
SetAffinity(affinity) ==
  /\ affinity \cap Online # {}
  /\ mask' = affinity \cap Online
  /\ asked' = affinity
  /\ UNCHANGED <<attrVars, getVars, doing, req, due>>
-----------------------------------------------------------------------------
(***************************************************************************)
(* SleepFor.  A signal interrupts nanosleep(), which tells the time that   *)
(* is left; nanoseconds out of range make it fail at once.                 *)
(***************************************************************************)
Split(n) == <<n \div Second, n % Second>>

Left == req[1] * Second + req[2]

SleepFor(n) ==
  /\ doing = "idle"
  /\ n > 0
  /\ doing' = "sleep"
  /\ req' = Split(n)
  /\ due' = n
  /\ UNCHANGED <<attrVars, getVars, mask, asked>>

Interrupted_GivesUp(passed) ==
  /\ doing = "sleep"
  /\ passed < Left
  /\ doing' = "idle"
  /\ due' = due - passed
  /\ UNCHANGED <<attrVars, getVars, mask, asked, req>>

Interrupted(passed) ==
  /\ doing = "sleep"
  /\ passed < Left
  /\ req' = Split(Left - passed)
  /\ due' = due - passed
  /\ UNCHANGED <<attrVars, getVars, mask, asked, doing>>

Wakes ==
  /\ doing = "sleep"
  /\ doing' = "idle"
  /\ due' = IF req[2] < Second THEN due - Left ELSE due
  /\ UNCHANGED <<attrVars, getVars, mask, asked, req>>

ThreadNext ==
  \/ \E p \in Priorities : SetPriority(p) \/ SetPriorityOf(p)
  \/ GetPriority \/ GetPolicy
  \/ \E affinity \in SUBSET (0..Bits - 1) : SetAffinity(affinity)
  \/ \E n \in 1..MaxSleep : SleepFor(n) \/ Interrupted(n - 1)
  \/ Wakes

ThreadSpec == ThreadInit /\ [][ThreadNext]_threadVars
-----------------------------------------------------------------------------
(***************************************************************************)
(* What is set is what is read back: GetPriority(thread) gives the last    *)
(* priority that was set, although the two tables are written separately,  *)
(* and GetAffinity() the CPUs of the last affinity that exist.  (At first, *)
(* CPUs above the 64 of the bitset are not reported.)                      *)
(***************************************************************************)
AttributesReadBack ==
  /\ given # "none" => Level(policy, prio) = given
  /\ GetAffinity = asked \cap Online \cap 0..Bits - 1

(***************************************************************************)
(* GetPriority() returns a priority that the thread had during the call.   *)
(* The exception is a thread that is made real-time between the two system *)
(* calls, and may be told IDLE.                                            *)
(***************************************************************************)
PriorityWasHeld == doing # "get" => got \in held \cup (IF plain THEN {"IDLE"} ELSE {})

(***************************************************************************)
(* Signals never shorten SleepFor.                                         *)
(***************************************************************************)
SleepsOut == doing # "sleep" => due <= 0
-----------------------------------------------------------------------------
(***************************************************************************)
(* The strengthening: the attributes are those of the last call that set   *)
(* them, what GetPriority() has read still answers the question whichever  *)
(* policy it finds, and nanosleep() is asked for the time that is due.     *)
(***************************************************************************)
AttributesInv ==
  /\ IF given = "none"
     THEN policy = "OTHER" /\ prio = 0
     ELSE policy = "RR" /\ given \in DOMAIN SchedPriority /\ prio = SchedPriority[given]
  /\ mask = asked \cap Online

GettingInv ==
  doing = "get" =>
    /\ IF plain THEN read = 0 ELSE policy = "RR"
    /\ Level(policy, read) \in held \cup (IF plain THEN {"IDLE"} ELSE {})

SleepingInv ==
  IF doing = "sleep"
  THEN req[1] \in Nat /\ req[2] \in 0..(Second - 1) /\ due = Left
  ELSE due \in Int /\ due <= 0
=============================================================================
