-------------------------- MODULE ExceptionsHandler -------------------------
(***************************************************************************)
(* ExceptionsHandler (source/server/errors/exceptions_handler.cpp):        *)
(* SetupProcess installs SignalHandler for a list of signals, whose        *)
(* default action is to end the process.  SignalHandler reports the        *)
(* signal, restores the default action and raises the signal again.        *)
(*                                                                         *)
(* A signal is blocked on the thread that handles it, so the raised one    *)
(* acts when the handler returns.  Other threads, and other signals on the *)
(* same thread, may interrupt at any step.                                 *)
(***************************************************************************)
EXTENDS Integers, Sequences

CONSTANTS
  Threads,
  Signals,      \* the signals in the order of the list
  MayFail,      \* whether sigaction() may fail
  MaxArrivals   \* bound on the signals that arrive

ASSUME SignalsAssumption ==
  /\ Len(Signals) \in Nat /\ DOMAIN Signals = 1..Len(Signals)
  /\ \A i \in DOMAIN Signals : Signals[i] \notin {"no", "SIGKILL"}
  /\ \A i, j \in DOMAIN Signals : Signals[i] = Signals[j] => i = j
  /\ MayFail \in BOOLEAN
  /\ MaxArrivals \in Nat

VARIABLES
  initialized,  \* _initialized
  setup,        \* how many signals the call of SetupProcess in progress has done; -1 for none
  caught,       \* signals with SignalHandler as their action; the others have the default
  frames,       \* the SignalHandler calls on each thread, the innermost first
  raised,       \* the signals each thread has raised and blocks
  reported,     \* auxiliary: signals for which _handler has been called
  died,         \* "no", or what ended the process
  arrivals

setupVars == <<initialized, setup>>

vars == <<setupVars, caught, frames, raised, reported, died, arrivals>>

AllSignals == {Signals[i] : i \in DOMAIN Signals}

TypeOK ==
  /\ initialized \in BOOLEAN
  /\ setup \in -1..Len(Signals)
  /\ caught \subseteq AllSignals
  /\ frames \in [Threads -> Seq([sig : AllSignals, at : {"report", "reset", "raise", "return"}])]
  /\ raised \in [Threads -> SUBSET AllSignals]
  /\ reported \subseteq AllSignals
  /\ died \in AllSignals \cup {"no", "SIGKILL"}
  /\ arrivals \in 0..MaxArrivals

Init ==
  /\ initialized = FALSE
  /\ setup = -1
  /\ caught = {}
  /\ frames = [t \in Threads |-> <<>>]
  /\ raised = [t \in Threads |-> {}]
  /\ reported = {}
  /\ died = "no"
  /\ arrivals = 0
-----------------------------------------------------------------------------
(***************************************************************************)
(* SetupProcess, called by a thread other than those of the model.  An     *)
(* exception leaves the signals done so far installed.                     *)
(***************************************************************************)
SetupProcess ==
  /\ died = "no"
  /\ setup = -1
  /\ ~initialized
  /\ setup' = 0
  /\ UNCHANGED <<initialized, caught, frames, raised, reported, died, arrivals>>

SetupSignal ==
  /\ died = "no"
  /\ setup >= 0 /\ setup < Len(Signals)
  /\ \/ setup' = setup + 1 /\ caught' = caught \cup {Signals[setup + 1]}
     \/ MayFail /\ setup' = -1 /\ UNCHANGED caught
  /\ UNCHANGED <<initialized, frames, raised, reported, died, arrivals>>

SetupDone_Early ==
  /\ died = "no"
  /\ setup >= Len(Signals) - 1
  /\ initialized' = TRUE
  /\ setup' = -1
  /\ UNCHANGED <<caught, frames, raised, reported, died, arrivals>>

SetupDone ==
  /\ died = "no"
  /\ setup = Len(Signals)
  /\ initialized' = TRUE
  /\ setup' = -1
  /\ UNCHANGED <<caught, frames, raised, reported, died, arrivals>>
-----------------------------------------------------------------------------
(***************************************************************************)
(* The operating system delivers signal s to thread t, whose handler calls *)
(* are fs.                                                                 *)
(***************************************************************************)
Delivers(t, s, fs) ==
  IF s \in caught
  THEN /\ frames' = [frames EXCEPT ![t] = <<[sig |-> s, at |-> "report"]>> \o fs]
       /\ UNCHANGED died
  ELSE /\ died' = s
       /\ UNCHANGED frames

Blocked(t, s) == \E i \in 1..Len(frames[t]) : frames[t][i].sig = s

SignalArrives(t, s) ==
  /\ died = "no"
  /\ arrivals < MaxArrivals
  /\ ~Blocked(t, s)
  /\ arrivals' = arrivals + 1
  /\ Delivers(t, s, frames[t])
  /\ UNCHANGED <<setupVars, caught, raised, reported>>

(***************************************************************************)
(* SignalHandler: _handler, sigaction(SIG_DFL), raise (or SIGKILL when the *)
(* former fails), and the return that unblocks the signal.                 *)
(***************************************************************************)
At(t, a) == died = "no" /\ frames[t] # <<>> /\ Head(frames[t]).at = a

Advance(t, a) == frames' = [frames EXCEPT ![t][1].at = a]

Report(t) ==
  /\ At(t, "report")
  /\ reported' = reported \cup {Head(frames[t]).sig}
  /\ Advance(t, "reset")
  /\ UNCHANGED <<setupVars, caught, raised, died, arrivals>>

Reset(t) ==
  /\ At(t, "reset")
  /\ \/ /\ caught' = caught \ {Head(frames[t]).sig}
        /\ Advance(t, "raise")
        /\ UNCHANGED died
     \/ MayFail /\ died' = "SIGKILL" /\ UNCHANGED <<caught, frames>>
  /\ UNCHANGED <<setupVars, raised, reported, arrivals>>

Raise_Dropped(t) ==
  /\ At(t, "raise")
  /\ Advance(t, "return")
  /\ UNCHANGED <<setupVars, caught, raised, reported, died, arrivals>>

Raise(t) ==
  /\ At(t, "raise")
  /\ raised' = [raised EXCEPT ![t] = @ \cup {Head(frames[t]).sig}]
  /\ Advance(t, "return")
  /\ UNCHANGED <<setupVars, caught, reported, died, arrivals>>

Return(t) ==
  /\ At(t, "return")
  /\ LET s == Head(frames[t]).sig
     IN  /\ raised' = [raised EXCEPT ![t] = @ \ {s}]
         /\ IF s \in raised[t]
            THEN Delivers(t, s, Tail(frames[t]))
            ELSE frames' = [frames EXCEPT ![t] = Tail(@)] /\ UNCHANGED died
  /\ UNCHANGED <<setupVars, caught, reported, arrivals>>

HandlerStep(t) == Report(t) \/ Reset(t) \/ Raise(t) \/ Return(t)

Next ==
  \/ SetupProcess \/ SetupSignal \/ SetupDone
  \/ \E t \in Threads : HandlerStep(t) \/ \E s \in AllSignals : SignalArrives(t, s)

Spec == Init /\ [][Next]_vars

(***************************************************************************)
(* Fairness: a thread inside the handler goes on.                          *)
(***************************************************************************)
FairSpec == Spec /\ \A t \in Threads : WF_vars(HandlerStep(t))
-----------------------------------------------------------------------------
(***************************************************************************)
(* Once SetupProcess has returned, the process does not end by one of the  *)
(* signals before SignalHandler has reported that signal.                  *)
(***************************************************************************)
DeathReported == initialized /\ died \in AllSignals => died \in reported

(***************************************************************************)
(* A signal that has been caught ends the process: SignalHandler's reset   *)
(* and raise never swallow it.  The exception is a SetupProcess that fails *)
(* and is called again for ever, and each time installs the handler anew.  *)
(***************************************************************************)
CaughtIsFatal ==
  <>[](setup = -1) => ((\E t \in Threads : frames[t] # <<>>) ~> died # "no")
-----------------------------------------------------------------------------
(***************************************************************************)
(* The strengthening of DeathReported: SignalHandler reports before it     *)
(* restores the default action, and what SetupProcess has done so far has  *)
(* been undone only in that way.                                           *)
(***************************************************************************)
Undone == AllSignals \ (caught \cup reported)

ReportedInv ==
  /\ \A t \in Threads : \A i \in 1..Len(frames[t]) : frames[t][i].at # "report" => frames[t][i].sig \in reported
  /\ \A i \in 1..setup : Signals[i] \notin Undone
  /\ initialized => Undone = {}
  /\ DeathReported
=============================================================================
