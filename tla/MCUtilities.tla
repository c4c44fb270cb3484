---------------------------- MODULE MCUtilities -----------------------------
(***************************************************************************)
(* Four small components that do not interact, for one run of TLC: in each *)
(* behaviour one of them takes steps and the others rest.                  *)
(***************************************************************************)
EXTENDS ExceptionsHandler, HandlerStorage, ThreadControl, UuidText

CONSTANTS t1, t2, o1, o2, o3, o4

TwoThreads == {t1, t2}

TwoSignals == <<"SIGINT", "SIGTERM">>

FourOps == {o1, o2, o3, o4}

ThreeCpus == 0..2

AtLimits == {"IDLE", "LOWEST", "HIGHEST", "REALTIME"}

HexDigits ==
  [c \in {"0", "9", "a", "F"} |-> CASE c = "0" -> 0 [] c = "9" -> 9 [] c = "a" -> 10 [] c = "F" -> 15]

VARIABLE unit  \* the component that takes steps

UtilitiesInit ==
  /\ Init /\ StorageInit /\ ThreadInit /\ UuidInit
  /\ unit \in {"signals", "storage", "thread", "uuid"}

UtilitiesNext ==
  \/ unit = "signals" /\ Next /\ UNCHANGED <<unit, storageVars, threadVars, uuidVars>>
  \/ unit = "storage" /\ StorageNext /\ UNCHANGED <<unit, vars, threadVars, uuidVars>>
  \/ unit = "thread" /\ ThreadNext /\ UNCHANGED <<unit, vars, storageVars, uuidVars>>
  \/ unit = "uuid" /\ UuidNext /\ UNCHANGED <<unit, vars, storageVars, threadVars>>

UtilitiesSpec ==
  /\ UtilitiesInit
  /\ [][UtilitiesNext]_<<unit, vars, storageVars, threadVars, uuidVars>>
  /\ \A t \in Threads : WF_vars(HandlerStep(t))
=============================================================================
