-------------------------- MODULE MCTimedOperation --------------------------
(***************************************************************************)
(* Instances of TimedOperation for TLC.                                    *)
(***************************************************************************)
EXTENDS TimedOperation

CONSTANTS t1, t2

OneThread == {t1}
TwoThreads == {t1, t2}

OneOrTwo == {1, 2}
=============================================================================
