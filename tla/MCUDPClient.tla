---------------------------- MODULE MCUDPClient -----------------------------
(***************************************************************************)
(* Instances of UDPClient for TLC.                                         *)
(***************************************************************************)
EXTENDS UDPClient, TLC

CONSTANTS t1, t2

OneThread == {t1}
TwoThreads == {t1, t2}

Symmetry == Permutations(TwoThreads)

MainLoop == {"Connect", "Reconnect", "Stop"}
NeverStops == {"Connect", "Reconnect"}
EveryCall == {"Connect", "Resolve", "Reconnect", "Stop"}

Small == {1}
FillingTwo == {2, 4}
=============================================================================
