---------------------------- MODULE MCUDPServer -----------------------------
(***************************************************************************)
(* Instances of UDPServer for TLC.  Sizes are small numbers: a buffer of 2 *)
(* units, datagrams that are smaller, fill it or are cut.                  *)
(***************************************************************************)
EXTENDS UDPServer

CONSTANTS t1, t2

OneThread == {t1}
TwoThreads == {t1, t2}

Lifecycle == {"Start", "Stop", "Restart"}
MainLoop == {"Start", "Restart", "Multicast"}
EveryCall == {"Start", "Stop", "Restart", "Multicast", "SendAsync"}

Small == {1}
Filling == {1, 2, 4, 8}
TwoSizes == {1, 2}
=============================================================================
