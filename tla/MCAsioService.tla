--------------------------- MODULE MCAsioService ----------------------------
(***************************************************************************)
(* Instances of AsioService for TLC.                                       *)
(***************************************************************************)
EXTENDS AsioService

RunOnly == {FALSE}
RunOrPoll == {FALSE, TRUE}
=============================================================================
