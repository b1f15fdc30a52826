------------------------------ MODULE MCShell ------------------------------
(***************************************************************************)
(* Small instances of Shell.tla for the two runs in which what a comment   *)
(* of the user programs says fails.  What holds is checked by MCMachine.   *)
(***************************************************************************)
EXTENDS Shell

\* mon start without a count, and with the least ones.
MCCounts == {-1, 0, 1}
=============================================================================
