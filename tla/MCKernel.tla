------------------------------ MODULE MCKernel ------------------------------
(***************************************************************************)
(* Small instances of Kernel.tla for TLC.                                  *)
(***************************************************************************)
EXTENDS Kernel

\* The only thread of the user programs that reads stdin is the shell; here
\* the first user thread stands for it.
MCReaders == {MAX_HARTS}
=============================================================================
