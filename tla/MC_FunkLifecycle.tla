-------------------------- MODULE MC_FunkLifecycle --------------------------
(***************************************************************************)
(* Model-checking instance of FunkLifecycle.                               *)
(***************************************************************************)
EXTENDS FunkLifecycle, TLC

CONSTANTS j1, j2, j3, f1, f2

\* Every failure point of fd_funk_new but the fd_alloc_new one.
CleanFailPoints == StepSet \ {"alloc_new"}

=============================================================================
