-------------------------- MODULE MC_FunkWriteLock --------------------------
(***************************************************************************)
(* Model-checking instance of FunkWriteLock.                               *)
(***************************************************************************)
EXTENDS FunkWriteLock, TLC

CONSTANTS p1, p2, p3, t1, t2, t3, f1, f2

\* Three threads of one process.
OneProc == [t \in Threads |-> p1]

\* One thread in each of two processes.
TwoProcs == (t1 :> p1) @@ (t2 :> p2)

\* Two threads of one process and one of another.
TwoProcsThree == (t1 :> p1) @@ (t2 :> p2) @@ (t3 :> p1)

\* One thread in each of three processes.
ThreeProcs == (t1 :> p1) @@ (t2 :> p2) @@ (t3 :> p3)

=============================================================================
