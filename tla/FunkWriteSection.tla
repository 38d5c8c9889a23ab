------------------------- MODULE FunkWriteSection --------------------------
(***************************************************************************)
(* What the funk write lock promises its callers: a write section on a    *)
(* funk opens only while no other section is open on it, and is closed by *)
(* the thread that opened it.  A thread holds at most one section.  This   *)
(* is the contract of fd_funk_start_write / fd_funk_end_write, stated      *)
(* without the locks that implement it.                                    *)
(***************************************************************************)
CONSTANTS
    Threads,  \* threads that write funks
    Funks,    \* funk instances
    NoThread  \* no section open

VARIABLE writer  \* writer[f]: the thread with a write section open on f

Init == writer = [f \in Funks |-> NoThread]

\* fd_funk_start_write(f) returns to thread t.
Open(t, f) ==
    /\ writer[f] = NoThread
    /\ \A g \in Funks : writer[g] # t
    /\ writer' = [writer EXCEPT ![f] = t]

\* fd_funk_end_write(f) returns to thread t.
Close(t, f) ==
    /\ writer[f] = t
    /\ writer' = [writer EXCEPT ![f] = NoThread]

Next == \E t \in Threads, f \in Funks : Open(t, f) \/ Close(t, f)

Spec == Init /\ [][Next]_writer

=============================================================================
