--------------------------- MODULE FunkWriteLock ---------------------------
(***************************************************************************)
(* The write lock of the funk record store (fd_funk.c, fd_funk_start_write *)
(* / fd_funk_end_write / fd_funk_check_write).                             *)
(*                                                                         *)
(* Two locks guard a write section.  The static fd_rwlock_t `lock` is one  *)
(* per process (a file-scope static) and is shared by every funk instance  *)
(* the process has joined.  funk->write_lock lives in the funk's shared   *)
(* workspace, so threads of every process that joined the funk see it;   *)
(* it is an even/odd counter bumped by a compare-and-swap loop on entry   *)
(* and on exit, odd while a section is open.  An unexpected parity makes  *)
(* FD_LOG_CRIT abort the calling process.                                  *)
(*                                                                         *)
(* The CAS loop is split into its load of write_lock and its CAS, since   *)
(* another process's thread may change write_lock between the two.        *)
(* fd_rwlock_write is one atomic acquire: it spins until the lock is free. *)
(***************************************************************************)
EXTENDS Naturals

CONSTANTS
    Procs,      \* processes that joined the funk workspace
    Threads,    \* threads, each of one process
    ProcOf,     \* ProcOf[t]: the process of thread t
    Funks,      \* funk instances in the shared workspace
    NoThread,   \* the free value of the per-process rwlock
    HasThreads, \* FD_HAS_THREADS: the build compiles the CAS loops in
    LockMod     \* 2^64 in the code: write_lock is a ulong and wraps

ASSUME LockAssumption ==
    /\ ProcOf \in [Threads -> Procs]
    /\ NoThread \notin Threads
    /\ HasThreads \in BOOLEAN
    /\ LockMod \in Nat \ {0}
    /\ LockMod % 2 = 0

\* Where a thread is inside start_write / end_write.
\*   idle       no write section
\*   start_ld   in start_write's CAS loop, about to load write_lock
\*   start_cas  about to CAS write_lock from oldval to oldval+1
\*   body       between start_write and end_write
\*   end_ld     in end_write's CAS loop, about to load write_lock
\*   end_cas    about to CAS write_lock from oldval to oldval+1
Labels == {"idle", "start_ld", "start_cas", "body", "end_ld", "end_cas"}

\* FD_LOG_CRIT messages; a process that logged one has aborted.
Crits == {"none", "already_locked", "already_unlocked", "missing_start"}

VARIABLES
    rwlock,     \* rwlock[p]: the writer holding process p's static lock
    write_lock, \* write_lock[f]: funk->write_lock
    pc,         \* pc[t]: where thread t is
    fk,         \* fk[t]: the funk thread t's current section is on
    oldval,     \* oldval[t]: the register oldval of the CAS loop
    crit        \* crit[p]: the FD_LOG_CRIT that aborted process p

vars == <<rwlock, write_lock, pc, fk, oldval, crit>>

LockVal == 0 .. LockMod - 1

TypeOK ==
    /\ rwlock \in [Procs -> Threads \cup {NoThread}]
    /\ write_lock \in [Funks -> LockVal]
    /\ pc \in [Threads -> Labels]
    /\ fk \in [Threads -> Funks]
    /\ oldval \in [Threads -> LockVal]
    /\ crit \in [Procs -> Crits]

\* fd_funk_new sets write_lock to 0 (line 154); the static lock is zeroed.
Init ==
    /\ rwlock = [p \in Procs |-> NoThread]
    /\ write_lock = [f \in Funks |-> 0]
    /\ pc = [t \in Threads |-> "idle"]
    /\ fk \in [Threads -> Funks]
    /\ oldval = [t \in Threads |-> 0]
    /\ crit = [p \in Procs |-> "none"]

\* A thread runs only while its process is alive.
Alive(t) == crit[ProcOf[t]] = "none"

Odd(n) == n % 2 = 1

Bump(n) == (n + 1) % LockMod

-----------------------------------------------------------------------------
\* Mutant of StartWrite: the process's rwlock is not taken.
StartWriteNoLock(t, f) ==
    /\ Alive(t)
    /\ pc[t] = "idle"
    /\ fk' = [fk EXCEPT ![t] = f]
    /\ pc' = [pc EXCEPT ![t] = IF HasThreads THEN "start_ld" ELSE "body"]
    /\ UNCHANGED <<rwlock, write_lock, oldval, crit>>

\* fd_funk_start_write(f): take the process's rwlock (fd_rwlock_write
\* spins until it is free), then, with threads, enter the CAS loop.
StartWrite(t, f) ==
    /\ Alive(t)
    /\ pc[t] = "idle"
    /\ rwlock[ProcOf[t]] = NoThread
    /\ rwlock' = [rwlock EXCEPT ![ProcOf[t]] = t]
    /\ fk' = [fk EXCEPT ![t] = f]
    /\ pc' = [pc EXCEPT ![t] = IF HasThreads THEN "start_ld" ELSE "body"]
    /\ UNCHANGED <<write_lock, oldval, crit>>

\* oldval = funk->write_lock, in either CAS loop.
LoadOld(t) ==
    /\ Alive(t)
    /\ pc[t] \in {"start_ld", "end_ld"}
    /\ oldval' = [oldval EXCEPT ![t] = write_lock[fk[t]]]
    /\ pc' = [pc EXCEPT ![t] = IF pc[t] = "start_ld" THEN "start_cas" ELSE "end_cas"]
    /\ UNCHANGED <<rwlock, write_lock, fk, crit>>

\* Mutant of CasRetry: the loop retries the CAS without reloading oldval.
CasRetryStale(t) ==
    /\ Alive(t)
    /\ pc[t] \in {"start_cas", "end_cas"}
    /\ write_lock[fk[t]] # oldval[t]
    /\ UNCHANGED vars

\* The CAS found write_lock changed since the load: FD_SPIN_PAUSE, retry.
CasRetry(t) ==
    /\ Alive(t)
    /\ pc[t] \in {"start_cas", "end_cas"}
    /\ write_lock[fk[t]] # oldval[t]
    /\ pc' = [pc EXCEPT ![t] = IF pc[t] = "start_cas" THEN "start_ld" ELSE "end_ld"]
    /\ UNCHANGED <<rwlock, write_lock, fk, oldval, crit>>

\* Mutant of StartCas: a plain store of oldval+1 in place of the CAS.
StartCasBlind(t) ==
    /\ Alive(t)
    /\ pc[t] = "start_cas"
    /\ write_lock' = [write_lock EXCEPT ![fk[t]] = Bump(oldval[t])]
    /\ IF Odd(oldval[t])
         THEN /\ crit' = [crit EXCEPT ![ProcOf[t]] = "already_locked"]
              /\ UNCHANGED pc
         ELSE /\ pc' = [pc EXCEPT ![t] = "body"]
              /\ UNCHANGED crit
    /\ UNCHANGED <<rwlock, fk, oldval>>

\* The CAS of start_write succeeds; an odd oldval means some writer holds
\* the funk and the process aborts (lines 435-437).
StartCas(t) ==
    /\ Alive(t)
    /\ pc[t] = "start_cas"
    /\ write_lock[fk[t]] = oldval[t]
    /\ write_lock' = [write_lock EXCEPT ![fk[t]] = Bump(oldval[t])]
    /\ IF Odd(oldval[t])
         THEN /\ crit' = [crit EXCEPT ![ProcOf[t]] = "already_locked"]
              /\ UNCHANGED pc
         ELSE /\ pc' = [pc EXCEPT ![t] = "body"]
              /\ UNCHANGED crit
    /\ UNCHANGED <<rwlock, fk, oldval>>

\* Mutant of EndWrite: fd_rwlock_unwrite moved before the CAS loop.
EndWriteEarlyUnlock(t) ==
    /\ Alive(t)
    /\ pc[t] = "body"
    /\ pc' = [pc EXCEPT ![t] = IF HasThreads THEN "end_ld" ELSE "idle"]
    /\ rwlock' = [rwlock EXCEPT ![ProcOf[t]] = NoThread]
    /\ UNCHANGED <<write_lock, fk, oldval, crit>>

\* fd_funk_end_write without threads: only the rwlock is released.
\* With threads, enter the CAS loop.
EndWrite(t) ==
    /\ Alive(t)
    /\ pc[t] = "body"
    /\ IF HasThreads
         THEN /\ pc' = [pc EXCEPT ![t] = "end_ld"]
              /\ UNCHANGED rwlock
         ELSE /\ pc' = [pc EXCEPT ![t] = "idle"]
              /\ rwlock' = [rwlock EXCEPT ![ProcOf[t]] = NoThread]
    /\ UNCHANGED <<write_lock, fk, oldval, crit>>

\* The CAS of end_write succeeds; an even oldval aborts (lines 454-456);
\* otherwise fd_rwlock_unwrite releases the process's lock (line 463).
EndCas(t) ==
    /\ Alive(t)
    /\ pc[t] = "end_cas"
    /\ write_lock[fk[t]] = oldval[t]
    /\ write_lock' = [write_lock EXCEPT ![fk[t]] = Bump(oldval[t])]
    /\ IF Odd(oldval[t])
         THEN /\ pc' = [pc EXCEPT ![t] = "idle"]
              /\ rwlock' = [rwlock EXCEPT ![ProcOf[t]] = NoThread]
              /\ UNCHANGED crit
         ELSE /\ crit' = [crit EXCEPT ![ProcOf[t]] = "already_unlocked"]
              /\ UNCHANGED <<pc, rwlock>>
    /\ UNCHANGED <<fk, oldval>>

\* fd_funk_check_write, called by a writer inside its section: it aborts
\* when write_lock is even (line 469) and otherwise changes nothing.
CheckWrite(t) ==
    /\ Alive(t)
    /\ pc[t] = "body"
    /\ ~Odd(write_lock[fk[t]])
    /\ crit' = [crit EXCEPT ![ProcOf[t]] = "missing_start"]
    /\ UNCHANGED <<rwlock, write_lock, pc, fk, oldval>>

Next ==
    \E t \in Threads :
        \/ \E f \in Funks : StartWrite(t, f)
        \/ LoadOld(t)
        \/ CasRetry(t)
        \/ StartCas(t)
        \/ EndWrite(t)
        \/ EndCas(t)
        \/ CheckWrite(t)

\* The steps of a thread inside a CAS loop.  The OS keeps scheduling a
\* spinning thread, so each loop step that stays enabled is taken.
Spin(t) == LoadOld(t) \/ CasRetry(t) \/ StartCas(t) \/ EndCas(t)

Spec == Init /\ [][Next]_vars /\ \A t \in Threads : WF_vars(Spin(t))

-----------------------------------------------------------------------------
\* Threads between a successful start CAS and a successful end CAS.
InSection(t) == pc[t] \in {"body", "end_ld", "end_cas"}

\* Within one process, start_write / end_write never hit a FD_LOG_CRIT:
\* the static rwlock keeps a second thread out of the CAS loops while a
\* section is open, so neither parity check nor check_write fires.
NoCrit == \A p \in Procs : crit[p] = "none"

\* The two locks agree within one process: the holder of the rwlock is
\* exactly the thread in a write section or its CAS loops, and a funk's
\* write_lock is odd exactly when a thread is inside a section on it.
WriterAgreement ==
    /\ \A t \in Threads : (pc[t] # "idle") <=> (rwlock[ProcOf[t]] = t)
    /\ \A f \in Funks :
          Odd(write_lock[f]) <=> \E t \in Threads : InSection(t) /\ fk[t] = f

\* Across processes, whose rwlocks are separate, the CAS on the shared
\* write_lock alone keeps two threads from being inside a section on the
\* same funk at once: the second one's CAS sees an odd value and aborts.
OneWriterPerFunk ==
    \A t1, t2 \in Threads :
        (t1 # t2 /\ InSection(t1) /\ InSection(t2)) => fk[t1] # fk[t2]

\* The thread with a section open on f, or NoThread: the refinement
\* mapping onto FunkWriteSection.  A section opens at the successful CAS
\* of start_write and closes at the successful CAS of end_write.
SectionWriter ==
    [f \in Funks |->
        IF \E t \in Threads : InSection(t) /\ fk[t] = f
          THEN CHOOSE t \in Threads : InSection(t) /\ fk[t] = f
          ELSE NoThread]

Section == INSTANCE FunkWriteSection WITH writer <- SectionWriter

\* fd_funk_start_write / fd_funk_end_write implement the write-section
\* contract: every step opens a section on a funk with none open, closes
\* the caller's own section, or leaves the sections alone.
ImplementsWriteSection == Section!Spec

InLoop(t) == pc[t] \in {"start_ld", "start_cas", "end_ld", "end_cas"}

\* The CAS loops of start_write and end_write are lock-free: a thread
\* spins in one only while other threads keep changing write_lock.  If
\* the word keeps a value, the thread leaves its loop (or its process
\* aborts).  A thread can still starve while another keeps writing.
CasLoopLockFree ==
    \A t \in Threads, v \in LockVal :
        (InLoop(t) /\ write_lock[fk[t]] = v)
            ~> (~InLoop(t) \/ ~Alive(t) \/ write_lock[fk[t]] # v)

=============================================================================
