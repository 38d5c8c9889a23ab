---------------------- MODULE FunkWriteLock_cross_proofs ----------------------
(***************************************************************************)
(* Proofs about the write lock across processes (FunkWriteLock): with at  *)
(* most two processes sharing a funk workspace, any number of threads in  *)
(* each, and write_lock of any even width.                                 *)
(***************************************************************************)
EXTENDS FunkWriteLock_proofs

\* The threads inside a write section on funk f.
Sec(f) == {t \in Threads : InSection(t) /\ fk[t] = f}

\* Each process's static rwlock is held by exactly the one of its threads
\* that is in start_write, a section or end_write (aborted ones included:
\* FD_LOG_CRIT never releases it).
RwlockHeld == \A t \in Threads : (pc[t] # "idle") <=> (rwlock[ProcOf[t]] = t)

\* With no section open on f, write_lock is even: every bump by an abort
\* happens while a section is open and leaves it open.
NoSectionEven == \A f \in Funks : Sec(f) = {} => ~Odd(write_lock[f])

\* A section open on f with write_lock even means a thread of every other
\* process bumped it from odd and aborted: no other process is alive.
EvenMeansOthersDead ==
    \A f \in Funks, t \in Threads :
        t \in Sec(f) /\ ~Odd(write_lock[f]) =>
            \A q \in Procs \ {ProcOf[t]} : crit[q] # "none"

CrossInv ==
    /\ TypeOK
    /\ RwlockHeld
    /\ OneWriterPerFunk
    /\ NoSectionEven
    /\ EvenMeansOthersDead

\* The hypothesis of the theorems below: at most two processes.
AtMostTwoProcs == \E P1, P2 : Procs \subseteq {P1, P2}

\* How a step moves the sections: none opens or closes, thread u opens
\* one on f (holding none), or u closes its section on f.
SecsKept == \A g \in Funks : Sec(g)' = Sec(g)

Opens(u, f) ==
    /\ Sec(f) = {} /\ Sec(f)' = {u}
    /\ \A g \in Funks : u \notin Sec(g)
    /\ \A g \in Funks \ {f} : Sec(g)' = Sec(g)

Closes(u, f) ==
    /\ Sec(f) = {u} /\ Sec(f)' = {}
    /\ \A g \in Funks \ {f} : Sec(g)' = Sec(g)

-----------------------------------------------------------------------------
\* Two threads out of idle are of different processes: each holds its
\* process's rwlock.
LEMMA OtherProc ==
    ASSUME TypeOK, RwlockHeld, NEW t \in Threads, NEW u \in Threads, t # u,
           pc[t] # "idle", pc[u] # "idle"
    PROVE  ProcOf[t] # ProcOf[u]
BY DEF RwlockHeld

\* With at most two processes, every process other than a is b.
LEMMA TheOther ==
    ASSUME AtMostTwoProcs, NEW a \in Procs, NEW b \in Procs, a # b,
           NEW q \in Procs \ {a}
    PROVE  q = b
BY DEF AtMostTwoProcs

\* A step that opens or closes no section, leaves write_lock alone and
\* aborts no process back to life keeps the invariant.
LEMMA QuietCross ==
    ASSUME CrossInv, TypeOK', RwlockHeld',
           \A f \in Funks : Sec(f)' = Sec(f),
           write_lock' = write_lock,
           \A q \in Procs : crit[q] # "none" => crit'[q] # "none"
    PROVE  CrossInv'
<1>1. OneWriterPerFunk'
  <2> SUFFICES ASSUME NEW t1 \in Threads, NEW t2 \in Threads, t1 # t2,
                      InSection(t1)', InSection(t2)', fk'[t1] = fk'[t2]
               PROVE  FALSE
    BY DEF OneWriterPerFunk
  <2>0. PICK f \in Funks : f = fk'[t1]
    BY DEF TypeOK
  <2>1. t1 \in Sec(f)' /\ t2 \in Sec(f)'
    BY <2>0 DEF Sec
  <2>2. t1 \in Sec(f) /\ t2 \in Sec(f)
    BY <2>1
  <2>3. QED
    BY <2>2 DEF Sec, CrossInv, OneWriterPerFunk
<1>2. NoSectionEven'
  BY DEF CrossInv, NoSectionEven
<1>3. EvenMeansOthersDead'
  BY DEF CrossInv, EvenMeansOthersDead
<1>4. QED
  BY <1>1, <1>2, <1>3 DEF CrossInv

\* fd_funk_start_write takes the rwlock and enters the CAS loop: no
\* section opens yet.
LEMMA StartWriteCross ==
    ASSUME CrossInv, TypeOK', HasThreads,
           NEW u \in Threads, NEW g \in Funks, StartWrite(u, g)
    PROVE  CrossInv' /\ SecsKept
<1>1. pc' = [pc EXCEPT ![u] = "start_ld"] /\ pc[u] = "idle"
  BY DEF StartWrite
<1>2. \A f \in Funks : Sec(f)' = Sec(f)
  BY <1>1 DEF StartWrite, Sec, InSection, CrossInv, TypeOK
<1>3. RwlockHeld'
  <2> SUFFICES ASSUME NEW t \in Threads
               PROVE  (pc'[t] # "idle") <=> (rwlock'[ProcOf[t]] = t)
    BY DEF RwlockHeld
  <2>1. CASE t = u
    BY <1>1, <2>1, LockAssumption DEF StartWrite, CrossInv, TypeOK
  <2>2. CASE t # u /\ ProcOf[t] = ProcOf[u]
    <3>1. rwlock[ProcOf[t]] # t
      BY <2>2, LockAssumption DEF StartWrite
    <3>2. QED
      BY <1>1, <2>2, <3>1, LockAssumption DEF StartWrite, CrossInv, RwlockHeld, TypeOK
  <2>3. CASE ProcOf[t] # ProcOf[u]
    BY <1>1, <2>3, LockAssumption DEF StartWrite, CrossInv, RwlockHeld, TypeOK
  <2>4. QED
    BY <2>1, <2>2, <2>3
<1>4. QED
  BY <1>2, <1>3, QuietCross DEF StartWrite, SecsKept

\* The load, the retry of a failed CAS, the entry of end_write's loop and
\* fd_funk_check_write move a thread within its section or its loop, or
\* abort its process.
LEMMA LoopCross ==
    ASSUME CrossInv, TypeOK', HasThreads, NEW u \in Threads,
           LoadOld(u) \/ CasRetry(u) \/ EndWrite(u) \/ CheckWrite(u)
    PROVE  CrossInv' /\ SecsKept
<1>1. /\ UNCHANGED <<rwlock, write_lock, fk>>
      /\ \A q \in Procs : crit[q] # "none" => crit'[q] # "none"
      /\ \A t \in Threads : /\ InSection(t)' = InSection(t)
                            /\ (pc'[t] = "idle") = (pc[t] = "idle")
  <2>1. CASE LoadOld(u)
    BY <2>1 DEF LoadOld, InSection, CrossInv, TypeOK
  <2>2. CASE CasRetry(u)
    BY <2>2 DEF CasRetry, InSection, CrossInv, TypeOK
  <2>3. CASE EndWrite(u)
    BY <2>3 DEF EndWrite, InSection, CrossInv, TypeOK
  <2>4. CASE CheckWrite(u)
    BY <2>4 DEF CheckWrite, InSection, CrossInv, TypeOK
  <2>5. QED
    BY <2>1, <2>2, <2>3, <2>4
<1>2. \A f \in Funks : Sec(f)' = Sec(f)
  BY <1>1 DEF Sec
<1>3. RwlockHeld'
  BY <1>1 DEF CrossInv, RwlockHeld
<1>4. QED
  BY <1>1, <1>2, <1>3, QuietCross DEF SecsKept

\* The successful CAS of fd_funk_start_write.  From an even write_lock the
\* thread opens a section, and no other is open: a section open with an
\* even write_lock would mean every other process is dead, the thread's
\* own included.  From an odd write_lock the process aborts, and the
\* section that made it odd, of the one other process, stays open.
LEMMA StartCasCross ==
    ASSUME CrossInv, TypeOK', AtMostTwoProcs, NEW u \in Threads, StartCas(u)
    PROVE  CrossInv' /\ (SecsKept \/ \E f \in Funks : Opens(u, f))
<1> DEFINE pu == ProcOf[u]
<1>a. PICK f \in Funks : f = fk[u]
  BY DEF CrossInv, TypeOK
<1>0. /\ fk[u] = f /\ pu \in Procs /\ write_lock[f] = oldval[u]
      /\ pc[u] = "start_cas" /\ crit[pu] = "none" /\ u \notin Sec(f)
      /\ write_lock' = [write_lock EXCEPT ![f] = Bump(oldval[u])]
      /\ UNCHANGED <<rwlock, fk>>
  BY <1>a, LockAssumption DEF StartCas, Alive, CrossInv, TypeOK, Sec, InSection
<1>1. Odd(write_lock'[f]) <=> ~Odd(write_lock[f])
  BY <1>0, BumpFlipsParity DEF CrossInv, TypeOK
<1>2. \A g \in Funks \ {f} : write_lock'[g] = write_lock[g]
  BY <1>0 DEF CrossInv, TypeOK
\* Any thread in a section on f is of the other process.
<1>3. \A t \in Sec(f) : t # u /\ ProcOf[t] # pu
  BY <1>0, OtherProc DEF CrossInv, Sec, InSection
<1>4. CASE Odd(oldval[u])
  <2>1. /\ crit' = [crit EXCEPT ![pu] = "already_locked"]
        /\ pc' = pc
    BY <1>4 DEF StartCas
  <2>2. \A g \in Funks : Sec(g)' = Sec(g)
    BY <1>0, <2>1 DEF Sec, InSection
  <2>3. Sec(f) # {}
    BY <1>0, <1>4 DEF CrossInv, NoSectionEven
  <2>4. RwlockHeld' /\ OneWriterPerFunk'
    BY <1>0, <2>1 DEF CrossInv, RwlockHeld, OneWriterPerFunk, InSection
  <2>5. NoSectionEven'
    BY <1>2, <2>2, <2>3 DEF CrossInv, NoSectionEven
  <2>6. EvenMeansOthersDead'
    <3> SUFFICES ASSUME NEW g \in Funks, NEW t \in Threads, t \in Sec(g)',
                        ~Odd(write_lock'[g]), NEW q \in Procs \ {ProcOf[t]}
                 PROVE  crit'[q] # "none"
      BY DEF EvenMeansOthersDead
    <3>1. t \in Sec(g) /\ ProcOf[t] \in Procs
      BY <2>2, LockAssumption
    <3>2. CASE g = f
      <4>0. ProcOf[t] # pu
        BY <1>3, <3>1, <3>2
      <4>1. q = pu
        BY <1>0, <3>1, <4>0, TheOther
      <4>2. QED
        BY <2>1, <4>1 DEF CrossInv, TypeOK
    <3>3. CASE g # f
      <4>1. crit[q] # "none"
        BY <1>2, <3>1, <3>3 DEF CrossInv, EvenMeansOthersDead
      <4>2. QED
        BY <2>1, <4>1 DEF CrossInv, TypeOK
    <3>4. QED
      BY <3>2, <3>3
  <2>7. QED
    BY <2>2, <2>4, <2>5, <2>6 DEF CrossInv, SecsKept
<1>5. CASE ~Odd(oldval[u])
  <2>1. /\ pc' = [pc EXCEPT ![u] = "body"]
        /\ crit' = crit
    BY <1>5 DEF StartCas
  \* The heart of the matter: no section is open on f.
  <2>2. Sec(f) = {}
    <3> SUFFICES ASSUME NEW t \in Sec(f) PROVE FALSE
      OBVIOUS
    <3>1. \A q \in Procs \ {ProcOf[t]} : crit[q] # "none"
      BY <1>0, <1>5 DEF CrossInv, EvenMeansOthersDead, Sec
    <3>2. ProcOf[t] # pu
      BY <1>3
    <3>3. pu \in Procs \ {ProcOf[t]}
      BY <1>0, <3>2
    <3>4. QED
      BY <1>0, <3>1, <3>3
  <2>3. Sec(f)' = {u}
    BY <1>0, <2>1, <2>2 DEF Sec, InSection, CrossInv, TypeOK
  <2>4. \A g \in Funks \ {f} : Sec(g)' = Sec(g)
    BY <1>0, <2>1 DEF Sec, InSection, CrossInv, TypeOK
  <2>5. RwlockHeld'
    BY <1>0, <2>1 DEF CrossInv, RwlockHeld, TypeOK
  <2>6. OneWriterPerFunk'
    <3> SUFFICES ASSUME NEW t1 \in Threads, NEW t2 \in Threads, t1 # t2,
                        InSection(t1)', InSection(t2)', fk'[t1] = fk'[t2]
                 PROVE  FALSE
      BY DEF OneWriterPerFunk
    <3>1. PICK g \in Funks : g = fk'[t1]
      BY <1>0 DEF CrossInv, TypeOK
    <3>2. t1 \in Sec(g)' /\ t2 \in Sec(g)'
      BY <3>1 DEF Sec
    <3>3. CASE g = f
      <4>1. Sec(g)' = {u}
        BY <2>3, <3>3
      <4>2. QED
        BY <3>2, <4>1
    <3>4. CASE g # f
      BY <2>4, <3>2, <3>4 DEF Sec, CrossInv, OneWriterPerFunk
    <3>5. QED
      BY <3>3, <3>4
  <2>7. NoSectionEven'
    BY <1>1, <1>2, <1>5, <1>0, <2>3, <2>4 DEF CrossInv, NoSectionEven
  <2>8. EvenMeansOthersDead'
    BY <1>1, <1>2, <1>5, <1>0, <2>1, <2>4 DEF CrossInv, EvenMeansOthersDead
  <2>9. \A g \in Funks : u \notin Sec(g)
    BY <1>0 DEF Sec, InSection
  <2>10. QED
    BY <2>2, <2>3, <2>4, <2>5, <2>6, <2>7, <2>8, <2>9 DEF CrossInv, Opens
<1>6. QED
  BY <1>4, <1>5

\* The successful CAS of fd_funk_end_write.  From an odd write_lock the
\* thread closes the only section on its funk, leaving write_lock even,
\* and releases the rwlock; from an even one its process aborts with the
\* section still open and write_lock now odd.
LEMMA EndCasCross ==
    ASSUME CrossInv, TypeOK', NEW u \in Threads, EndCas(u)
    PROVE  CrossInv' /\ (SecsKept \/ \E f \in Funks : Closes(u, f))
<1> DEFINE pu == ProcOf[u]
<1>a. PICK f \in Funks : f = fk[u]
  BY DEF CrossInv, TypeOK
<1>0. /\ fk[u] = f /\ pu \in Procs /\ write_lock[f] = oldval[u]
      /\ pc[u] = "end_cas" /\ u \in Sec(f)
      /\ write_lock' = [write_lock EXCEPT ![f] = Bump(oldval[u])]
      /\ fk' = fk
  BY <1>a, LockAssumption DEF EndCas, CrossInv, TypeOK, Sec, InSection
<1>1. Odd(write_lock'[f]) <=> ~Odd(write_lock[f])
  BY <1>0, BumpFlipsParity DEF CrossInv, TypeOK
<1>2. \A g \in Funks \ {f} : write_lock'[g] = write_lock[g]
  BY <1>0 DEF CrossInv, TypeOK
<1>3. CASE Odd(oldval[u])
  <2>1. /\ pc' = [pc EXCEPT ![u] = "idle"]
        /\ rwlock' = [rwlock EXCEPT ![pu] = NoThread]
        /\ crit' = crit
    BY <1>3 DEF EndCas
  <2>2. Sec(f) = {u}
    BY <1>0 DEF CrossInv, OneWriterPerFunk, Sec
  <2>3. Sec(f)' = {}
    BY <1>0, <2>1, <2>2 DEF Sec, InSection, CrossInv, TypeOK
  <2>4. \A g \in Funks \ {f} : Sec(g)' = Sec(g)
    BY <1>0, <2>1 DEF Sec, InSection, CrossInv, TypeOK
  <2>5. RwlockHeld'
    <3> SUFFICES ASSUME NEW t \in Threads
                 PROVE  (pc'[t] # "idle") <=> (rwlock'[ProcOf[t]] = t)
      BY DEF RwlockHeld
    <3>1. CASE t = u
      BY <2>1, <3>1, LockAssumption DEF CrossInv, TypeOK
    <3>2. CASE t # u /\ ProcOf[t] = pu
      <4>1. rwlock[pu] = u /\ pc[t] = "idle"
        BY <1>0, <3>2 DEF CrossInv, RwlockHeld, TypeOK
      <4>2. QED
        BY <2>1, <3>2, <4>1, LockAssumption DEF CrossInv, TypeOK
    <3>3. CASE ProcOf[t] # pu
      BY <2>1, <3>3, LockAssumption DEF CrossInv, RwlockHeld, TypeOK
    <3>4. QED
      BY <3>1, <3>2, <3>3
  <2>6. OneWriterPerFunk'
    <3> SUFFICES ASSUME NEW t1 \in Threads, NEW t2 \in Threads, t1 # t2,
                        InSection(t1)', InSection(t2)', fk'[t1] = fk'[t2]
                 PROVE  FALSE
      BY DEF OneWriterPerFunk
    <3>1. PICK g \in Funks : g = fk'[t1]
      BY <1>0 DEF CrossInv, TypeOK
    <3>2. t1 \in Sec(g)' /\ t2 \in Sec(g)'
      BY <3>1 DEF Sec
    <3>3. CASE g = f
      <4>1. Sec(g)' = {}
        BY <2>3, <3>3
      <4>2. QED
        BY <3>2, <4>1
    <3>4. CASE g # f
      BY <2>4, <3>2, <3>4 DEF Sec, CrossInv, OneWriterPerFunk
    <3>5. QED
      BY <3>3, <3>4
  <2>7. NoSectionEven'
    BY <1>1, <1>2, <1>3, <1>0, <2>4 DEF CrossInv, NoSectionEven
  <2>8. EvenMeansOthersDead'
    BY <1>2, <2>1, <2>3, <2>4 DEF CrossInv, EvenMeansOthersDead
  <2>9. QED
    BY <2>2, <2>3, <2>4, <2>5, <2>6, <2>7, <2>8 DEF CrossInv, Closes
<1>4. CASE ~Odd(oldval[u])
  <2>1. /\ crit' = [crit EXCEPT ![pu] = "already_unlocked"]
        /\ pc' = pc /\ rwlock' = rwlock
    BY <1>4 DEF EndCas
  <2>2. \A g \in Funks : Sec(g)' = Sec(g)
    BY <1>0, <2>1 DEF Sec, InSection
  <2>3. RwlockHeld' /\ OneWriterPerFunk'
    BY <1>0, <2>1 DEF CrossInv, RwlockHeld, OneWriterPerFunk, InSection
  <2>4. NoSectionEven'
    BY <1>0, <1>1, <1>2, <1>4, <2>2 DEF CrossInv, NoSectionEven
  <2>5. \A q \in Procs : crit[q] # "none" => crit'[q] # "none"
    BY <2>1 DEF CrossInv, TypeOK
  <2>6. EvenMeansOthersDead'
    BY <1>0, <1>1, <1>2, <1>4, <2>2, <2>5 DEF CrossInv, EvenMeansOthersDead
  <2>7. QED
    BY <2>2, <2>3, <2>4, <2>6 DEF CrossInv, SecsKept
<1>5. QED
  BY <1>3, <1>4

LEMMA CrossStep ==
    ASSUME AtMostTwoProcs, HasThreads
    PROVE  CrossInv /\ [Next]_vars => CrossInv'
<1> SUFFICES ASSUME CrossInv, [Next]_vars PROVE CrossInv'
  OBVIOUS
<1>0. TypeOK'
  BY TypeStep DEF CrossInv
<1>1. ASSUME NEW u \in Threads, NEW g \in Funks, StartWrite(u, g) PROVE CrossInv'
  BY <1>0, <1>1, StartWriteCross
<1>2. ASSUME NEW u \in Threads,
             LoadOld(u) \/ CasRetry(u) \/ EndWrite(u) \/ CheckWrite(u)
      PROVE  CrossInv'
  BY <1>0, <1>2, LoopCross
<1>3. ASSUME NEW u \in Threads, StartCas(u) PROVE CrossInv'
  BY <1>0, <1>3, StartCasCross
<1>4. ASSUME NEW u \in Threads, EndCas(u) PROVE CrossInv'
  BY <1>0, <1>4, EndCasCross
<1>5. CASE UNCHANGED vars
  <2>1. \A f \in Funks : Sec(f)' = Sec(f)
    BY <1>5 DEF vars, Sec, InSection
  <2>2. RwlockHeld'
    BY <1>5 DEF vars, CrossInv, RwlockHeld
  <2>3. QED
    BY <1>0, <1>5, <2>1, <2>2, QuietCross DEF vars
<1>6. QED
  BY <1>1, <1>2, <1>3, <1>4, <1>5 DEF Next

\* Every step keeps the sections, opens one or closes one.
LEMMA SecStep ==
    ASSUME AtMostTwoProcs, HasThreads, CrossInv, [Next]_vars
    PROVE  SecsKept \/ \E u \in Threads, f \in Funks : Opens(u, f) \/ Closes(u, f)
<1>0. TypeOK'
  BY TypeStep DEF CrossInv
<1>1. ASSUME NEW u \in Threads, NEW g \in Funks, StartWrite(u, g) PROVE SecsKept
  BY <1>0, <1>1, StartWriteCross
<1>2. ASSUME NEW u \in Threads,
             LoadOld(u) \/ CasRetry(u) \/ EndWrite(u) \/ CheckWrite(u)
      PROVE  SecsKept
  BY <1>0, <1>2, LoopCross
<1>3. ASSUME NEW u \in Threads, StartCas(u)
      PROVE  SecsKept \/ \E f \in Funks : Opens(u, f)
  BY <1>0, <1>3, StartCasCross
<1>4. ASSUME NEW u \in Threads, EndCas(u)
      PROVE  SecsKept \/ \E f \in Funks : Closes(u, f)
  BY <1>0, <1>4, EndCasCross
<1>5. CASE UNCHANGED vars
  BY <1>5 DEF vars, SecsKept, Sec, InSection
<1>6. QED
  BY <1>1, <1>2, <1>3, <1>4, <1>5 DEF Next

\* The invariant that carries it (a section open with write_lock even
\* means the other process is dead) is where "two" is used: a third
\* process could open a section from that even value.
LEMMA CrossInvariant ==
    ASSUME AtMostTwoProcs, HasThreads
    PROVE  Spec => []CrossInv
<1>1. Init => CrossInv
  <2> SUFFICES ASSUME Init PROVE CrossInv
    OBVIOUS
  <2>1. TypeOK
    BY LockAssumption DEF Init, TypeOK, LockVal, Labels, Crits
  <2>2. \A f \in Funks : Sec(f) = {}
    BY DEF Init, Sec, InSection
  <2>3. QED
    BY <2>1, <2>2, LockAssumption
       DEF Init, CrossInv, RwlockHeld, OneWriterPerFunk, NoSectionEven,
           EvenMeansOthersDead, InSection, Odd
<1>2. QED
  BY <1>1, CrossStep, PTL DEF Spec

\* For any number of threads in at most two processes sharing a funk
\* workspace, in a threaded build: no two threads are ever inside a write
\* section on the same funk.  The processes' rwlocks are separate; what
\* keeps them out is the CAS on funk->write_lock, whose parity check
\* aborts the second process (fd_funk_start_write, lines 424-437).
THEOREM OneWriterTwoProcs ==
    ASSUME AtMostTwoProcs, HasThreads
    PROVE  Spec => []OneWriterPerFunk
<1>1. CrossInv => OneWriterPerFunk
  BY DEF CrossInv
<1>2. QED
  BY <1>1, CrossInvariant, PTL

-----------------------------------------------------------------------------
\* The writer SW gives a funk, in a state where at most one thread is in
\* a section on it: that thread, or NoThread.
LEMMA SWOf ==
    ASSUME NEW pcv, NEW fkv, NEW g \in Funks,
           \A a, b \in Threads :
              (pcv[a] \in SecLabels /\ fkv[a] = g /\ pcv[b] \in SecLabels /\ fkv[b] = g)
                 => a = b
    PROVE  /\ (\A a \in Threads : ~(pcv[a] \in SecLabels /\ fkv[a] = g))
                 => SW(pcv, fkv)[g] = NoThread
           /\ \A a \in Threads : (pcv[a] \in SecLabels /\ fkv[a] = g) => SW(pcv, fkv)[g] = a
BY DEF SW

\* SectionWriter names the one thread in a section on each funk, before
\* and after a step.
LEMMA Writers ==
    ASSUME CrossInv, CrossInv', NEW g \in Funks
    PROVE  /\ Sec(g) = {} => SectionWriter[g] = NoThread
           /\ \A t \in Sec(g) : SectionWriter[g] = t
           /\ Sec(g)' = {} => SectionWriter'[g] = NoThread
           /\ \A t \in Sec(g)' : SectionWriter'[g] = t
<1>1. /\ Sec(g) = {a \in Threads : pc[a] \in SecLabels /\ fk[a] = g}
      /\ Sec(g)' = {a \in Threads : pc'[a] \in SecLabels /\ fk'[a] = g}
  BY DEF Sec, InSection, SecLabels
<1>2. \A a, b \in Threads :
         (pc[a] \in SecLabels /\ fk[a] = g /\ pc[b] \in SecLabels /\ fk[b] = g) => a = b
  BY DEF CrossInv, OneWriterPerFunk, InSection, SecLabels
<1>3. \A a, b \in Threads :
         (pc'[a] \in SecLabels /\ fk'[a] = g /\ pc'[b] \in SecLabels /\ fk'[b] = g) => a = b
  BY DEF CrossInv, OneWriterPerFunk, InSection, SecLabels
<1>4. QED
  BY <1>1, <1>2, <1>3, SWOf, SWIsSectionWriter

\* A step that keeps, opens or closes sections is a stutter, an Open or a
\* Close of the write-section contract.
LEMMA RefineStep ==
    ASSUME CrossInv, CrossInv',
           SecsKept \/ \E u \in Threads, f \in Funks : Opens(u, f) \/ Closes(u, f)
    PROVE  [Section!Next]_SectionWriter
<1>0. /\ SectionWriter = [g \in Funks |-> SectionWriter[g]]
      /\ SectionWriter' = [g \in Funks |-> SectionWriter'[g]]
      /\ NoThread \notin Threads
  BY LockAssumption DEF SectionWriter
\* Where the sections of a funk are the same, so is its writer.
<1>1. ASSUME NEW g \in Funks, Sec(g)' = Sec(g) PROVE SectionWriter'[g] = SectionWriter[g]
  <2>1. CASE Sec(g) = {}
    BY <1>1, <2>1, Writers
  <2>2. CASE Sec(g) # {}
    <3>1. PICK t \in Sec(g) : TRUE
      BY <2>2
    <3>2. QED
      BY <1>1, <3>1, Writers
  <2>3. QED
    BY <2>1, <2>2
<1>2. CASE SecsKept
  <2>1. SectionWriter' = SectionWriter
    BY <1>0, <1>1, <1>2 DEF SecsKept
  <2>2. QED
    BY <2>1
<1>3. ASSUME NEW u \in Threads, NEW f \in Funks, Opens(u, f)
      PROVE  Section!Open(u, f)
  <2>1. SectionWriter[f] = NoThread /\ SectionWriter'[f] = u
    BY <1>3, Writers DEF Opens
  <2>2. \A g \in Funks : SectionWriter[g] # u
    <3> SUFFICES ASSUME NEW g \in Funks PROVE SectionWriter[g] # u
      OBVIOUS
    <3>1. CASE Sec(g) = {}
      BY <1>0, <3>1, Writers
    <3>2. CASE Sec(g) # {}
      <4>1. PICK t \in Sec(g) : TRUE
        BY <3>2
      <4>2. t # u
        BY <1>3, <4>1 DEF Opens
      <4>3. QED
        BY <4>1, <4>2, Writers
    <3>3. QED
      BY <3>1, <3>2
  <2>3. \A g \in Funks \ {f} : SectionWriter'[g] = SectionWriter[g]
    BY <1>1, <1>3 DEF Opens
  <2>4. SectionWriter' = [SectionWriter EXCEPT ![f] = u]
    BY <1>0, <2>1, <2>3
  <2>5. QED
    BY <2>1, <2>2, <2>4 DEF Section!Open
<1>4. ASSUME NEW u \in Threads, NEW f \in Funks, Closes(u, f)
      PROVE  Section!Close(u, f)
  <2>1. SectionWriter[f] = u /\ SectionWriter'[f] = NoThread
    BY <1>4, Writers DEF Closes
  <2>2. \A g \in Funks \ {f} : SectionWriter'[g] = SectionWriter[g]
    BY <1>1, <1>4 DEF Closes
  <2>3. SectionWriter' = [SectionWriter EXCEPT ![f] = NoThread]
    BY <1>0, <2>1, <2>2
  <2>4. QED
    BY <2>1, <2>3 DEF Section!Close
<1>5. QED
  BY <1>2, <1>3, <1>4 DEF Section!Next

\* For any number of threads in at most two processes, in a threaded
\* build, fd_funk_start_write and fd_funk_end_write implement the
\* write-section contract FunkWriteSection: the successful CAS of
\* start_write opens a section on a funk with none open, the successful
\* CAS of end_write closes the caller's own, every other step (the
\* aborting CASes included) leaves the sections alone.
THEOREM TwoProcsRefinement ==
    ASSUME AtMostTwoProcs, HasThreads
    PROVE  Spec => ImplementsWriteSection
<1>1. Init => Section!Init
  <2> SUFFICES ASSUME Init PROVE SW(pc, fk) = [f \in Funks |-> NoThread]
    BY SWIsSectionWriter DEF Section!Init
  <2>1. \A t \in Threads : pc[t] \notin SecLabels
    BY DEF Init, SecLabels
  <2>2. QED
    BY <2>1, SWNone
<1>2. CrossInv /\ CrossInv' /\ [Next]_vars => [Section!Next]_SectionWriter
  BY SecStep, RefineStep
<1>3. QED
  BY <1>1, <1>2, CrossInvariant, PTL DEF Spec, ImplementsWriteSection, Section!Spec

=============================================================================
