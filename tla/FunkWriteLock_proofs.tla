------------------------ MODULE FunkWriteLock_proofs ------------------------
(***************************************************************************)
(* Proofs about the funk write lock (FunkWriteLock) for every value of the *)
(* constants.                                                              *)
(***************************************************************************)
EXTENDS FunkWriteLock, TLAPS

\* The CAS bump of write_lock flips its parity: write_lock is a counter
\* modulo an even width, so wrapping from LockMod-1 to 0 goes odd to even.
LEMMA BumpFlipsParity ==
    ASSUME NEW n \in LockVal
    PROVE  /\ Bump(n) \in LockVal
           /\ Odd(Bump(n)) <=> ~Odd(n)
<1>1. CASE n + 1 < LockMod
  <2>1. Bump(n) = n + 1
    BY <1>1, LockAssumption DEF Bump, LockVal
  <2>2. QED
    BY <1>1, <2>1, LockAssumption DEF LockVal, Odd
<1>2. CASE n + 1 = LockMod
  <2>1. Bump(n) = 0
    BY <1>2, LockAssumption DEF Bump, LockVal
  <2>2. Odd(n)
    BY <1>2, LockAssumption DEF LockVal, Odd
  <2>3. QED
    BY <1>2, <2>1, <2>2, LockAssumption DEF LockVal, Odd
<1>3. QED
  BY <1>1, <1>2, LockAssumption DEF LockVal

-----------------------------------------------------------------------------
LEMMA TypeStep == TypeOK /\ [Next]_vars => TypeOK'
<1> SUFFICES ASSUME TypeOK, [Next]_vars PROVE TypeOK'
  OBVIOUS
<1>1. ASSUME NEW t \in Threads, NEW f \in Funks, StartWrite(t, f)
      PROVE  TypeOK'
  BY <1>1, LockAssumption DEF StartWrite, TypeOK, Labels
<1>2. ASSUME NEW t \in Threads, LoadOld(t) PROVE TypeOK'
  BY <1>2 DEF LoadOld, TypeOK, Labels
<1>3. ASSUME NEW t \in Threads, CasRetry(t) PROVE TypeOK'
  BY <1>3 DEF CasRetry, TypeOK, Labels
<1>4. ASSUME NEW t \in Threads, StartCas(t) PROVE TypeOK'
  <2>1. Bump(oldval[t]) \in LockVal
    BY BumpFlipsParity DEF TypeOK
  <2>2. QED
    BY <1>4, <2>1, LockAssumption DEF StartCas, TypeOK, Labels, Crits
<1>5. ASSUME NEW t \in Threads, EndWrite(t) PROVE TypeOK'
  BY <1>5, LockAssumption DEF EndWrite, TypeOK, Labels
<1>6. ASSUME NEW t \in Threads, EndCas(t) PROVE TypeOK'
  <2>1. Bump(oldval[t]) \in LockVal
    BY BumpFlipsParity DEF TypeOK
  <2>2. QED
    BY <1>6, <2>1, LockAssumption DEF EndCas, TypeOK, Labels, Crits
<1>7. ASSUME NEW t \in Threads, CheckWrite(t) PROVE TypeOK'
  BY <1>7 DEF CheckWrite, TypeOK, Crits
<1>8. CASE UNCHANGED vars
  BY <1>8 DEF vars, TypeOK
<1>9. QED
  BY <1>1, <1>2, <1>3, <1>4, <1>5, <1>6, <1>7, <1>8 DEF Next

\* Every step keeps each variable in its type: in particular write_lock
\* stays a counter modulo LockMod through the CAS loops of
\* fd_funk_start_write and fd_funk_end_write, and rwlock names a thread or
\* is free.
THEOREM TypeCorrect == Spec => []TypeOK
<1>1. Init => TypeOK
  BY LockAssumption DEF Init, TypeOK, LockVal, Labels, Crits
<1>2. QED
  BY <1>1, TypeStep, PTL DEF Spec

-----------------------------------------------------------------------------
(***************************************************************************)
(* One process, threaded build.  NoCrit /\ WriterAgreement is not         *)
(* inductive by itself: a thread about to CAS must hold in oldval the      *)
(* current write_lock, since in one process nobody else changes it between *)
(* the load and the CAS.  With that, the rwlock owner is the only thread   *)
(* out of idle, so its CAS always succeeds and always sees the parity the  *)
(* protocol expects.                                                       *)
(***************************************************************************)
LoadedInv ==
    \A t \in Threads :
        pc[t] \in {"start_cas", "end_cas"} => oldval[t] = write_lock[fk[t]]

IInv == TypeOK /\ NoCrit /\ WriterAgreement /\ LoadedInv

\* In one process, two threads out of idle are the same thread: both own
\* the single rwlock.
LEMMA SingleOwner ==
    ASSUME NEW p, Procs = {p}, TypeOK, WriterAgreement,
           NEW t \in Threads, NEW u \in Threads,
           pc[t] # "idle", pc[u] # "idle"
    PROVE  t = u
BY LockAssumption DEF WriterAgreement, TypeOK

\* IInv holds in every state of one process of a threaded build.
LEMMA SingleProcessInv ==
    ASSUME NEW p, Procs = {p}, HasThreads
    PROVE  Spec => []IInv
<1>1. Init => IInv
  BY LockAssumption DEF Init, IInv, TypeOK, LockVal, Labels, Crits, NoCrit,
                        WriterAgreement, LoadedInv, InSection, Odd
<1>2. IInv /\ [Next]_vars => IInv'
  <2> SUFFICES ASSUME IInv, [Next]_vars PROVE IInv'
    OBVIOUS
  <2>0. TypeOK'
    BY TypeStep DEF IInv
  <2>1. ASSUME NEW t \in Threads, NEW f \in Funks, StartWrite(t, f)
        PROVE  IInv'
    <3>1. \A u \in Threads : pc[u] = "idle"
      <4> SUFFICES ASSUME NEW u \in Threads, pc[u] # "idle" PROVE FALSE
        OBVIOUS
      <4>1. ProcOf[u] = p /\ ProcOf[t] = p
        BY LockAssumption
      <4>2. rwlock[p] = u
        BY <4>1 DEF IInv, WriterAgreement
      <4>3. rwlock[p] = NoThread
        BY <2>1, <4>1 DEF StartWrite
      <4>4. QED
        BY <4>2, <4>3, LockAssumption
    <3>2. QED
      BY <2>0, <2>1, <3>1, LockAssumption
         DEF StartWrite, IInv, NoCrit, WriterAgreement, LoadedInv, InSection, TypeOK
  <2>2. ASSUME NEW t \in Threads, LoadOld(t) PROVE IInv'
    BY <2>0, <2>2 DEF LoadOld, IInv, NoCrit, WriterAgreement, LoadedInv, InSection, TypeOK
  <2>3. ASSUME NEW t \in Threads, CasRetry(t) PROVE IInv'
    BY <2>3 DEF CasRetry, IInv, LoadedInv
  <2>4. ASSUME NEW t \in Threads, StartCas(t) PROVE IInv'
    <3>1. \A u \in Threads : pc[u] # "idle" => u = t
      BY <2>4, SingleOwner DEF StartCas, IInv
    <3>2. ~Odd(oldval[t])
      <4> SUFFICES ASSUME Odd(oldval[t]) PROVE FALSE
        OBVIOUS
      <4>1. Odd(write_lock[fk[t]])
        BY <2>4 DEF StartCas, IInv, LoadedInv
      <4>2. PICK u \in Threads : InSection(u) /\ fk[u] = fk[t]
        BY <4>1 DEF IInv, WriterAgreement, TypeOK
      <4>3. u = t
        BY <4>2, <3>1 DEF InSection
      <4>4. QED
        BY <2>4, <4>2, <4>3 DEF StartCas, InSection
    <3>3. Odd(write_lock'[fk[t]])
      BY <2>4, <3>2, BumpFlipsParity DEF StartCas, IInv, TypeOK
    <3>4. QED
      BY <2>0, <2>4, <3>1, <3>2, <3>3
         DEF StartCas, IInv, NoCrit, WriterAgreement, LoadedInv, InSection, TypeOK
  <2>5. ASSUME NEW t \in Threads, EndWrite(t) PROVE IInv'
    BY <2>0, <2>5 DEF EndWrite, IInv, NoCrit, WriterAgreement, LoadedInv, InSection, TypeOK
  <2>6. ASSUME NEW t \in Threads, EndCas(t) PROVE IInv'
    <3>1. \A u \in Threads : pc[u] # "idle" => u = t
      BY <2>6, SingleOwner DEF EndCas, IInv
    <3>2. Odd(oldval[t])
      <4>1. InSection(t) /\ fk[t] \in Funks
        BY <2>6 DEF EndCas, InSection, IInv, TypeOK
      <4>2. Odd(write_lock[fk[t]])
        BY <4>1 DEF IInv, WriterAgreement
      <4>3. QED
        BY <2>6, <4>2 DEF EndCas, IInv, LoadedInv
    <3>3. ~Odd(write_lock'[fk[t]])
      BY <2>6, <3>2, BumpFlipsParity DEF EndCas, IInv, TypeOK
    <3>4. NoCrit'
      BY <2>6, <3>2 DEF EndCas, IInv, NoCrit
    <3>5. /\ pc' = [pc EXCEPT ![t] = "idle"]
          /\ rwlock' = [rwlock EXCEPT ![ProcOf[t]] = NoThread]
          /\ write_lock' = [write_lock EXCEPT ![fk[t]] = Bump(oldval[t])]
      BY <2>6, <3>2 DEF EndCas
    <3>6. \A u \in Threads : pc'[u] = "idle"
      BY <3>1, <3>5 DEF IInv, TypeOK
    <3>7. \A q \in Procs : rwlock'[q] = NoThread
      BY <3>5, LockAssumption DEF IInv, TypeOK
    <3>8. \A g \in Funks : g # fk[t] => ~Odd(write_lock[g])
      <4> SUFFICES ASSUME NEW g \in Funks, g # fk[t], Odd(write_lock[g])
                   PROVE  FALSE
        OBVIOUS
      <4>1. PICK u \in Threads : InSection(u) /\ fk[u] = g
        BY DEF IInv, WriterAgreement
      <4>2. u = t
        BY <4>1, <3>1 DEF InSection
      <4>3. QED
        BY <4>1, <4>2
    <3>9. \A g \in Funks : ~Odd(write_lock'[g])
      BY <3>3, <3>5, <3>8 DEF IInv, TypeOK
    <3>10. WriterAgreement'
      BY <3>6, <3>7, <3>9, LockAssumption DEF WriterAgreement, InSection
    <3>11. LoadedInv'
      BY <3>6 DEF LoadedInv
    <3>12. QED
      BY <2>0, <3>4, <3>10, <3>11 DEF IInv
  <2>7. ASSUME NEW t \in Threads, CheckWrite(t) PROVE IInv'
    <3>1. InSection(t) /\ fk[t] \in Funks
      BY <2>7 DEF CheckWrite, InSection, IInv, TypeOK
    <3>2. Odd(write_lock[fk[t]])
      BY <3>1 DEF IInv, WriterAgreement
    <3>3. QED
      BY <2>7, <3>2 DEF CheckWrite
  <2>8. CASE UNCHANGED vars
    BY <2>8 DEF vars, IInv, TypeOK, NoCrit, WriterAgreement, LoadedInv, InSection
  <2>9. QED
    BY <2>1, <2>2, <2>3, <2>4, <2>5, <2>6, <2>7, <2>8 DEF Next
<1>3. QED
  BY <1>1, <1>2, PTL DEF Spec

\* In one process of a threaded build, fd_funk_start_write,
\* fd_funk_end_write and fd_funk_check_write never reach FD_LOG_CRIT, and
\* the rwlock owner is the thread in a section or its CAS loops, with the
\* write_lock of a funk odd exactly while a section on it is open.
THEOREM SingleProcessSafety ==
    ASSUME NEW p, Procs = {p}, HasThreads
    PROVE  Spec => [](NoCrit /\ WriterAgreement)
<1>1. IInv => NoCrit /\ WriterAgreement
  BY DEF IInv
<1>2. QED
  BY <1>1, SingleProcessInv, PTL

\* In one process of a threaded build, no thread ever reaches the
\* FD_LOG_CRIT of fd_funk_start_write ("already locked"), of
\* fd_funk_end_write ("not locked") or of fd_funk_check_write.
THEOREM NoCritHolds ==
    ASSUME NEW p, Procs = {p}, HasThreads
    PROVE  Spec => []NoCrit
<1>1. IInv => NoCrit
  BY DEF IInv
<1>2. QED
  BY <1>1, SingleProcessInv, PTL

-----------------------------------------------------------------------------
(***************************************************************************)
(* Refinement of FunkWriteSection in one process.  SectionWriter is taken  *)
(* apart as SW of the pc and fk functions, so that one lemma speaks of the *)
(* state before and after a step.                                          *)
(***************************************************************************)
SecLabels == {"body", "end_ld", "end_cas"}

SW(pcv, fkv) ==
    [f \in Funks |->
        IF \E t \in Threads : pcv[t] \in SecLabels /\ fkv[t] = f
          THEN CHOOSE t \in Threads : pcv[t] \in SecLabels /\ fkv[t] = f
          ELSE NoThread]

LEMMA SWIsSectionWriter ==
    SectionWriter = SW(pc, fk) /\ SectionWriter' = SW(pc', fk')
BY DEF SectionWriter, SW, InSection, SecLabels

\* With no thread in a section, no funk has a writer.
LEMMA SWNone ==
    ASSUME NEW pcv, NEW fkv, \A t \in Threads : pcv[t] \notin SecLabels
    PROVE  SW(pcv, fkv) = [f \in Funks |-> NoThread]
BY DEF SW

\* With thread t alone in a section, its funk's writer is t.
LEMMA SWOne ==
    ASSUME NEW pcv, NEW fkv, NEW t \in Threads, pcv[t] \in SecLabels,
           \A u \in Threads : pcv[u] \in SecLabels => u = t
    PROVE  SW(pcv, fkv) = [f \in Funks |-> IF f = fkv[t] THEN t ELSE NoThread]
BY DEF SW

\* In one process every thread out of idle owns the rwlock, so at most one
\* thread is out of idle; stated for the state before and after a step.
LEMMA OneBusy ==
    ASSUME NEW p, Procs = {p}, IInv, IInv'
    PROVE  /\ \A u, v \in Threads : pc[u] # "idle" /\ pc[v] # "idle" => u = v
           /\ \A u, v \in Threads : pc'[u] # "idle" /\ pc'[v] # "idle" => u = v
<1>1. \A u, v \in Threads : pc[u] # "idle" /\ pc[v] # "idle" => u = v
  BY SingleOwner DEF IInv
<1>2. \A u, v \in Threads : pc'[u] # "idle" /\ pc'[v] # "idle" => u = v
  BY LockAssumption DEF IInv, WriterAgreement, TypeOK
<1>3. QED
  BY <1>1, <1>2

\* In one process of a threaded build, fd_funk_start_write and
\* fd_funk_end_write implement the write-section contract FunkWriteSection:
\* the successful CAS of start_write opens a section on a funk with none
\* open, the successful CAS of end_write closes the caller's own section,
\* and every other step leaves the sections alone.
THEOREM SingleProcessRefinement ==
    ASSUME NEW p, Procs = {p}, HasThreads
    PROVE  Spec => ImplementsWriteSection
<1>1. Init => Section!Init
  <2> SUFFICES ASSUME Init PROVE SW(pc, fk) = [f \in Funks |-> NoThread]
    BY SWIsSectionWriter DEF Section!Init
  <2>1. \A t \in Threads : pc[t] \notin SecLabels
    BY DEF Init, SecLabels
  <2>2. QED
    BY <2>1, SWNone
<1>2. IInv /\ IInv' /\ [Next]_vars => [Section!Next]_SectionWriter
  <2> SUFFICES ASSUME IInv, IInv', [Next]_vars
               PROVE  [Section!Next]_SectionWriter
    OBVIOUS
  <2>0. /\ \A u, v \in Threads : pc[u] # "idle" /\ pc[v] # "idle" => u = v
        /\ \A u, v \in Threads : pc'[u] # "idle" /\ pc'[v] # "idle" => u = v
    BY OneBusy
  <2>a. NoThread \notin Threads /\ crit'[p] = "none" /\ pc \in [Threads -> Labels]
        /\ fk \in [Threads -> Funks]
    BY LockAssumption DEF IInv, NoCrit, TypeOK
  \* Steps that move no thread into or out of a section, nor its funk.
  <2>1. CASE \A u \in Threads : /\ pc'[u] \in SecLabels <=> pc[u] \in SecLabels
                                /\ pc[u] \in SecLabels => fk'[u] = fk[u]
    <3>1. CASE \A u \in Threads : pc[u] \notin SecLabels
      BY <2>1, <3>1, SWNone, SWIsSectionWriter
    <3>2. CASE \E u \in Threads : pc[u] \in SecLabels
      <4>1. PICK u \in Threads : pc[u] \in SecLabels
        BY <3>2
      <4>2. \A v \in Threads : pc[v] \in SecLabels => v = u
        BY <4>1, <2>0 DEF SecLabels
      <4>3. \A v \in Threads : pc'[v] \in SecLabels => v = u
        BY <4>1, <2>0, <2>1 DEF SecLabels
      <4>4. SW(pc, fk) = [f \in Funks |-> IF f = fk[u] THEN u ELSE NoThread]
        BY <4>1, <4>2, SWOne
      <4>5. SW(pc', fk') = [f \in Funks |-> IF f = fk'[u] THEN u ELSE NoThread]
        BY <4>1, <4>3, <2>1, SWOne
      <4>6. QED
        BY <4>1, <4>4, <4>5, <2>1, SWIsSectionWriter
    <3>3. QED
      BY <3>1, <3>2
  <2>2. ASSUME NEW t \in Threads, StartCas(t) PROVE [Section!Next]_SectionWriter
    <3>0. ~Odd(oldval[t])
      <4> SUFFICES ASSUME Odd(oldval[t]) PROVE FALSE
        OBVIOUS
      <4>1. ProcOf[t] = p /\ crit \in [Procs -> Crits]
        BY LockAssumption DEF IInv, TypeOK
      <4>2. crit'[p] = "already_locked"
        BY <2>2, <4>1 DEF StartCas
      <4>3. QED
        BY <4>2, <2>a
    <3>1. pc' = [pc EXCEPT ![t] = "body"]
      BY <2>2, <3>0 DEF StartCas
    <3>2. \A u \in Threads : pc[u] \notin SecLabels
      BY <2>2, <2>0 DEF StartCas, SecLabels
    <3>3. \A u \in Threads : pc'[u] \in SecLabels => u = t
      BY <3>1, <3>2, <2>a
    <3>4. pc'[t] \in SecLabels
      BY <3>1, <2>a DEF SecLabels
    <3>5. SectionWriter = [f \in Funks |-> NoThread]
      BY <3>2, SWNone, SWIsSectionWriter
    <3>6. SectionWriter' = [f \in Funks |-> IF f = fk[t] THEN t ELSE NoThread]
      <4>1. SW(pc', fk') = [f \in Funks |-> IF f = fk'[t] THEN t ELSE NoThread]
        BY <3>3, <3>4, SWOne
      <4>2. fk' = fk
        BY <2>2 DEF StartCas
      <4>3. QED
        BY <4>1, <4>2, SWIsSectionWriter
    <3>7. Section!Open(t, fk[t])
      BY <3>5, <3>6, <2>a DEF Section!Open
    <3>8. QED
      BY <3>7, <2>a DEF Section!Next
  <2>3. ASSUME NEW t \in Threads, EndCas(t) PROVE [Section!Next]_SectionWriter
    <3>0. Odd(oldval[t])
      <4> SUFFICES ASSUME ~Odd(oldval[t]) PROVE FALSE
        OBVIOUS
      <4>1. ProcOf[t] = p /\ crit \in [Procs -> Crits]
        BY LockAssumption DEF IInv, TypeOK
      <4>2. crit'[p] = "already_unlocked"
        BY <2>3, <4>1 DEF EndCas
      <4>3. QED
        BY <4>2, <2>a
    <3>1. pc' = [pc EXCEPT ![t] = "idle"]
      BY <2>3, <3>0 DEF EndCas
    <3>2. pc[t] \in SecLabels /\ \A u \in Threads : pc[u] \in SecLabels => u = t
      BY <2>3, <2>0 DEF EndCas, SecLabels
    <3>3. \A u \in Threads : pc'[u] \notin SecLabels
      BY <3>1, <3>2, <2>a DEF SecLabels
    <3>4. SectionWriter = [f \in Funks |-> IF f = fk[t] THEN t ELSE NoThread]
      BY <3>2, SWOne, SWIsSectionWriter
    <3>5. SectionWriter' = [f \in Funks |-> NoThread]
      BY <3>3, SWNone, SWIsSectionWriter
    <3>6. Section!Close(t, fk[t])
      BY <3>4, <3>5, <2>a DEF Section!Close
    <3>7. QED
      BY <3>6, <2>a DEF Section!Next
  <2>4. ASSUME NEW t \in Threads, NEW f \in Funks, StartWrite(t, f)
        PROVE  [Section!Next]_SectionWriter
    BY <2>4, <2>1, <2>a DEF StartWrite, SecLabels
  <2>5. ASSUME NEW t \in Threads, LoadOld(t) PROVE [Section!Next]_SectionWriter
    BY <2>5, <2>1, <2>a DEF LoadOld, SecLabels
  <2>6. ASSUME NEW t \in Threads, CasRetry(t) PROVE [Section!Next]_SectionWriter
    BY <2>6, <2>1, <2>a DEF CasRetry, SecLabels
  <2>7. ASSUME NEW t \in Threads, EndWrite(t) PROVE [Section!Next]_SectionWriter
    BY <2>7, <2>1, <2>a DEF EndWrite, SecLabels
  <2>8. ASSUME NEW t \in Threads, CheckWrite(t) PROVE [Section!Next]_SectionWriter
    BY <2>8, <2>1 DEF CheckWrite
  <2>9. CASE UNCHANGED vars
    BY <2>9, <2>1 DEF vars
  <2>10. QED
    BY <2>2, <2>3, <2>4, <2>5, <2>6, <2>7, <2>8, <2>9 DEF Next
<1>3. QED
  BY <1>1, <1>2, SingleProcessInv, PTL DEF Spec, ImplementsWriteSection, Section!Spec

=============================================================================
