------------------------ MODULE FunkLifecycle_proofs ------------------------
(***************************************************************************)
(* Proofs about the funk lifecycle (FunkLifecycle) for every number of     *)
(* funks, joiners and calls of fd_funk_new.                                *)
(***************************************************************************)
EXTENDS FunkLifecycle, TLAPS

\* Position in fd_funk_new of the step that allocates each object.
AllocIdx == [txn |-> 1, rec |-> 4, alloc |-> 7, partvec |-> 10]

\* Allocations of kind o that fd_funk_new holds when about to run step k.
Held(o, k) == IF AllocIdx[o] < k THEN 1 ELSE 0

\* The position of the step that allocates o is the position of o's
\* AllocStep in Steps.
LEMMA AllocIdxIsPos ==
    \A o \in Objs, k \in 1 .. 10 : (AllocStep[o] = Steps[k]) <=> (AllocIdx[o] = k)
BY DEF Objs, AllocStep, AllocIdx, Steps

\* A successful step k of fd_funk_new takes its allocation holdings from
\* Held(_, k) to Held(_, k + 1).
LEMMA StepHeld ==
    ASSUME NEW o \in Objs, NEW k \in 1 .. 10
    PROVE  Held(o, k) + (IF AllocStep[o] = Steps[k] THEN 1 ELSE 0)
             = IF k = 10 THEN 1 ELSE Held(o, k + 1)
BY AllocIdxIsPos DEF Objs, AllocIdx, Held

\* Every failure path of fd_funk_new but the one after fd_alloc_new frees
\* exactly what the function holds at that step.
LEMMA CleanFailure ==
    ASSUME NEW o \in Objs, NEW k \in 1 .. 10, Steps[k] # "alloc_new"
    PROVE  Held(o, k) = IF o \in Freed(Steps[k]) THEN 1 ELSE 0
<1>1. k # 8
  BY DEF Steps
<1>2. QED
  BY <1>1 DEF Objs, Held, AllocIdx, Freed, Steps

-----------------------------------------------------------------------------
\* The allocation counts of each funk, fixed by where its creator or
\* deleter is, and joins only of a published funk that is not being
\* deleted.  NoLeak alone is not inductive: it says nothing of the counts
\* while fd_funk_new or fd_funk_delete runs.
Counts(f) ==
    /\ phase[f] = "idle"   => \A o \in Objs : allocs[f][o] = IF magic[f] THEN 1 ELSE 0
    /\ phase[f] = "new"    => /\ ~magic[f]
                              /\ step[f] \in 1 .. 10
                              /\ \A o \in Objs : allocs[f][o] = Held(o, step[f])
    /\ phase[f] = "inited" => ~magic[f] /\ \A o \in Objs : allocs[f][o] = 1
    /\ phase[f] = "freed"  => magic[f] /\ \A o \in Objs : allocs[f][o] = 0

JoinOk(f) == joined[f] # {} => phase[f] = "idle" /\ magic[f]

IInv ==
    /\ TypeOK
    /\ \A f \in Funks : Counts(f) /\ JoinOk(f)

\* A step that changes only funk f's state keeps the invariant of every
\* other funk.
Frame(f) ==
    \A g \in Funks \ {f} :
        /\ allocs'[g] = allocs[g]
        /\ magic'[g] = magic[g]
        /\ phase'[g] = phase[g]
        /\ step'[g] = step[g]
        /\ joined'[g] = joined[g]

LEMMA FrameStep ==
    ASSUME NEW f \in Funks, IInv, TypeOK', Frame(f), Counts(f)', JoinOk(f)'
    PROVE  IInv'
BY DEF IInv, Frame, Counts, JoinOk

\* With no failure after fd_alloc_new, the allocation counts follow the
\* creator and deleter of each funk, and joins are only of published funks.
LEMMA LifecycleInv ==
    ASSUME "alloc_new" \notin FailPoints
    PROVE  Spec => []IInv
<1>1. Init => IInv
  BY LifecycleAssumption DEF Init, IInv, TypeOK, Counts, JoinOk
<1>2. IInv /\ [Next]_vars => IInv'
  <2> SUFFICES ASSUME IInv, [Next]_vars PROVE IInv'
    OBVIOUS
  <2>0. TypeOK
    BY DEF IInv
  <2>1. ASSUME NEW f \in Funks, NewBegin(f) PROVE IInv'
    <3>1. Counts(f) /\ JoinOk(f)
      BY DEF IInv
    <3>2. TypeOK'
      BY <2>0, <2>1, LifecycleAssumption DEF NewBegin, TypeOK
    <3>3. Counts(f)'
      BY <2>0, <2>1, <3>1 DEF NewBegin, Counts, Held, AllocIdx, Objs, TypeOK
    <3>4. QED
      BY <2>0, <2>1, <3>1, <3>2, <3>3, FrameStep DEF NewBegin, Frame, TypeOK, JoinOk
  <2>2. ASSUME NEW f \in Funks, NewStep(f) PROVE IInv'
    <3>1. Counts(f) /\ JoinOk(f)
      BY DEF IInv
    <3>2. step[f] \in 1 .. 10 /\ ~magic[f] /\ \A o \in Objs : allocs[f][o] = Held(o, step[f])
      BY <2>2, <3>1 DEF NewStep, Counts
    <3>3. \A o \in Objs : allocs'[f][o] = IF step[f] = 10 THEN 1 ELSE Held(o, step[f] + 1)
      BY <2>0, <2>2, <3>2, StepHeld DEF NewStep, TypeOK
    <3>4. TypeOK'
      BY <2>0, <2>2, <3>2, <3>3, LifecycleAssumption DEF NewStep, TypeOK, Held, AllocIdx
    <3>5. Counts(f)'
      BY <2>0, <2>2, <3>2, <3>3 DEF NewStep, Counts, TypeOK
    <3>6. QED
      BY <2>0, <2>2, <3>1, <3>4, <3>5, FrameStep DEF NewStep, Frame, TypeOK, JoinOk
  <2>3. ASSUME NEW f \in Funks, NewFail(f) PROVE IInv'
    <3>1. Counts(f) /\ JoinOk(f)
      BY DEF IInv
    <3>2. step[f] \in 1 .. 10 /\ ~magic[f] /\ \A o \in Objs : allocs[f][o] = Held(o, step[f])
      BY <2>3, <3>1 DEF NewFail, Counts
    <3>3. Steps[step[f]] # "alloc_new"
      BY <2>3 DEF NewFail
    <3>4. \A o \in Objs : allocs'[f][o] = 0
      BY <2>0, <2>3, <3>2, <3>3, CleanFailure DEF NewFail, TypeOK
    <3>5. TypeOK'
      BY <2>0, <2>3, <3>4, LifecycleAssumption DEF NewFail, TypeOK
    <3>6. Counts(f)'
      BY <2>0, <2>3, <3>2, <3>4 DEF NewFail, Counts, TypeOK
    <3>7. QED
      BY <2>0, <2>3, <3>1, <3>5, <3>6, FrameStep DEF NewFail, Frame, TypeOK, JoinOk
  <2>4. ASSUME NEW f \in Funks, NewPublish(f) PROVE IInv'
    <3>1. Counts(f) /\ JoinOk(f)
      BY DEF IInv
    <3>2. TypeOK'
      BY <2>0, <2>4 DEF NewPublish, TypeOK
    <3>3. Counts(f)' /\ JoinOk(f)'
      BY <2>0, <2>4, <3>1 DEF NewPublish, Counts, JoinOk, TypeOK
    <3>4. QED
      BY <2>0, <2>4, <3>2, <3>3, FrameStep DEF NewPublish, Frame, TypeOK
  <2>5. ASSUME NEW f \in Funks, NEW j \in Joiners, Join(j, f) PROVE IInv'
    <3>1. Counts(f) /\ JoinOk(f)
      BY DEF IInv
    <3>2. magic[f] => phase[f] \in {"idle", "freed"}
      BY <2>0, <3>1 DEF Counts, TypeOK
    <3>3. TypeOK'
      BY <2>0, <2>5 DEF Join, TypeOK
    <3>4. Counts(f)' /\ JoinOk(f)'
      BY <2>0, <2>5, <3>1, <3>2 DEF Join, Counts, JoinOk, TypeOK
    <3>5. QED
      BY <2>0, <2>5, <3>3, <3>4, FrameStep DEF Join, Frame, TypeOK
  <2>6. ASSUME NEW f \in Funks, NEW j \in Joiners, Leave(j, f) PROVE IInv'
    <3>1. Counts(f) /\ JoinOk(f)
      BY DEF IInv
    <3>2. TypeOK'
      BY <2>0, <2>6 DEF Leave, TypeOK
    <3>3. Counts(f)' /\ JoinOk(f)'
      BY <2>0, <2>6, <3>1 DEF Leave, Counts, JoinOk, TypeOK
    <3>4. QED
      BY <2>0, <2>6, <3>2, <3>3, FrameStep DEF Leave, Frame, TypeOK
  <2>7. ASSUME NEW f \in Funks, DeleteFree(f) PROVE IInv'
    <3>1. Counts(f) /\ JoinOk(f)
      BY DEF IInv
    <3>2. \A o \in Objs : allocs[f][o] = 1
      BY <2>7, <3>1 DEF DeleteFree, Counts
    <3>3. TypeOK'
      BY <2>0, <2>7, <3>2, LifecycleAssumption DEF DeleteFree, TypeOK
    <3>4. Counts(f)' /\ JoinOk(f)'
      BY <2>0, <2>7, <3>2 DEF DeleteFree, Counts, JoinOk, TypeOK
    <3>5. QED
      BY <2>0, <2>7, <3>3, <3>4, FrameStep DEF DeleteFree, Frame, TypeOK
  <2>8. ASSUME NEW f \in Funks, DeleteClear(f) PROVE IInv'
    <3>1. Counts(f) /\ JoinOk(f)
      BY DEF IInv
    <3>2. TypeOK'
      BY <2>0, <2>8 DEF DeleteClear, TypeOK
    <3>3. Counts(f)' /\ JoinOk(f)'
      BY <2>0, <2>8, <3>1 DEF DeleteClear, Counts, JoinOk, TypeOK
    <3>4. QED
      BY <2>0, <2>8, <3>2, <3>3, FrameStep DEF DeleteClear, Frame, TypeOK
  <2>9. CASE UNCHANGED vars
    BY <2>9 DEF vars, IInv, TypeOK, Counts, JoinOk
  <2>10. QED
    BY <2>1, <2>2, <2>3, <2>4, <2>5, <2>6, <2>7, <2>8, <2>9 DEF Next
<1>3. QED
  BY <1>1, <1>2, PTL DEF Spec

\* With no failure after fd_alloc_new, every allocation count of the
\* workspace stays between 0 and the number of fd_funk_new calls allowed,
\* and every other field keeps its type: no failure path frees an object
\* it did not allocate, and no delete frees an object twice.
THEOREM TypeCorrect ==
    ASSUME "alloc_new" \notin FailPoints
    PROVE  Spec => []TypeOK
<1>1. IInv => TypeOK
  BY DEF IInv
<1>2. QED
  BY <1>1, LifecycleInv, PTL

\* With no failure after fd_alloc_new, the workspace holds exactly the
\* objects of each live funk whenever no fd_funk_new or fd_funk_delete is
\* running on it: every failure path of fd_funk_new frees what it took.
THEOREM LifecycleSafety ==
    ASSUME "alloc_new" \notin FailPoints
    PROVE  Spec => []NoLeak
<1>1. IInv => NoLeak
  BY DEF IInv, Counts, NoLeak
<1>2. QED
  BY <1>1, LifecycleInv, PTL

\* With no failure after fd_alloc_new, a thread holding a join of a funk
\* (fd_funk_join returned it) always holds one fd_funk_verify accepts:
\* the magic is published only after all four objects exist, and
\* fd_funk_delete runs only with no joiner left.
THEOREM JoinedSeesLiveHolds ==
    ASSUME "alloc_new" \notin FailPoints
    PROVE  Spec => []JoinedSeesLive
<1>1. IInv => JoinedSeesLive
  BY DEF IInv, Counts, JoinOk, JoinedSeesLive, FunkVerify
<1>2. QED
  BY <1>1, LifecycleInv, PTL

=============================================================================
