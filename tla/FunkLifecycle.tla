--------------------------- MODULE FunkLifecycle ---------------------------
(***************************************************************************)
(* Creation, joining and deletion of a funk instance (fd_funk.c,           *)
(* fd_funk_new / fd_funk_join / fd_funk_leave / fd_funk_delete).           *)
(*                                                                         *)
(* fd_funk_new makes four workspace allocations in order (the txn map, the *)
(* record map, the fd_alloc, and the partvec taken from that alloc), each *)
(* of which (or the constructor or join run on it) can fail; every failure *)
(* frees what it knows of and returns NULL.  On success it writes the      *)
(* header fields, then publishes FD_FUNK_MAGIC last.  Joiners (threads of  *)
(* any process sharing the workspace) accept the funk when they see the   *)
(* magic.  fd_funk_delete frees the four objects, then clears the magic.  *)
(*                                                                         *)
(* The workspace is abstracted to a count of live allocations per kind of *)
(* object; the early argument checks of each call (NULL, misalignment, no *)
(* workspace, txn_max) return before any state change and are omitted.    *)
(***************************************************************************)
EXTENDS Naturals

CONSTANTS
    Funks,      \* funk instances in the workspace
    Joiners,    \* threads that call fd_funk_join / fd_funk_leave
    FailPoints, \* the steps of fd_funk_new that may fail in this instance
    MaxNew      \* bound on the calls of fd_funk_new per funk

\* Workspace objects of one funk.
Objs == {"txn", "rec", "alloc", "partvec"}

\* The steps of fd_funk_new that can fail, in order.
Steps == <<"txn_alloc", "txn_new", "txn_join",
           "rec_alloc", "rec_new", "rec_join",
           "alloc_alloc", "alloc_new", "alloc_join", "partvec">>

StepSet == {Steps[i] : i \in 1 .. 10}

ASSUME LifecycleAssumption ==
    /\ FailPoints \subseteq StepSet
    /\ MaxNew \in Nat \ {0}

\* The step whose success leaves each object allocated.
AllocStep == [txn |-> "txn_alloc", rec |-> "rec_alloc",
              alloc |-> "alloc_alloc", partvec |-> "partvec"]

\* Mutant of Freed: the cleanup of a record-map failure forgets the txn map.
FreedNoTxn(k) ==
    CASE k \in {"txn_alloc"}                             -> {}
      [] k \in {"txn_new", "txn_join", "rec_alloc"}      -> {"txn"}
      [] k \in {"rec_new", "rec_join"}                   -> {"rec"}
      [] k \in {"alloc_alloc", "alloc_new"}              -> {"rec", "txn"}
      [] k \in {"alloc_join", "partvec"}                 -> {"alloc", "rec", "txn"}

\* Objects the failure path at step k hands back to fd_wksp_free_laddr.
Freed(k) ==
    CASE k \in {"txn_alloc"}                             -> {}
      [] k \in {"txn_new", "txn_join", "rec_alloc"}      -> {"txn"}
      [] k \in {"rec_new", "rec_join", "alloc_alloc",
                "alloc_new"}                             -> {"rec", "txn"}
      [] k \in {"alloc_join", "partvec"}                 -> {"alloc", "rec", "txn"}

VARIABLES                   \* all indexed by funk
    allocs,  \* allocs[f][o]: live workspace allocations of kind o of f
    magic,   \* funk->magic = FD_FUNK_MAGIC
    phase,   \* "idle", "new" (inside fd_funk_new's allocations),
             \* "inited" (new before its magic store),
             \* "freed" (delete before its magic store)
    step,    \* the step of fd_funk_new about to run, 1 .. 10, or 0
    joined,  \* joiners holding a join of the funk
    news     \* calls of fd_funk_new so far

vars == <<allocs, magic, phase, step, joined, news>>

TypeOK ==
    /\ allocs \in [Funks -> [Objs -> 0 .. MaxNew]]
    /\ magic \in [Funks -> BOOLEAN]
    /\ phase \in [Funks -> {"idle", "new", "inited", "freed"}]
    /\ step \in [Funks -> 0 .. 10]
    /\ joined \in [Funks -> SUBSET Joiners]
    /\ news \in [Funks -> 0 .. MaxNew]

\* Fresh, zeroed shared memory with no funk in it.
Init ==
    /\ allocs = [f \in Funks |-> [o \in Objs |-> 0]]
    /\ magic = [f \in Funks |-> FALSE]
    /\ phase = [f \in Funks |-> "idle"]
    /\ step = [f \in Funks |-> 0]
    /\ joined = [f \in Funks |-> {}]
    /\ news = [f \in Funks |-> 0]

-----------------------------------------------------------------------------
\* fd_funk_new(f) is called on memory holding no funk (its caller's
\* contract) and passes its argument checks (lines 26-50).
NewBegin(f) ==
    /\ phase[f] = "idle"
    /\ ~magic[f]
    /\ news[f] < MaxNew
    /\ phase' = [phase EXCEPT ![f] = "new"]
    /\ step' = [step EXCEPT ![f] = 1]
    /\ news' = [news EXCEPT ![f] = @ + 1]
    /\ UNCHANGED <<allocs, magic, joined>>

\* Step Steps[step[f]] of fd_funk_new succeeds; an allocation step leaves
\* its object allocated.  After the last one (the partvec) the header has
\* been zeroed and written (lines 120-154).
NewStep(f) ==
    /\ phase[f] = "new"
    /\ allocs' = [allocs EXCEPT ![f] =
                    [o \in Objs |-> @[o] + (IF AllocStep[o] = Steps[step[f]] THEN 1 ELSE 0)]]
    /\ phase' = [phase EXCEPT ![f] = IF step[f] = 10 THEN "inited" ELSE "new"]
    /\ step' = [step EXCEPT ![f] = IF step[f] = 10 THEN 0 ELSE @ + 1]
    /\ UNCHANGED <<magic, joined, news>>

\* Step Steps[step[f]] of fd_funk_new fails: its cleanup frees Freed(k)
\* and fd_funk_new returns NULL.
NewFail(f) ==
    /\ phase[f] = "new"
    /\ Steps[step[f]] \in FailPoints
    /\ allocs' = [allocs EXCEPT ![f] =
                    [o \in Objs |-> @[o] - (IF o \in Freed(Steps[step[f]]) THEN 1 ELSE 0)]]
    /\ phase' = [phase EXCEPT ![f] = "idle"]
    /\ step' = [step EXCEPT ![f] = 0]
    /\ UNCHANGED <<magic, joined, news>>

\* The magic store between the fences ends fd_funk_new (lines 156-158).
NewPublish(f) ==
    /\ phase[f] = "inited"
    /\ magic' = [magic EXCEPT ![f] = TRUE]
    /\ phase' = [phase EXCEPT ![f] = "idle"]
    /\ UNCHANGED <<allocs, step, joined, news>>

\* Mutant of Join: the magic check is dropped.
JoinNoMagic(j, f) ==
    /\ j \notin joined[f]
    /\ joined' = [joined EXCEPT ![f] = @ \cup {j}]
    /\ UNCHANGED <<allocs, magic, phase, step, news>>

\* fd_funk_join succeeds when it reads the magic (line 183).  Joins are
\* not made while a delete of the funk is running (the caller's contract).
Join(j, f) ==
    /\ j \notin joined[f]
    /\ phase[f] # "freed"
    /\ magic[f]
    /\ joined' = [joined EXCEPT ![f] = @ \cup {j}]
    /\ UNCHANGED <<allocs, magic, phase, step, news>>

\* fd_funk_leave.
Leave(j, f) ==
    /\ j \in joined[f]
    /\ joined' = [joined EXCEPT ![f] = @ \ {j}]
    /\ UNCHANGED <<allocs, magic, phase, step, news>>

\* Mutant of DeleteFree: the magic check is dropped.
DeleteFreeNoMagic(f) ==
    /\ phase[f] = "idle"
    /\ joined[f] = {}
    /\ allocs' = [allocs EXCEPT ![f] = [o \in Objs |-> @[o] - 1]]
    /\ phase' = [phase EXCEPT ![f] = "freed"]
    /\ UNCHANGED <<magic, step, joined, news>>

\* fd_funk_delete on a funk with the magic (line 226) frees the partvec,
\* the alloc and both maps (lines 232-236).  The caller has every joiner
\* leave first.
DeleteFree(f) ==
    /\ phase[f] = "idle"
    /\ magic[f]
    /\ joined[f] = {}
    /\ allocs' = [allocs EXCEPT ![f] = [o \in Objs |-> @[o] - 1]]
    /\ phase' = [phase EXCEPT ![f] = "freed"]
    /\ UNCHANGED <<magic, step, joined, news>>

\* The magic is cleared last (lines 238-240).
DeleteClear(f) ==
    /\ phase[f] = "freed"
    /\ magic' = [magic EXCEPT ![f] = FALSE]
    /\ phase' = [phase EXCEPT ![f] = "idle"]
    /\ UNCHANGED <<allocs, step, joined, news>>

Next ==
    \E f \in Funks :
        \/ NewBegin(f)
        \/ NewStep(f)
        \/ NewFail(f)
        \/ NewPublish(f)
        \/ \E j \in Joiners : Join(j, f) \/ Leave(j, f)
        \/ DeleteFree(f)
        \/ DeleteClear(f)

Spec == Init /\ [][Next]_vars

-----------------------------------------------------------------------------
\* What fd_funk_verify can establish of the header in this abstraction: the
\* magic is set and the maps, alloc and partvec it points to are allocated.
FunkVerify(f) == magic[f] /\ \A o \in Objs : allocs[f][o] >= 1

\* Between calls of fd_funk_new and fd_funk_delete, the workspace holds
\* exactly the objects of the live funk (one of each kind) or, with no
\* funk, none: every failure path of fd_funk_new frees what it allocated.
NoLeak ==
    \A f \in Funks :
        phase[f] = "idle" => \A o \in Objs : allocs[f][o] = IF magic[f] THEN 1 ELSE 0

\* Every joiner holds a join of a funk that fd_funk_verify accepts: a join
\* sees the magic only once fd_funk_new has written the whole header and
\* allocated every object, and delete runs with no joins.
JoinedSeesLive == \A f \in Funks : joined[f] # {} => FunkVerify(f)

=============================================================================
