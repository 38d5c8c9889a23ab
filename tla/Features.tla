------------------------------ MODULE Features ------------------------------
(***************************************************************************)
(* The feature activation table (fd_features.h): fd_features_t holds one   *)
(* ulong activation slot per feature, FD_FEATURE_DISABLED (ULONG_MAX) when *)
(* the feature is not activated; a feature is active at a slot at or past *)
(* its activation slot.  The ids[] table lists the known features, each    *)
(* with its index into fd_features_t, and ends with an entry whose index  *)
(* is ULONG_MAX; the fd_feature_iter_* API walks it up to that entry.      *)
(*                                                                         *)
(* The state is the table, the slot of the bank, and a loop over the       *)
(* iterator whose body sets the feature it visits (the usage pattern of    *)
(* lines 99-106 with fd_features_set as its body).  ulong is narrowed to   *)
(* ULongMod values; the bank slot never reaches ULONG_MAX.                 *)
(***************************************************************************)
EXTENDS Integers

CONSTANTS
    FeatureCnt, \* FD_FEATURE_ID_CNT
    IdIndex,    \* IdIndex[k]: ids[k].index, for the known features
    ULongMod,   \* 2^64
    SlotMax,    \* the last bank slot the model reaches
    SetSlots    \* activation slots a set may write

\* C arrays of n elements are indexed 0 .. n-1.
Idx(n) == 0 .. n - 1

ULongMax == ULongMod - 1

ASSUME FeaturesAssumption ==
    /\ FeatureCnt \in Nat \ {0}
    /\ IdIndex \in [Idx(FeatureCnt) -> Idx(FeatureCnt)]
    /\ \A a, b \in Idx(FeatureCnt) : IdIndex[a] = IdIndex[b] => a = b
    /\ \A i \in Idx(FeatureCnt) : \E k \in Idx(FeatureCnt) : IdIndex[k] = i
    /\ ULongMod \in Nat \ {0}
    /\ FeatureCnt < ULongMax
    /\ SlotMax \in Nat
    /\ SlotMax < ULongMax
    /\ SetSlots \subseteq 0 .. ULongMax

\* Mutant of Disabled: the sentinel is zero, the value of zeroed memory.
DisabledZero == 0

\* FD_FEATURE_DISABLED (line 15).
Disabled == ULongMax

\* ids[] with its terminating entry (lines 70-72).
Ids == [k \in Idx(FeatureCnt + 1) |-> IF k < FeatureCnt THEN IdIndex[k] ELSE ULongMax]

\* FD_FEATURE_ACTIVE_ (line 19): slot >= the feature's activation slot.
Active(s, f, i) == s >= f[i]

\* FD_FEATURE_JUST_ACTIVATED_ (line 20).
JustActivated(s, f, i) == s = f[i]

\* FD_FEATURE_ACTIVE_OFFSET_ (line 21): the field at byte offset off of
\* fd_features_t, an array of ulong, is f[off >> 3].
ActiveOffset(s, f, off) == s >= f[off \div 8]

VARIABLES
    feat,      \* the fd_features_t of the bank
    slot,      \* fd_bank_slot_get
    it,        \* the iterator: a position in ids[], or -1 outside the loop
    touched,   \* features the running loop has set
    activated  \* history: the slot each feature was last activated at, or -1

vars == <<feat, slot, it, touched, activated>>

AllFeatures == Idx(FeatureCnt)

\* fd_features_set(features, id, slot) (lines 125-130), and the slot it
\* stands for in the history.
SetFeature(i, v) ==
    /\ feat' = [feat EXCEPT ![i] = v]
    /\ activated' = [activated EXCEPT ![i] = IF v = Disabled THEN -1 ELSE v]

\* A bank whose features were disabled with fd_features_disable_all.
Init ==
    /\ feat = [i \in AllFeatures |-> Disabled]
    /\ slot = 0
    /\ it = -1
    /\ touched = {}
    /\ activated = [i \in AllFeatures |-> -1]

-----------------------------------------------------------------------------
\* fd_features_disable_all (lines 74-77).
DisableAll ==
    /\ it = -1
    /\ feat' = [i \in AllFeatures |-> Disabled]
    /\ activated' = [i \in AllFeatures |-> -1]
    /\ UNCHANGED <<slot, it, touched>>

\* fd_features_enable_all (lines 79-82): every feature active from slot 0.
EnableAll ==
    /\ it = -1
    /\ feat' = [i \in AllFeatures |-> 0]
    /\ activated' = [i \in AllFeatures |-> 0]
    /\ UNCHANGED <<slot, it, touched>>

\* FD_FEATURE_SET_ACTIVE / fd_features_set on one feature.
SetOne ==
    /\ it = -1
    /\ \E i \in AllFeatures, v \in SetSlots \cup {Disabled} : SetFeature(i, v)
    /\ UNCHANGED <<slot, it, touched>>

\* fd_features_enable_cleaned_up (lines 84-89): the features hard coded in
\* the cluster version are active from slot 0.
EnableCleanedUp ==
    /\ it = -1
    /\ \E cleaned_up \in SUBSET AllFeatures :
          /\ feat' = [i \in AllFeatures |-> IF i \in cleaned_up THEN 0 ELSE feat[i]]
          /\ activated' = [i \in AllFeatures |-> IF i \in cleaned_up THEN 0 ELSE activated[i]]
    /\ UNCHANGED <<slot, it, touched>>

\* fd_features_enable_one_offs (lines 91-97): the features passed in are
\* activated at the given slot.
EnableOneOffs ==
    /\ it = -1
    /\ \E one_offs \in SUBSET AllFeatures, s \in SetSlots :
          /\ feat' = [i \in AllFeatures |-> IF i \in one_offs THEN s ELSE feat[i]]
          /\ activated' = [i \in AllFeatures |-> IF i \in one_offs THEN s ELSE activated[i]]
    /\ UNCHANGED <<slot, it, touched>>

\* fd_feature_iter_init (lines 108-111).
IterInit ==
    /\ it = -1
    /\ it' = 0
    /\ touched' = {}
    /\ UNCHANGED <<feat, slot, activated>>

\* Mutant of IterDone: the walk stops one entry before the terminator.
IterDoneEarly(k) == k + 1 = FeatureCnt \/ Ids[k] = ULongMax

\* fd_feature_iter_done (lines 113-116).
IterDone(k) == Ids[k] = ULongMax

\* The loop body sets the visited feature; fd_feature_iter_next moves on
\* (lines 118-130).
IterBody ==
    /\ it >= 0
    /\ ~IterDone(it)
    /\ \E v \in SetSlots \cup {Disabled} : SetFeature(Ids[it], v)
    /\ touched' = touched \cup {Ids[it]}
    /\ it' = it + 1
    /\ UNCHANGED slot

\* The loop leaves at the terminating entry.
IterEnd ==
    /\ it >= 0
    /\ IterDone(it)
    /\ it' = -1
    /\ UNCHANGED <<feat, slot, touched, activated>>

\* The bank moves to its next slot.
NextSlot ==
    /\ slot < SlotMax
    /\ slot' = slot + 1
    /\ UNCHANGED <<feat, it, touched, activated>>

Next ==
    \/ DisableAll
    \/ EnableAll
    \/ SetOne
    \/ EnableCleanedUp
    \/ EnableOneOffs
    \/ IterInit
    \/ IterBody
    \/ IterEnd
    \/ NextSlot

Spec == Init /\ [][Next]_vars

-----------------------------------------------------------------------------
TypeOK ==
    /\ feat \in [AllFeatures -> 0 .. ULongMax]
    /\ slot \in 0 .. SlotMax
    /\ it \in {-1} \cup Idx(FeatureCnt + 1)
    /\ touched \subseteq AllFeatures
    /\ activated \in [AllFeatures -> {-1} \cup 0 .. ULongMax]

\* The ULONG_MAX sentinel is sound: FD_FEATURE_ACTIVE and its offset form
\* report a feature active exactly when it was last activated at a slot
\* at or before the bank's, and FD_FEATURE_JUST_ACTIVATED exactly at that
\* slot; a disabled feature is never active.
ActiveMeansActivated ==
    \A i \in AllFeatures :
        /\ Active(slot, feat, i) <=> (activated[i] # -1 /\ activated[i] <= slot)
        /\ ActiveOffset(slot, feat, 8 * i) = Active(slot, feat, i)
        /\ JustActivated(slot, feat, i) <=> activated[i] = slot

\* A walk with fd_feature_iter_init / _done / _next sets every known
\* feature before it stops at the terminating entry, and never writes
\* through the terminator's ULONG_MAX index.
IterCoversAll ==
    [][it >= 0 /\ it' = -1 => touched = AllFeatures]_vars

=============================================================================
