-------------------------- MODULE Features_proofs --------------------------
(***************************************************************************)
(* Proofs about the feature activation table (Features) for every number  *)
(* of features, every ids[] order and every ulong width.                   *)
(***************************************************************************)
EXTENDS Features, TLAPS

\* The table encodes the history: ULONG_MAX for a feature never activated
\* (or last disabled), the activation slot otherwise.
Encoded ==
    \A i \in AllFeatures :
        feat[i] = IF activated[i] = -1 THEN Disabled ELSE activated[i]

\* Inside the loop, the features set so far are those of ids[0 .. it-1].
Walked ==
    it >= 0 => touched = {Ids[k] : k \in Idx(it)}

IInv == TypeOK /\ Encoded /\ Walked

\* The facts about the constants the proofs use.
LEMMA ConstFacts ==
    /\ FeatureCnt \in Nat \ {0}
    /\ ULongMax \in Nat
    /\ FeatureCnt < ULongMax
    /\ SlotMax \in Nat /\ SlotMax < ULongMax
    /\ SetSlots \subseteq 0 .. ULongMax
    /\ Disabled = ULongMax
    /\ \A k \in Idx(FeatureCnt) : Ids[k] = IdIndex[k] /\ Ids[k] \in AllFeatures
    /\ Ids[FeatureCnt] = ULongMax
    /\ \A i \in AllFeatures : \E k \in Idx(FeatureCnt) : IdIndex[k] = i
<1>1. FeatureCnt \in Nat \ {0} /\ ULongMax \in Nat /\ FeatureCnt < ULongMax
  BY FeaturesAssumption DEF ULongMax
<1>2. SlotMax \in Nat /\ SlotMax < ULongMax /\ SetSlots \subseteq 0 .. ULongMax
  BY FeaturesAssumption
<1>3. Disabled = ULongMax
  BY DEF Disabled
<1>4. \A k \in Idx(FeatureCnt) : Ids[k] = IdIndex[k] /\ Ids[k] \in AllFeatures
  <2> SUFFICES ASSUME NEW k \in Idx(FeatureCnt)
               PROVE  Ids[k] = IdIndex[k] /\ Ids[k] \in AllFeatures
    OBVIOUS
  <2>1. k \in Idx(FeatureCnt + 1) /\ k < FeatureCnt
    BY <1>1 DEF Idx
  <2>2. Ids[k] = IdIndex[k]
    BY <2>1 DEF Ids
  <2>3. IdIndex[k] \in Idx(FeatureCnt)
    BY FeaturesAssumption
  <2>4. QED
    BY <2>2, <2>3 DEF AllFeatures
<1>5. Ids[FeatureCnt] = ULongMax
  BY <1>1 DEF Ids, Idx
<1>6. \A i \in AllFeatures : \E k \in Idx(FeatureCnt) : IdIndex[k] = i
  BY FeaturesAssumption DEF AllFeatures
<1>7. QED
  BY <1>1, <1>2, <1>3, <1>4, <1>5, <1>6

\* The walk stops exactly at the terminating entry of ids[].
LEMMA DoneAtEnd ==
    ASSUME NEW k \in Idx(FeatureCnt + 1)
    PROVE  IterDone(k) <=> k = FeatureCnt
<1>1. CASE k < FeatureCnt
  BY <1>1, ConstFacts DEF IterDone, Idx, AllFeatures
<1>2. CASE k = FeatureCnt
  BY <1>2, ConstFacts DEF IterDone
<1>3. QED
  BY <1>1, <1>2, ConstFacts DEF Idx

LEMMA InitIInv == Init => IInv
BY ConstFacts DEF Init, IInv, TypeOK, Encoded, Walked, Idx, AllFeatures

LEMMA StepIInv == IInv /\ [Next]_vars => IInv'
<1> SUFFICES ASSUME IInv, [Next]_vars PROVE IInv'
  OBVIOUS
<1> USE ConstFacts
<1>1. CASE DisableAll
  BY <1>1 DEF DisableAll, IInv, TypeOK, Encoded, Walked
<1>2. CASE EnableAll
  BY <1>2 DEF EnableAll, IInv, TypeOK, Encoded, Walked
<1>3. CASE EnableCleanedUp
  BY <1>3 DEF EnableCleanedUp, IInv, TypeOK, Encoded, Walked
<1>4. CASE EnableOneOffs
  BY <1>4 DEF EnableOneOffs, IInv, TypeOK, Encoded, Walked
<1>5. CASE SetOne
  BY <1>5 DEF SetOne, SetFeature, IInv, TypeOK, Encoded, Walked
<1>6. CASE IterInit
  BY <1>6 DEF IterInit, IInv, TypeOK, Encoded, Walked, Idx
<1>7. CASE IterBody
  <2>1. it \in Idx(FeatureCnt)
    BY <1>7, DoneAtEnd DEF IterBody, IInv, TypeOK, Idx
  <2>2. Ids[it] \in AllFeatures
    BY <2>1
  <2>3. TypeOK'
    BY <1>7, <2>1, <2>2 DEF IterBody, SetFeature, IInv, TypeOK, Idx
  <2>4. Encoded'
    BY <1>7, <2>2 DEF IterBody, SetFeature, IInv, TypeOK, Encoded
  <2>5. {Ids[k] : k \in Idx(it + 1)} = {Ids[k] : k \in Idx(it)} \cup {Ids[it]}
    BY <2>1 DEF Idx
  <2>6. Walked'
    BY <1>7, <2>5 DEF IterBody, IInv, Walked, TypeOK
  <2>7. QED
    BY <2>3, <2>4, <2>6 DEF IInv
<1>8. CASE IterEnd
  BY <1>8 DEF IterEnd, IInv, TypeOK, Encoded, Walked
<1>9. CASE NextSlot
  BY <1>9 DEF NextSlot, IInv, TypeOK, Encoded, Walked
<1>10. CASE UNCHANGED vars
  BY <1>10 DEF vars, IInv, TypeOK, Encoded, Walked
<1>11. QED
  BY <1>1, <1>2, <1>3, <1>4, <1>5, <1>6, <1>7, <1>8, <1>9, <1>10 DEF Next

\* fd_features_t keeps its type: every activation slot is a ulong, the
\* iterator points into ids[] or is outside the loop.
THEOREM TypeCorrect == Spec => []TypeOK
<1>1. IInv => TypeOK
  BY DEF IInv
<1>2. QED
  BY <1>1, InitIInv, StepIInv, PTL DEF Spec

\* For every table size, ids[] order and ulong width, as long as the bank's
\* slot stays below ULONG_MAX: FD_FEATURE_ACTIVE_, its offset form and
\* FD_FEATURE_JUST_ACTIVATED_ report exactly the activation history, and
\* a disabled feature is never active.
THEOREM SentinelSound == Spec => []ActiveMeansActivated
<1>1. IInv => ActiveMeansActivated
  <2> SUFFICES ASSUME IInv, NEW i \in AllFeatures
               PROVE  /\ Active(slot, feat, i) <=> (activated[i] # -1 /\ activated[i] <= slot)
                      /\ ActiveOffset(slot, feat, 8 * i) = Active(slot, feat, i)
                      /\ JustActivated(slot, feat, i) <=> activated[i] = slot
    BY DEF ActiveMeansActivated
  <2>1. (8 * i) \div 8 = i
    BY DEF AllFeatures, Idx
  <2>2. CASE activated[i] = -1
    BY <2>1, <2>2, ConstFacts DEF IInv, Encoded, TypeOK, Active, ActiveOffset, JustActivated
  <2>3. CASE activated[i] # -1
    BY <2>1, <2>3, ConstFacts DEF IInv, Encoded, TypeOK, Active, ActiveOffset, JustActivated
  <2>4. QED
    BY <2>2, <2>3
<1>2. QED
  BY <1>1, InitIInv, StepIInv, PTL DEF Spec

\* For every table size and ids[] order, a walk with fd_feature_iter_init,
\* _done and _next has set every feature when it leaves the loop.
THEOREM IterCovers == Spec => IterCoversAll
<1>1. IInv /\ [Next]_vars => (it >= 0 /\ it' = -1 => touched = AllFeatures)
  <2> SUFFICES ASSUME IInv, [Next]_vars, it >= 0, it' = -1
               PROVE  touched = AllFeatures
    OBVIOUS
  <2>0. it \in Int
    BY DEF IInv, TypeOK, Idx
  <2>1. IterEnd
    <3>1. ~UNCHANGED vars
      BY <2>0 DEF vars
    <3>2. ~(DisableAll \/ EnableAll \/ EnableCleanedUp \/ EnableOneOffs \/ SetOne \/ IterInit)
      BY <2>0 DEF DisableAll, EnableAll, EnableCleanedUp, EnableOneOffs, SetOne, IterInit
    <3>3. ~IterBody
      BY <2>0 DEF IterBody
    <3>4. ~NextSlot
      BY <2>0 DEF NextSlot
    <3>5. QED
      BY <3>1, <3>2, <3>3, <3>4 DEF Next
  <2>2. it = FeatureCnt
    BY <2>1, DoneAtEnd DEF IterEnd, IInv, TypeOK, Idx
  <2>3. touched = {IdIndex[k] : k \in Idx(FeatureCnt)}
    BY <2>2, ConstFacts DEF IInv, Walked
  <2>4. QED
    BY <2>3, ConstFacts, FeaturesAssumption DEF AllFeatures
<1>2. QED
  BY <1>1, InitIInv, StepIInv, PTL DEF Spec, IterCoversAll

=============================================================================
