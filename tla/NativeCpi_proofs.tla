---------------------------- MODULE NativeCpi_proofs ----------------------------
(***************************************************************************)
(* Proofs about the native CPI of the system program (NativeCpi) for every *)
(* number of transaction accounts, caller accounts and metas, and every   *)
(* uchar and ushort width.                                                 *)
(***************************************************************************)
EXTENDS NativeCpi, FiniteSetTheorems, WellFoundedInduction, TLAPS

\* The entries instr_info can hold: the junk of the stack or a written one.
InfoRec == [key : Keys \cup {NoKey}, txn_idx : Nat, flags : Flags, dup : {0, 1}]

\* The transaction accounts that are the system program.
SysHits == {i \in DOMAIN txn_keys : txn_keys[i] = SysProg}

\* Shape of the call: the inputs as Init builds them (they never change),
\* and the locals with their C types.
Shape ==
    /\ \E n \in 1 .. MaxTxnAccts, m \in 0 .. MaxInstrAccts, l \in 0 .. MaxMetas :
          /\ txn_keys \in [Idx(n) -> Keys]
          /\ instr \in [Idx(m) -> Idx(n)]
          /\ metas \in [Idx(l) -> [pubkey : Keys, flags : Flags]]
    /\ info \in [Idx(MaxMetas) -> InfoRec]
    /\ seen \in [Idx(MaxInstrAccts) -> {0, 1}]
    /\ j \in Nat
    /\ phase \in {"search", "map", "prepare", "exec", "done"}

\* acc_idx_seen[k] is set exactly when a meta the loop has passed resolved
\* to the caller's account k.
SeenOk ==
    \A k \in DOMAIN seen :
        seen[k] = IF \E i \in Idx(j) : Matches(i) # {} /\ Min(Matches(i)) = k
                    THEN 1 ELSE 0

\* Once the search is done, program_id is what the search computed, and
\* the loop is within the metas, with acc_idx_seen in step with it.
IInv ==
    /\ Shape
    /\ phase # "search" =>
          /\ program_id = IF SysHits = {} THEN UcharMod - 1 ELSE Min(SysHits) % UcharMod
          /\ j <= NMetas
          /\ SeenOk
    /\ MetaMapping

-----------------------------------------------------------------------------
\* FiniteSetsExt's Min of a nonempty set of naturals is its least element:
\* the first index the loops of the code stop at.
LEMMA MinNat ==
    ASSUME NEW S, S \subseteq Nat, S # {}
    PROVE  Min(S) \in S /\ \A y \in S : Min(S) <= y
<1>1. \E x \in S : \A y \in S : ~(<<y, x>> \in OpToRel(<, Nat))
  BY NatLessThanWellFounded, WFMin
<1>2. PICK x \in S : \A y \in S : ~(<<y, x>> \in OpToRel(<, Nat))
  BY <1>1
<1>3. ASSUME NEW y \in S PROVE x <= y
  <2>1. <<y, x>> \in Nat \X Nat
    OBVIOUS
  <2>2. ~(y < x)
    BY <1>2, <2>1 DEF OpToRel
  <2>3. QED
    BY <2>2
<1>4. QED
  BY <1>3 DEF Min

\* acct_metas_len is the number of metas, at most MaxMetas, and the metas
\* are indexed 0 .. acct_metas_len - 1.
LEMMA MetaCount ==
    ASSUME Shape
    PROVE  /\ NMetas \in 0 .. MaxMetas
           /\ DOMAIN metas = Idx(NMetas)
<1>1. PICK l \in 0 .. MaxMetas : metas \in [Idx(l) -> [pubkey : Keys, flags : Flags]]
  BY DEF Shape
<1>2. NMetas = l
  <2>1. Cardinality(0 .. l - 1) = l
    BY FS_Interval, NativeCpiAssumption
  <2>2. QED
    BY <1>1, <2>1 DEF NMetas, Idx
<1>3. QED
  BY <1>1, <1>2

\* The entry the loop writes for meta jj, as MetaMapping states it.
Want(jj) ==
    LET k == Min(Matches(jj))
    IN  [key |-> CallerKey(k), txn_idx |-> instr[k],
         flags |-> metas[jj].flags,
         dup |-> IF \E i \in Idx(jj) : Matches(i) # {} /\ Min(Matches(i)) = k
                   THEN 1 ELSE 0]

LEMMA MetaMappingWant ==
    MetaMapping <=> (phase # "search" => \A jj \in Mapped : info[jj] = Want(jj))
BY DEF MetaMapping, Want

\* The accounts a meta resolves to are accounts of the calling instruction.
LEMMA MatchesInCaller ==
    ASSUME Shape, NEW jj
    PROVE  Matches(jj) \subseteq DOMAIN instr
           /\ DOMAIN instr \subseteq Idx(MaxInstrAccts)
           /\ DOMAIN instr \subseteq Nat
BY NativeCpiAssumption DEF Shape, Matches, Idx

LEMMA InitIInv == Init => IInv
<1> SUFFICES ASSUME Init PROVE IInv
  OBVIOUS
<1>1. \A k \in Keys, s, w \in BOOLEAN :
         CreateAccountMeta(k, s, w) \in [pubkey : Keys, flags : Flags]
  BY DEF CreateAccountMeta, Flags
<1>2. Junk \subseteq InfoRec
  BY DEF Junk, InfoRec, Flags
<1>3. Shape
  <2>1. PICK n \in 1 .. MaxTxnAccts, m \in 0 .. MaxInstrAccts, l \in 0 .. MaxMetas :
          /\ txn_keys \in {f \in [Idx(n) -> Keys] : IsInjective(f)}
          /\ instr \in [Idx(m) -> Idx(n)]
          /\ metas \in [Idx(l) -> {CreateAccountMeta(k, s, w) :
                                      k \in Keys, s \in BOOLEAN, w \in BOOLEAN}]
    BY DEF Init
  <2>2. metas \in [Idx(l) -> [pubkey : Keys, flags : Flags]]
    BY <1>1, <2>1
  <2>3. info \in [Idx(MaxMetas) -> InfoRec]
    BY <1>2 DEF Init
  <2>4. QED
    BY <2>1, <2>2, <2>3 DEF Init, Shape
<1>4. QED
  BY <1>3 DEF Init, IInv, MetaMapping

\* MetaMapping in terms of Want, before and after a step.
LEMMA MetaMappingWantPrime ==
    MetaMapping' <=> (phase' # "search" => \A jj \in Mapped' : info'[jj] = Want(jj)')
BY DEF MetaMapping, Want

\* Steps that leave the inputs, program_id, the loop and instr_info alone.
LEMMA QuietStep ==
    ASSUME IInv, phase # "search",
           UNCHANGED <<txn_keys, instr, metas, program_id, acct_cnt, info, seen, j>>,
           phase' \in {"search", "map", "prepare", "exec", "done"}, phase' # "search"
    PROVE  IInv'
<1>1. \A i : Matches(i)' = Matches(i)
  BY DEF Matches, CallerKey
<1>2. Mapped' = Mapped
  BY <1>1 DEF Mapped
<1>3. \A jj : Want(jj)' = Want(jj)
  BY <1>1 DEF Want, CallerKey
<1>4. MetaMapping'
  BY <1>2, <1>3, MetaMappingWant, MetaMappingWantPrime DEF IInv
<1>5. SeenOk'
  BY <1>1 DEF IInv, SeenOk
<1>6. SysHits' = SysHits /\ NMetas' = NMetas
  BY DEF SysHits, NMetas
<1>7. Shape'
  BY DEF IInv, Shape
<1>8. QED
  BY <1>4, <1>5, <1>6, <1>7 DEF IInv

LEMMA SearchIInv ==
    ASSUME IInv, Search PROVE IInv'
<1>1. Shape
  BY DEF IInv
<1>2. Shape'
  BY <1>1 DEF Search, Shape
<1>3. NMetas \in Nat
  BY <1>1, MetaCount
<1>4. SeenOk'
  BY <1>1 DEF Search, SeenOk, Shape, Idx
<1>5. MetaMapping'
  BY DEF Search, MetaMapping, Mapped, Idx
<1>6. QED
  BY <1>2, <1>3, <1>4, <1>5 DEF Search, IInv, SysHits, NMetas

\* One pass of the loop writes the entry of meta j as MetaMapping asks,
\* and keeps acc_idx_seen in step: it reads acc_idx_seen[k] for the
\* is_duplicate flag before it sets it.
LEMMA MapMetaIInv ==
    ASSUME IInv, MapMeta PROVE IInv'
<1>0. /\ Shape /\ SeenOk /\ MetaMapping
      /\ program_id = IF SysHits = {} THEN UcharMod - 1 ELSE Min(SysHits) % UcharMod
      /\ phase = "map" /\ j < NMetas
  BY DEF IInv, MapMeta
<1>1. /\ NMetas \in 0 .. MaxMetas /\ DOMAIN metas = Idx(NMetas)
      /\ j \in Idx(NMetas) /\ j \in DOMAIN info
  <2>1. NMetas \in 0 .. MaxMetas /\ DOMAIN metas = Idx(NMetas)
    BY <1>0, MetaCount
  <2>2. DOMAIN info = Idx(MaxMetas)
    BY <1>0 DEF Shape
  <2>3. QED
    BY <1>0, <2>1, <2>2, NativeCpiAssumption DEF Shape, Idx
<1>2. /\ \A i : Matches(i)' = Matches(i)
      /\ \A jj : Want(jj)' = Want(jj)
      /\ SysHits' = SysHits /\ NMetas' = NMetas
      /\ j' = j + 1 /\ phase' = "map" /\ program_id' = program_id
  BY DEF MapMeta, Matches, Want, CallerKey, SysHits, NMetas
<1>3. Mapped' = Mapped \cup (IF Matches(j) = {} THEN {} ELSE {j})
  BY <1>0, <1>2 DEF Mapped, Idx, Shape
<1>4. CASE Matches(j) = {}
  <2>1. info' = info /\ seen' = seen
    BY <1>4 DEF MapMeta
  <2>2. Shape'
    BY <1>0, <1>2, <2>1 DEF MapMeta, Shape
  <2>3. SeenOk'
    BY <1>0, <1>2, <1>4, <2>1 DEF SeenOk, Idx, Shape
  <2>4. MetaMapping'
    BY <1>0, <1>2, <1>3, <1>4, <2>1, MetaMappingWant, MetaMappingWantPrime
  <2>5. QED
    BY <1>0, <1>1, <1>2, <2>2, <2>3, <2>4 DEF IInv, Idx
<1>5. CASE Matches(j) # {}
  <2> DEFINE k == Min(Matches(j))
  <2>1. k \in Matches(j) /\ k \in DOMAIN instr /\ k \in DOMAIN seen
    BY <1>0, <1>5, MinNat, MatchesInCaller DEF Shape
  <2>2. /\ info' = [info EXCEPT ![j] = Want(j)]
        /\ seen' = [seen EXCEPT ![k] = 1]
    <3>1. seen[k] = IF \E i \in Idx(j) : Matches(i) # {} /\ Min(Matches(i)) = k
                      THEN 1 ELSE 0
      BY <1>0, <2>1 DEF SeenOk
    <3>2. /\ info' = [info EXCEPT ![j] =
                          [key |-> CallerKey(k), txn_idx |-> instr[k],
                           flags |-> metas[j].flags, dup |-> seen[k]]]
          /\ seen' = [seen EXCEPT ![k] = 1]
      BY <1>5 DEF MapMeta
    <3>3. Want(j) = [key |-> CallerKey(k), txn_idx |-> instr[k],
                     flags |-> metas[j].flags, dup |-> seen[k]]
      BY <3>1 DEF Want
    <3>4. QED
      BY <3>2, <3>3
  <2>3. Want(j) \in InfoRec
    <3>1. PICK n \in 1 .. MaxTxnAccts, m \in 0 .. MaxInstrAccts, l \in 0 .. MaxMetas :
            /\ txn_keys \in [Idx(n) -> Keys]
            /\ instr \in [Idx(m) -> Idx(n)]
            /\ metas \in [Idx(l) -> [pubkey : Keys, flags : Flags]]
      BY <1>0 DEF Shape
    <3>2. instr[k] \in Idx(n) /\ CallerKey(k) \in Keys
      BY <2>1, <3>1 DEF CallerKey
    <3>3. metas[j].flags \in Flags
      BY <1>1, <3>1
    <3>4. Min(Matches(j)) = k /\ seen[k] \in {0, 1}
      BY <1>0, <2>1 DEF Shape
    <3>5. QED
      BY <2>2, <3>2, <3>3, <3>4 DEF Want, InfoRec, Idx
  <2>4. Shape'
    <3>1. UNCHANGED <<txn_keys, instr, metas>>
      BY DEF MapMeta
    <3>2. info' \in [Idx(MaxMetas) -> InfoRec]
      BY <1>0, <1>1, <2>2, <2>3 DEF Shape
    <3>3. seen' \in [Idx(MaxInstrAccts) -> {0, 1}]
      BY <1>0, <2>2 DEF Shape
    <3>4. QED
      BY <1>0, <1>2, <3>1, <3>2, <3>3 DEF Shape
  <2>5. SeenOk'
    <3> SUFFICES ASSUME NEW k0 \in DOMAIN seen'
                 PROVE  seen'[k0] = IF \E i \in Idx(j + 1) : Matches(i) # {} /\ Min(Matches(i)) = k0
                                      THEN 1 ELSE 0
      BY <1>2 DEF SeenOk
    <3>1. Idx(j + 1) = Idx(j) \cup {j}
      BY <1>0 DEF Shape, Idx
    <3>2. CASE k0 = k
      BY <1>5, <2>1, <2>2, <3>1, <3>2 DEF Shape
    <3>3. CASE k0 # k
      BY <1>0, <2>2, <3>1, <3>3 DEF SeenOk, Shape
    <3>4. QED
      BY <3>2, <3>3
  <2>6. MetaMapping'
    <3> SUFFICES ASSUME NEW jj \in Mapped' PROVE info'[jj] = Want(jj)
      BY <1>2, MetaMappingWantPrime
    <3>1. CASE jj = j
      BY <1>1, <1>2, <2>2, <3>1
    <3>2. CASE jj # j
      <4>1. jj \in Mapped
        BY <1>3, <3>2
      <4>2. info'[jj] = info[jj]
        BY <2>2, <3>2
      <4>3. QED
        BY <1>0, <1>2, <4>1, <4>2, MetaMappingWant
    <3>3. QED
      BY <3>1, <3>2
  <2>7. QED
    BY <1>0, <1>1, <1>2, <2>4, <2>5, <2>6 DEF IInv, Idx
<1>6. QED
  BY <1>4, <1>5

LEMMA StepIInv == IInv /\ [Next]_vars => IInv'
<1> SUFFICES ASSUME IInv, [Next]_vars PROVE IInv'
  OBVIOUS
<1>1. CASE Search
  BY <1>1, SearchIInv
<1>2. CASE MapMeta
  BY <1>2, MapMetaIInv
<1>3. CASE Encode
  BY <1>3, QuietStep DEF Encode
<1>4. CASE Prepare
  BY <1>4, QuietStep DEF Prepare
<1>5. CASE Execute
  BY <1>5, QuietStep DEF Execute
<1>6. CASE UNCHANGED vars
  <2>1. \A i : Matches(i)' = Matches(i)
    BY <1>6 DEF vars, Matches, CallerKey
  <2>2. Mapped' = Mapped /\ \A jj : Want(jj)' = Want(jj)
    BY <1>6, <2>1 DEF vars, Mapped, Want, CallerKey
  <2>3. MetaMapping'
    BY <1>6, <2>2, MetaMappingWant, MetaMappingWantPrime DEF vars, IInv
  <2>4. phase # "search" => SeenOk'
    <3>1. seen' = seen /\ j' = j
      BY <1>6 DEF vars
    <3>2. QED
      BY <2>1, <3>1 DEF IInv, SeenOk
  <2>5. SysHits' = SysHits /\ NMetas' = NMetas /\ Shape'
    BY <1>6 DEF vars, SysHits, NMetas, IInv, Shape
  <2>6. QED
    BY <1>6, <2>3, <2>4, <2>5 DEF vars, IInv
<1>7. QED
  BY <1>1, <1>2, <1>3, <1>4, <1>5, <1>6 DEF Next

\* For every number of metas and every calling instruction: each instr_info
\* entry that fd_native_cpi_execute_system_program_instruction writes is
\* the first caller account with the meta's pubkey, carries the meta's
\* flags, and is marked a duplicate exactly when an earlier meta resolved
\* to the same account (acc_idx_seen is read before it is set).
THEOREM MetaMappingHolds == Spec => []MetaMapping
<1>1. IInv => MetaMapping
  BY DEF IInv
<1>2. QED
  BY <1>1, InitIInv, StepIInv, PTL DEF Spec

=============================================================================
