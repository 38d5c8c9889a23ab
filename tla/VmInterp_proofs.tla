-------------------------- MODULE VmInterp_proofs ---------------------------
(***************************************************************************)
(* Proofs about the sBPF interpreter model (VmInterp) for every program,   *)
(* budget, memory map and syscall table the assumptions allow.            *)
(***************************************************************************)
EXTENDS VmInterp, TLAPS

\* The facts about the constants the proofs below use.
LEMMA ConstFacts ==
    /\ Span \in Nat /\ GuardSz \in Nat /\ FrameSz \in Nat /\ HeapMax \in Nat
    /\ FrameMax \in Nat \ {0} /\ EntryCU \in Nat /\ RegMod \in Nat \ {0}
    /\ EntryPc \in TextIdx /\ Programs \subseteq [TextIdx -> Instr]
    /\ LoadVals \subseteq Nat /\ MaxSyscallCU \in Nat /\ AllocSizes \subseteq Nat
BY MemoryAssumption, InterpAssumption

\* The fetched instruction is a well-formed instruction word.
LEMMA FetchedInstr ==
    ASSUME TypeOK, pc \in TextIdx
    PROVE  /\ I \in Instr
           /\ I.dst \in {0, 6} /\ I.src \in Regs
           /\ I.off \in Int /\ I.imm \in Int /\ I.sz \in Widths
BY DEF TypeOK, I, Instr

\* Frame pointers and strides are integers.
LEMMA FpFacts ==
    /\ Stride \in Nat
    /\ \A n \in Int : FpOf(n) \in Int
    /\ \A n \in Int : FpOf(n) + Stride = FpOf(n + 1)
BY ConstFacts DEF Stride, FpOf, RegionStart

\* The start of the next heap block is aligned, not below heap_sz, and
\* an integer.
LEMMA AlignUpFacts ==
    ASSUME NEW x \in Nat
    PROVE  /\ AlignUp(x, HeapAlign) \in Nat
           /\ AlignUp(x, HeapAlign) >= x
           /\ AlignUp(x, HeapAlign) % HeapAlign = 0
<1>1. CASE CheckAlign
  <2>1. HeapAlign = 8
    BY ConstFacts, <1>1 DEF HeapAlign
  <2>2. QED
    BY ConstFacts, <2>1 DEF AlignUp
<1>2. CASE ~CheckAlign
  <2>1. HeapAlign = 1
    BY ConstFacts, <1>2 DEF HeapAlign
  <2>2. QED
    BY ConstFacts, <2>1 DEF AlignUp
<1>3. QED
  BY ConstFacts, <1>1, <1>2

\* Writing an integer into a register keeps the register file typed.
LEMMA RegWrite ==
    ASSUME NEW rf \in [Regs -> Int], NEW r \in Regs, NEW v \in Int
    PROVE  [rf EXCEPT ![r] = v] \in [Regs -> Int]
OBVIOUS

-----------------------------------------------------------------------------
\* Every step of fd_vm_exec keeps each field in its documented range: cu
\* never goes negative, frame_cnt stays within [0, frame_max], heap_sz
\* within [0, heap_max] (fd_vm.h lines 126-131).
LEMMA TypeStep == TypeOK /\ [Next]_vars => TypeOK'
<1> SUFFICES ASSUME TypeOK, [Next]_vars PROVE TypeOK'
  OBVIOUS
<1>1. CASE SigText \/ SigSplit
  BY ConstFacts, <1>1 DEF SigText, SigSplit, Fault, TypeOK, Status, Faults
<1>2. CASE SigCost
  BY ConstFacts, <1>2 DEF SigCost, TypeOK, Status, Faults
<1>3. CASE Illegal
  BY ConstFacts, <1>3 DEF Illegal, Fetch, Fault, TypeOK, Status, Faults
<1>4. CASE Alu
  <2>1. pc \in TextIdx /\ cu >= 1
    BY ConstFacts, <1>4 DEF Alu, Fetch
  <2>2. I.dst \in {0, 6} /\ I.imm \in Int
    BY ConstFacts, <2>1, FetchedInstr
  <2>3. reg' \in [Regs -> Int]
    BY ConstFacts, <1>4, <2>2, RegWrite DEF Alu, TypeOK, Regs
  <2>4. QED
    BY ConstFacts, <1>4, <2>1, <2>3 DEF Alu, Charge, TypeOK
<1>5. CASE Lddw
  <2>1. pc \in TextIdx /\ cu >= 1
    BY ConstFacts, <1>5 DEF Lddw, Fetch
  <2>2. I.dst \in {0, 6} /\ I.imm \in Int
    BY ConstFacts, <2>1, FetchedInstr
  <2>3. reg' \in [Regs -> Int]
    BY ConstFacts, <1>5, <2>2, RegWrite DEF Lddw, TypeOK, Regs
  <2>4. QED
    BY ConstFacts, <1>5, <2>1, <2>3 DEF Lddw, Charge, TypeOK
<1>6. CASE LddwSplit
  BY ConstFacts, <1>6 DEF LddwSplit, Fetch, Fault, TypeOK, Status, Faults
<1>7. CASE Jump
  <2>1. pc \in TextIdx /\ cu >= 1
    BY ConstFacts, <1>7 DEF Jump, Fetch
  <2>2. I.off \in Int
    BY ConstFacts, <2>1, FetchedInstr
  <2>3. QED
    BY ConstFacts, <1>7, <2>1, <2>2 DEF Jump, Charge, TypeOK
<1>8. CASE CallOverflow
  <2>1. pc \in TextIdx /\ cu >= 1
    BY ConstFacts, <1>8 DEF CallOverflow, Fetch
  <2>2. QED
    BY ConstFacts, <1>8, <2>1 DEF CallOverflow, Charge, TypeOK, Status, Faults
<1>9. CASE Call
  <2>1. pc \in TextIdx /\ cu >= 1 /\ frame_cnt < FrameMax /\ I.op \in CallOps
    BY ConstFacts, <1>9 DEF Call, Fetch
  <2>2. I \in Instr
    BY ConstFacts, <2>1, FetchedInstr
  <2>3. CallTarget \in Int
    BY ConstFacts, <2>1, <2>2 DEF CallTarget, TypeOK, Instr, CallOps
  <2>4. [r6 |-> reg[6], r10 |-> reg[10], pc |-> pc + 1] \in Shadow
    BY ConstFacts, <2>1 DEF TypeOK, Shadow, Regs
  <2>5. /\ reg' = [reg EXCEPT ![10] = reg[10] + Stride]
        /\ pc' = CallTarget
        /\ frame_cnt' = frame_cnt + 1
    BY <1>9 DEF Call
  <2>9. reg[10] + Stride \in Int
    BY ConstFacts, FpFacts DEF TypeOK, Regs
  <2>10. reg' \in [Regs -> Int]
    BY <2>5, <2>9, RegWrite DEF TypeOK, Regs
  <2>6. shadow' \in [0 .. FrameMax - 1 -> Shadow]
    BY ConstFacts, <1>9, <2>1, <2>4 DEF Call, TypeOK
  <2>7. status' \in Status
    BY ConstFacts, <1>9 DEF Call, Status, Faults
  <2>8. QED
    <3>1. Charge /\ UNCHANGED <<text, heap_sz, segv_vaddr, segv_access_type, blocks>>
      BY <1>9 DEF Call
    <3>2. QED
      BY ConstFacts, <2>1, <2>3, <2>5, <2>6, <2>7, <2>10, <3>1 DEF Charge, TypeOK
<1>10. CASE ExitHalt
  BY ConstFacts, <1>10 DEF ExitHalt, Fetch, Charge, TypeOK, Status
<1>11. CASE ExitPop
  <2>1. pc \in TextIdx /\ cu >= 1 /\ frame_cnt > 0
    BY ConstFacts, <1>11 DEF ExitPop, Fetch
  <2>2. shadow[frame_cnt - 1] \in Shadow
    BY ConstFacts, <2>1 DEF TypeOK
  <2>3. reg' \in [Regs -> Int]
    BY ConstFacts, <1>11, <2>2, RegWrite DEF ExitPop, TypeOK, Shadow, Regs
  <2>4. pc' \in Int
    BY ConstFacts, <1>11, <2>2 DEF ExitPop, Shadow
  <2>5. QED
    BY ConstFacts, <1>11, <2>1, <2>3, <2>4 DEF ExitPop, Charge, TypeOK
<1>12. CASE MemAccess
  <2>1. pc \in TextIdx /\ cu >= 1
    BY ConstFacts, <1>12 DEF MemAccess, Fetch
  <2>2. I.dst \in {0, 6}
    BY ConstFacts, <2>1, FetchedInstr
  <2>3. reg' \in [Regs -> Int]
    BY ConstFacts, <1>12, <2>2, RegWrite DEF MemAccess, TypeOK, Regs
  <2>4. QED
    BY ConstFacts, <1>12, <2>1, <2>3 DEF MemAccess, Charge, TypeOK
<1>13. CASE MemFault
  <2>1. pc \in TextIdx
    BY ConstFacts, <1>13 DEF MemFault, Fetch
  <2>2. I.src \in Regs /\ I.off \in Int
    BY ConstFacts, <2>1, FetchedInstr
  <2>3. MemAddr \in Int /\ MemKind \in Kinds
    BY ConstFacts, <2>2 DEF MemAddr, MemKind, TypeOK, Kinds
  <2>4. QED
    BY ConstFacts, <1>13, <2>3 DEF MemFault, TypeOK, Status, Faults
<1>14. CASE SyscallUnknown
  BY ConstFacts, <1>14 DEF SyscallUnknown, Fetch, Fault, TypeOK, Status, Faults
<1>15. CASE Syscall
  <2>1. pc \in TextIdx /\ cu >= 1
    BY ConstFacts, <1>15 DEF Syscall, Fetch
  <2>2. PICK c \in 0 .. MaxSyscallCU :
          \/ /\ c <= cu - 1
             /\ \E r \in LoadVals : reg' = [reg EXCEPT ![0] = r]
             /\ pc' = pc + 1
             /\ cu' = cu - 1 - c
             /\ UNCHANGED status
          \/ /\ c <= cu - 1
             /\ status' = "SIGSYSCALL"
             /\ cu' = cu - 1 - c
             /\ UNCHANGED <<pc, reg>>
          \/ /\ c > cu - 1
             /\ status' = "SIGCOST"
             /\ cu' = 0
             /\ UNCHANGED <<pc, reg>>
    BY ConstFacts, <1>15 DEF Syscall
  <2>3. reg' \in [Regs -> Int] /\ pc' \in Int /\ cu' \in 0 .. EntryCU /\ status' \in Status
    BY ConstFacts, <2>2, RegWrite DEF TypeOK, Regs, Status, Faults
  <2>4. QED
    BY ConstFacts, <1>15, <2>3 DEF Syscall, TypeOK
<1>16. CASE AllocFree
  <2>1. pc \in TextIdx /\ cu >= 1
    BY ConstFacts, <1>16 DEF AllocFree, Fetch
  <2>2. AlignUp(heap_sz, HeapAlign) \in Nat
    BY ConstFacts, AlignUpFacts DEF TypeOK
  <2> DEFINE start == AlignUp(heap_sz, HeapAlign)
  <2>3. PICK sz \in AllocSizes, free \in BOOLEAN :
          IF free \/ start + sz > HeapMax
            THEN /\ reg' = [reg EXCEPT ![0] = 0]
                 /\ UNCHANGED <<heap_sz, blocks>>
            ELSE /\ reg' = [reg EXCEPT ![0] = RegionStart(3) + start]
                 /\ heap_sz' = start + sz
                 /\ blocks' = blocks \cup {[addr |-> RegionStart(3) + start, sz |-> sz]}
    BY <1>16 DEF AllocFree, start
  <2>6. sz \in Nat /\ RegionStart(3) + start \in Int
    BY ConstFacts, <2>2 DEF RegionStart, start
  <2>4. reg' \in [Regs -> Int] /\ heap_sz' \in 0 .. HeapMax
        /\ blocks' \subseteq [addr : Int, sz : Nat]
    <3>1. CASE free \/ start + sz > HeapMax
      BY <2>3, <3>1, RegWrite DEF TypeOK, Regs
    <3>2. CASE ~(free \/ start + sz > HeapMax)
      <4>1. heap_sz' = start + sz
        BY <2>3, <3>2, Zenon
      <4>2. start + sz <= HeapMax
        BY <3>2, <2>2, <2>6, ConstFacts
      <4>3. heap_sz' = start + sz /\ start + sz <= HeapMax
        BY <4>1, <4>2
      <4>4. reg' = [reg EXCEPT ![0] = RegionStart(3) + start]
        BY <2>3, <3>2, Zenon
      <4>5. blocks' = blocks \cup {[addr |-> RegionStart(3) + start, sz |-> sz]}
        BY <2>3, <3>2, Zenon
      <4>6. QED
        BY ConstFacts, <2>2, <2>6, <4>3, <4>4, <4>5, RegWrite DEF TypeOK, Regs
    <3>7. QED
      BY <3>1, <3>2
  <2>5. QED
    BY ConstFacts, <1>16, <2>1, <2>4 DEF AllocFree, Charge, TypeOK
<1>17. CASE UNCHANGED vars
  BY ConstFacts, <1>17 DEF vars, TypeOK
<1>18. QED
  BY ConstFacts, <1>1, <1>2, <1>3, <1>4, <1>5, <1>6, <1>7, <1>8, <1>9, <1>10, <1>11,
     <1>12, <1>13, <1>14, <1>15, <1>16, <1>17 DEF Next

\* fd_vm_exec keeps every field of the vm in its type and range.
THEOREM TypeCorrect == Spec => []TypeOK
<1>1. Init => TypeOK
  <2> SUFFICES ASSUME Init PROVE TypeOK
    OBVIOUS
  <2>1. reg \in [Regs -> Int]
    <3>1. PICK r0, r6 \in LoadVals :
            reg = [r \in Regs |-> CASE r = 0  -> r0
                                    [] r = 1  -> RegionStart(4)
                                    [] r = 6  -> r6
                                    [] r = 10 -> FpOf(0)]
      BY DEF Init
    <3>2. r0 \in Int /\ r6 \in Int /\ RegionStart(4) \in Int /\ FpOf(0) \in Int
      BY ConstFacts, FpFacts DEF RegionStart
    <3>3. QED
      BY <3>1, <3>2 DEF Regs
  <2>2. shadow \in [0 .. FrameMax - 1 -> Shadow]
    BY ConstFacts DEF Init, Shadow, NoFrame
  <2>3. QED
    <3>1. text \in [TextIdx -> Instr]
      BY ConstFacts DEF Init
    <3>2. pc \in Int /\ ic \in Nat /\ cu \in 0 .. EntryCU /\ frame_cnt \in 0 .. FrameMax
      BY ConstFacts DEF Init, TextIdx
    <3>3. heap_sz \in 0 .. HeapMax /\ segv_vaddr \in Int /\ blocks = {}
      BY ConstFacts DEF Init
    <3>4. status \in Status /\ segv_access_type \in Kinds \cup {"none"}
      BY DEF Init, Status
    <3>5. QED
      BY <2>1, <2>2, <3>1, <3>2, <3>3, <3>4 DEF TypeOK
<1>2. QED
  BY <1>1, TypeStep, PTL DEF Spec

-----------------------------------------------------------------------------
(***************************************************************************)
(* The shadow stack.  FrameDiscipline is inductive together with TypeOK:  *)
(* a call saves the current frame pointer, which is that of its depth, and *)
(* the word after the call; an exit restores the top frame's pointer,      *)
(* which is that of the depth below; every other step leaves r10, the      *)
(* depth, the shadow stack and the text alone.                             *)
(***************************************************************************)
\* A step that leaves r10, frame_cnt, shadow and text alone keeps the
\* call/return discipline.
LEMMA FrameUntouched ==
    ASSUME FrameDiscipline,
           reg'[10] = reg[10], frame_cnt' = frame_cnt,
           shadow' = shadow, text' = text
    PROVE  FrameDiscipline'
BY DEF FrameDiscipline

\* fd_vm_exec keeps the shadow stack in step with r10 and the text: every
\* pushed frame holds the frame pointer of its depth and returns to the
\* word after a call (fd_vm.h lines 199-204, 366-386).
THEOREM FrameDisciplineHolds == Spec => []FrameDiscipline
<1>1. Init => FrameDiscipline
  <2> SUFFICES ASSUME Init PROVE FrameDiscipline
    OBVIOUS
  <2>1. reg[10] = FpOf(0) /\ frame_cnt = 0
    BY DEF Init, Regs
  <2>2. QED
    BY <2>1 DEF FrameDiscipline
<1>2. TypeOK /\ TypeOK' /\ FrameDiscipline /\ [Next]_vars => FrameDiscipline'
  <2> SUFFICES ASSUME TypeOK, TypeOK', FrameDiscipline, [Next]_vars
               PROVE  FrameDiscipline'
    OBVIOUS
  \* The actions that write at most r0 or r6.
  <2>1. ASSUME NEW d \in {0, 6}, NEW v, reg' = [reg EXCEPT ![d] = v]
        PROVE  reg'[10] = reg[10]
    BY <2>1 DEF TypeOK
  <2>2. CASE SigText \/ SigSplit \/ SigCost \/ Illegal \/ LddwSplit \/ CallOverflow
             \/ ExitHalt \/ MemFault \/ SyscallUnknown \/ Jump
    <3>1. CASE SigText \/ SigSplit \/ SigCost \/ Illegal \/ LddwSplit
      BY <3>1, FrameUntouched DEF SigText, SigSplit, SigCost, Illegal, LddwSplit, Fault
    <3>2. CASE CallOverflow \/ ExitHalt \/ MemFault \/ SyscallUnknown \/ Jump
      BY <3>2, FrameUntouched DEF CallOverflow, ExitHalt, MemFault, SyscallUnknown, Jump, Fault
    <3>3. QED
      BY <2>2, <3>1, <3>2
  <2>3. CASE Alu \/ Lddw
    <3>1. pc \in TextIdx
      BY <2>3 DEF Alu, Lddw, Fetch
    <3>2. I.dst \in {0, 6}
      BY <3>1, FetchedInstr
    <3>3. reg'[10] = reg[10]
      BY <2>1, <2>3, <3>2 DEF Alu, Lddw
    <3>4. QED
      BY <2>3, <3>3, FrameUntouched DEF Alu, Lddw
  <2>4. CASE MemAccess
    <3>1. pc \in TextIdx
      BY <2>4 DEF MemAccess, Fetch
    <3>2. I.dst \in {0, 6}
      BY <3>1, FetchedInstr
    <3>3. reg'[10] = reg[10]
      BY <2>1, <2>4, <3>2 DEF MemAccess
    <3>4. QED
      BY <2>4, <3>3, FrameUntouched DEF MemAccess
  <2>5. CASE Syscall
    <3>1. reg'[10] = reg[10]
      BY <2>1, <2>5 DEF Syscall
    <3>2. QED
      BY <2>5, <3>1, FrameUntouched DEF Syscall
  <2>6. CASE AllocFree
    <3>1. reg'[10] = reg[10]
      BY <2>1, <2>6 DEF AllocFree
    <3>2. QED
      BY <2>6, <3>1, FrameUntouched DEF AllocFree
  <2>7. CASE Call
    <3>1. pc \in TextIdx /\ frame_cnt < FrameMax /\ I.op \in CallOps
      BY <2>7 DEF Call, Fetch
    <3>2. /\ reg' = [reg EXCEPT ![10] = reg[10] + Stride]
          /\ frame_cnt' = frame_cnt + 1
          /\ shadow' = [shadow EXCEPT ![frame_cnt] =
                           [r6 |-> reg[6], r10 |-> reg[10], pc |-> pc + 1]]
          /\ text' = text
      BY <2>7 DEF Call
    <3>3. reg'[10] = FpOf(frame_cnt')
      BY <3>2, ConstFacts, FpFacts DEF TypeOK, Regs, FrameDiscipline
    <3>4. ASSUME NEW i \in 0 .. frame_cnt' - 1
          PROVE  /\ shadow'[i].r10 = FpOf(i)
                 /\ shadow'[i].pc - 1 \in TextIdx
                 /\ text'[shadow'[i].pc - 1].op \in CallOps
      <4>1. frame_cnt \in 0 .. FrameMax - 1
        BY <3>1, ConstFacts DEF TypeOK
      <4>2. CASE i = frame_cnt
        <5>1. shadow'[i] = [r6 |-> reg[6], r10 |-> reg[10], pc |-> pc + 1]
          BY <3>2, <4>1, <4>2 DEF TypeOK
        <5>3. shadow'[i].r10 = FpOf(i)
          BY <4>2, <5>1 DEF FrameDiscipline
        <5>4. shadow'[i].pc = pc + 1
          BY <5>1
        <5>7. shadow'[i].pc - 1 = pc
          BY <5>4 DEF TypeOK
        <5>5. text'[pc].op \in CallOps
          BY <3>1, <3>2 DEF I
        <5>6. QED
          BY <3>1, <5>3, <5>7, <5>5
      <4>3. CASE i # frame_cnt
        <5>1. i \in 0 .. frame_cnt - 1
          BY <3>2, <4>3 DEF TypeOK
        <5>2. shadow'[i] = shadow[i]
          BY <3>2, <4>1, <5>1 DEF TypeOK
        <5>3. QED
          BY <3>2, <5>1, <5>2 DEF FrameDiscipline
      <4>4. QED
        BY <4>2, <4>3
    <3>5. QED
      BY <3>3, <3>4 DEF FrameDiscipline
  <2>8. CASE ExitPop
    <3>1. frame_cnt > 0
      BY <2>8 DEF ExitPop, Fetch
    <3>2. /\ reg' = [reg EXCEPT ![6] = shadow[frame_cnt - 1].r6,
                                ![10] = shadow[frame_cnt - 1].r10]
          /\ frame_cnt' = frame_cnt - 1
          /\ shadow' = shadow /\ text' = text
      BY <2>8 DEF ExitPop
    <3>3. reg'[10] = shadow[frame_cnt - 1].r10
      BY <3>2 DEF TypeOK, Regs
    <3>4. frame_cnt - 1 \in 0 .. frame_cnt - 1
      BY <3>1 DEF TypeOK
    <3>5. reg'[10] = FpOf(frame_cnt')
      BY <3>2, <3>3, <3>4 DEF FrameDiscipline
    <3>6. \A i \in 0 .. frame_cnt' - 1 : i \in 0 .. frame_cnt - 1
      BY <3>1, <3>2 DEF TypeOK
    <3>7. QED
      BY <3>2, <3>5, <3>6 DEF FrameDiscipline
  <2>9. CASE UNCHANGED vars
    BY <2>9, FrameUntouched DEF vars
  <2>10. QED
    BY <2>2, <2>3, <2>4, <2>5, <2>6, <2>7, <2>8, <2>9 DEF Next
<1>3. QED
  BY <1>1, <1>2, TypeCorrect, PTL DEF Spec

-----------------------------------------------------------------------------
\* The heap region starts 8-byte aligned, so an aligned heap offset is an
\* aligned address.
LEMMA HeapStartAligned ==
    ASSUME NEW x \in Nat, x % HeapAlign = 0
    PROVE  (RegionStart(3) + x) % HeapAlign = 0
<1>1. Span \in Nat /\ Span % 8 = 0
  BY MemoryAssumption
<1>2. CASE CheckAlign
  BY <1>1, <1>2 DEF HeapAlign, RegionStart
<1>3. CASE ~CheckAlign
  BY <1>1, <1>3 DEF HeapAlign, RegionStart
<1>4. QED
  BY <1>2, <1>3

\* Only sol_alloc_free_ moves heap_sz or hands out a block.
LEMMA HeapUntouched ==
    ASSUME [Next]_vars, ~AllocFree
    PROVE  UNCHANGED <<heap_sz, blocks>>
<1>1. CASE SigText \/ SigSplit \/ SigCost \/ Illegal \/ Alu \/ Lddw \/ LddwSplit \/ Jump
  BY <1>1 DEF SigText, SigSplit, SigCost, Illegal, Alu, Lddw, LddwSplit, Jump, Fault
<1>2. CASE CallOverflow \/ Call \/ ExitHalt \/ ExitPop
  BY <1>2 DEF CallOverflow, Call, ExitHalt, ExitPop, Fault
<1>3. CASE MemAccess \/ MemFault \/ SyscallUnknown \/ Syscall
  BY <1>3 DEF MemAccess, MemFault, SyscallUnknown, Syscall, Fault
<1>4. CASE UNCHANGED vars
  BY <1>4 DEF vars
<1>5. QED
  BY <1>1, <1>2, <1>3, <1>4 DEF Next

\* With every field typed, the heap discipline is inductive: each block
\* ends at or below heap_sz, and the next block starts at heap_sz
\* aligned up, so it is past every earlier one.
LEMMA HeapStep ==
    ASSUME TypeOK, HeapBlocksDisjoint, [Next]_vars
    PROVE  HeapBlocksDisjoint'
<1>1. CASE ~AllocFree
  BY <1>1, HeapUntouched DEF HeapBlocksDisjoint
<1>2. CASE AllocFree
  <2> DEFINE start == AlignUp(heap_sz, HeapAlign)
  <2>1. heap_sz \in Nat /\ start \in Nat /\ start >= heap_sz /\ start % HeapAlign = 0
    BY ConstFacts, AlignUpFacts DEF TypeOK
  <2>2. PICK sz \in AllocSizes, free \in BOOLEAN :
          IF free \/ start + sz > HeapMax
            THEN /\ reg' = [reg EXCEPT ![0] = 0]
                 /\ UNCHANGED <<heap_sz, blocks>>
            ELSE /\ reg' = [reg EXCEPT ![0] = RegionStart(3) + start]
                 /\ heap_sz' = start + sz
                 /\ blocks' = blocks \cup {[addr |-> RegionStart(3) + start, sz |-> sz]}
    BY <1>2 DEF AllocFree, start
  <2>3. CASE free \/ start + sz > HeapMax
    <3>1. UNCHANGED <<heap_sz, blocks>>
      BY <2>2, <2>3, Zenon
    <3>2. QED
      BY <3>1 DEF HeapBlocksDisjoint
  <2>4. CASE ~(free \/ start + sz > HeapMax)
    <3> DEFINE nb == [addr |-> RegionStart(3) + start, sz |-> sz]
    <3>1. heap_sz' = start + sz /\ blocks' = blocks \cup {nb}
      BY <2>2, <2>4, Zenon
    <3>2. sz \in Nat /\ Span \in Nat
      BY ConstFacts
    <3>3. nb.addr % HeapAlign = 0
      BY <2>1, HeapStartAligned
    <3>4. \A b \in blocks : b.addr + b.sz <= nb.addr /\ b.addr \in Int /\ b.sz \in Nat
      BY <2>1, <3>2 DEF HeapBlocksDisjoint, TypeOK, RegionStart
    <3>5. \A b \in blocks' :
             /\ b.addr % HeapAlign = 0
             /\ RegionStart(3) <= b.addr
             /\ b.addr + b.sz <= RegionStart(3) + heap_sz'
      BY <2>1, <3>1, <3>2, <3>3 DEF HeapBlocksDisjoint, TypeOK, RegionStart
    <3>6. \A b1, b2 \in blocks' :
             b1 # b2 => b1.addr + b1.sz <= b2.addr \/ b2.addr + b2.sz <= b1.addr
      BY <3>1, <3>4 DEF HeapBlocksDisjoint
    <3>7. QED
      BY <3>5, <3>6 DEF HeapBlocksDisjoint
  <2>5. QED
    BY <2>3, <2>4
<1>3. QED
  BY <1>1, <1>2

\* For every program, heap size and alignment mode: sol_alloc_free_ hands
\* out only aligned blocks inside [heap start, heap start + heap_sz), and
\* no two of them overlap (fd_vm_syscall_sol_alloc_free).
THEOREM HeapBlocksDisjointHolds == Spec => []HeapBlocksDisjoint
<1>1. Init => HeapBlocksDisjoint
  BY DEF Init, HeapBlocksDisjoint
<1>2. TypeOK /\ HeapBlocksDisjoint /\ [Next]_vars => HeapBlocksDisjoint'
  BY HeapStep
<1>3. QED
  BY <1>1, <1>2, TypeCorrect, PTL DEF Spec

-----------------------------------------------------------------------------
(***************************************************************************)
(* Metering.  No invariant beyond TypeOK is needed: every step that keeps  *)
(* the run going is an instruction that Charge, or the syscall handler's   *)
(* cost, pays for; every other step sets a fault or halts.                 *)
(***************************************************************************)
\* The step predicate of Metered.
MeteredStep ==
    status = "running" /\ status' = "running" => ic' = ic + 1 /\ cu' < cu

\* Charge pays one compute unit for one instruction.
LEMMA ChargeMeters ==
    ASSUME TypeOK, Charge PROVE MeteredStep
BY DEF TypeOK, Charge, MeteredStep

\* Every step of fd_vm_exec that neither faults nor halts (a stutter
\* aside) counts one instruction and pays at least one compute unit.
LEMMA MeterStep == TypeOK /\ Next => MeteredStep
<1> SUFFICES ASSUME TypeOK, Next PROVE MeteredStep
  OBVIOUS
<1>1. CASE SigText \/ SigSplit \/ Illegal \/ LddwSplit \/ SyscallUnknown
  BY <1>1 DEF SigText, SigSplit, Illegal, LddwSplit, SyscallUnknown, Fault, MeteredStep
<1>2. CASE SigCost \/ CallOverflow \/ ExitHalt \/ MemFault
  BY <1>2 DEF SigCost, CallOverflow, ExitHalt, MemFault, MeteredStep
<1>3. CASE Alu \/ Lddw \/ Jump \/ Call \/ ExitPop \/ MemAccess \/ AllocFree
  BY <1>3, ChargeMeters DEF Alu, Lddw, Jump, Call, ExitPop, MemAccess, AllocFree
<1>4. CASE Syscall
  <2>1. PICK c \in 0 .. MaxSyscallCU :
          \/ c <= cu - 1 /\ cu' = cu - 1 - c /\ UNCHANGED status
          \/ c <= cu - 1 /\ status' = "SIGSYSCALL"
          \/ c > cu - 1 /\ status' = "SIGCOST"
    BY <1>4 DEF Syscall
  <2>2. ic' = ic + 1
    BY <1>4 DEF Syscall
  <2>3. c \in Nat /\ cu \in Nat
    BY <2>1, ConstFacts DEF TypeOK
  <2>4. status = "running" /\ status' = "running" => cu' = cu - 1 - c
    BY <2>1
  <2>5. QED
    BY <2>2, <2>3, <2>4 DEF MeteredStep
<1>5. QED
  BY <1>1, <1>2, <1>3, <1>4 DEF Next

\* For every program and budget, each step of fd_vm_exec that leaves the
\* run going executes one instruction and costs at least one compute unit
\* (fd_vm.h lines 126-128 for the per-instruction charge, lines 415-429
\* for a syscall handler's cost on top of it).
THEOREM MeteredHolds == Spec => Metered
<1>1. TypeOK /\ [Next]_vars => [MeteredStep]_vars
  BY MeterStep
<1>2. QED
  BY <1>1, TypeCorrect, PTL DEF Spec, Metered, MeteredStep

=============================================================================
