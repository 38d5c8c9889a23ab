------------------------------ MODULE VmInterp ------------------------------
(***************************************************************************)
(* The sBPF interpreter of fd_vm: fd_vm_exec runs one program from its     *)
(* entry pc until it halts or faults (fd_vm.h).  One step executes the     *)
(* instruction at pc: fetch and text bounds, compute-unit metering, then   *)
(* the opcode's handler.  The shadow stack holds the callee-saved          *)
(* registers and return pc of each frame; reg[10] is the frame pointer     *)
(* into the gapped stack of VmMemory; sol_alloc_free_ bumps heap_sz.       *)
(*                                                                         *)
(* Data is abstracted: r6 stands for the callee-saved r6..r9, memory       *)
(* contents are not kept (a load yields any value of LoadVals), and a      *)
(* register holds its value modulo RegMod (2^64 in the code).  callx reads *)
(* its target pc straight from the register.                               *)
(***************************************************************************)
EXTENDS VmMemory, FiniteSets

CONSTANTS
    TextCnt,        \* vm->text_cnt
    EntryPc,        \* vm->entry_pc
    EntryCU,        \* vm->entry_cu
    Calldests,      \* the set bits of vm->calldests
    Syscalls,       \* the ids present in vm->syscalls
    AllocFreeId,    \* the id of sol_alloc_free_ in vm->syscalls
    Programs,       \* the texts the loader may hand to the vm
    LoadVals,       \* values a load or a syscall may return (and r0/r6 at entry)
    RegMod,         \* registers hold values modulo RegMod
    MaxSyscallCU,   \* largest extra cost a syscall handler charges
    AllocSizes      \* sizes requested from sol_alloc_free_

TextIdx == 0 .. TextCnt - 1

\* Registers kept: r0 (return value), r1 (input pointer), r6 (callee-saved),
\* r10 (frame pointer).
Regs == {0, 1, 6, 10}

Ops == {"add", "lddw", "lddw2", "ja", "jeq", "call", "callx", "exit",
        "ldx", "stx", "syscall", "ill"}
CallOps == {"call", "callx"}

\* An instruction word.  dst is written by add, lddw and ldx; src is the
\* base register of ldx and stx (the stored value is not kept) and the
\* target register of callx.  fd_vm_validate rejects writes to r10, and r1
\* is not written here, so dst ranges over r0 and r6.
Instr == [op : Ops, dst : {0, 6}, src : Regs, off : Int, imm : Int, sz : Widths]

Faults == {"SIGTEXT", "SIGSPLIT", "SIGCALL", "SIGSTACK", "SIGILL",
           "SIGSEGV", "SIGRDONLY", "SIGCOST", "SIGSYSCALL"}
Status == {"running", "halted"} \cup Faults

\* fd_vm_shadow_t: saved callee-saved registers, frame pointer, return pc.
Shadow == [r6 : Int, r10 : Int, pc : Int]
NoFrame == [r6 |-> 0, r10 |-> 0, pc |-> 0]

\* Value of r10 at call depth n: the end of frame n of the gapped stack.
FpOf(n) == RegionStart(2) + (n + 1) * Stride

\* sol_alloc_free_ aligns to 8 bytes when alignment is checked, else to 1.
HeapAlign == IF CheckAlign THEN 8 ELSE 1
AlignUp(x, a) == ((x + a - 1) \div a) * a

ASSUME InterpAssumption ==
    /\ TextCnt \in Nat \ {0}
    /\ EntryPc \in TextIdx
    /\ EntryCU \in Nat
    /\ Calldests \subseteq TextIdx
    /\ AllocFreeId \in Syscalls
    /\ Programs \subseteq [TextIdx -> Instr]
    /\ LoadVals \subseteq Nat
    /\ RegMod \in Nat \ {0}
    /\ MaxSyscallCU \in Nat
    /\ AllocSizes \subseteq Nat

VARIABLES
    text,             \* vm->text
    pc,               \* vm->pc
    ic,               \* vm->ic
    cu,               \* vm->cu
    frame_cnt,        \* vm->frame_cnt
    reg,              \* vm->reg
    shadow,           \* vm->shadow
    heap_sz,          \* vm->heap_sz
    status,           \* running, halted, or the fault fd_vm_exec returns
    segv_vaddr,       \* vm->segv_vaddr
    segv_access_type, \* vm->segv_access_type
    blocks            \* history: the heap blocks sol_alloc_free_ handed out

vars == <<text, pc, ic, cu, frame_cnt, reg, shadow, heap_sz, status,
          segv_vaddr, segv_access_type, blocks>>

TypeOK ==
    /\ text \in [TextIdx -> Instr]
    /\ pc \in Int
    /\ ic \in Nat
    /\ cu \in 0 .. EntryCU
    /\ frame_cnt \in 0 .. FrameMax
    /\ reg \in [Regs -> Int]
    /\ shadow \in [0 .. FrameMax - 1 -> Shadow]
    /\ heap_sz \in 0 .. HeapMax
    /\ status \in Status
    /\ segv_vaddr \in Int
    /\ segv_access_type \in Kinds \cup {"none"}
    /\ blocks \subseteq [addr : Int, sz : Nat]

\* fd_vm_exec starts from the entry pc with the full budget, r1 at the input
\* region and r10 at the first frame, no frame pushed and an empty heap; the
\* other registers are not zeroed.
Init ==
    /\ text \in Programs
    /\ pc = EntryPc
    /\ ic = 0
    /\ cu = EntryCU
    /\ frame_cnt = 0
    /\ \E r0, r6 \in LoadVals :
          reg = [r \in Regs |-> CASE r = 0  -> r0
                                  [] r = 1  -> RegionStart(4)
                                  [] r = 6  -> r6
                                  [] r = 10 -> FpOf(0)]
    /\ shadow = [i \in 0 .. FrameMax - 1 |-> NoFrame]
    /\ heap_sz = 0
    /\ status = "running"
    /\ segv_vaddr = 0
    /\ segv_access_type = "none"
    /\ blocks = {}

-----------------------------------------------------------------------------
\* The instruction at pc.
I == text[pc]

\* The instruction at pc is fetched, paid for, and is one of ops.
Fetch(ops) ==
    /\ status = "running"
    /\ pc \in TextIdx
    /\ cu >= 1
    /\ I.op \in ops

\* Mutant of Charge: the instruction is neither counted nor metered.
ChargeUncounted == UNCHANGED <<ic, cu>>

\* The instruction is executed: it counts and costs one compute unit.
Charge == ic' = ic + 1 /\ cu' = cu - 1

\* A fault that leaves pc, ic and cu at the faulting instruction.
Fault(sig) ==
    /\ status' = sig
    /\ UNCHANGED <<text, pc, ic, cu, frame_cnt, reg, shadow, heap_sz,
                   segv_vaddr, segv_access_type, blocks>>

\* pc left the text region (after a jump, a return, or a fall-through).
SigText ==
    /\ status = "running"
    /\ pc \notin TextIdx
    /\ Fault("SIGTEXT")

\* A jump, call or return set pc to the second word of an lddw, the middle
\* of a multiword instruction: SIGSPLIT with pc at the split, which is not
\* counted.
SigSplit ==
    /\ status = "running"
    /\ pc \in TextIdx
    /\ I.op = "lddw2"
    /\ Fault("SIGSPLIT")

\* The budget cannot pay for the next instruction: cu is zero.
SigCost ==
    /\ status = "running"
    /\ pc \in TextIdx
    /\ text[pc].op # "lddw2"
    /\ cu < 1
    /\ status' = "SIGCOST"
    /\ cu' = 0
    /\ UNCHANGED <<text, pc, ic, frame_cnt, reg, shadow, heap_sz,
                   segv_vaddr, segv_access_type, blocks>>

\* An undecodable opcode.
Illegal ==
    /\ Fetch({"ill"})
    /\ Fault("SIGILL")

\* add dst, imm (ALU on ulong: wraps).
Alu ==
    /\ Fetch({"add"})
    /\ reg' = [reg EXCEPT ![I.dst] = (@ + I.imm) % RegMod]
    /\ pc' = pc + 1
    /\ Charge
    /\ UNCHANGED <<text, frame_cnt, shadow, heap_sz, status, segv_vaddr,
                   segv_access_type, blocks>>

\* lddw dst, imm: a two-word instruction.
Lddw ==
    /\ Fetch({"lddw"})
    /\ pc + 1 < TextCnt
    /\ reg' = [reg EXCEPT ![I.dst] = I.imm % RegMod]
    /\ pc' = pc + 2
    /\ Charge
    /\ UNCHANGED <<text, frame_cnt, shadow, heap_sz, status, segv_vaddr,
                   segv_access_type, blocks>>

\* lddw in the last word: its second word lies past the text (SIGSPLIT).
LddwSplit ==
    /\ Fetch({"lddw"})
    /\ pc + 1 >= TextCnt
    /\ Fault("SIGSPLIT")

\* ja off, and jeq dst, imm, off.
Jump ==
    /\ Fetch({"ja", "jeq"})
    /\ pc' = IF I.op = "ja" \/ reg[I.dst] = I.imm THEN pc + 1 + I.off
                                                  ELSE pc + 1
    /\ Charge
    /\ UNCHANGED <<text, frame_cnt, reg, shadow, heap_sz, status, segv_vaddr,
                   segv_access_type, blocks>>

CallTarget == IF I.op = "call" THEN I.imm ELSE reg[I.src]

\* A call at the depth limit: SIGSTACK at the call, which is counted, and
\* no frame is allocated.
CallOverflow ==
    /\ Fetch(CallOps)
    /\ frame_cnt = FrameMax
    /\ status' = "SIGSTACK"
    /\ Charge
    /\ UNCHANGED <<text, pc, frame_cnt, reg, shadow, heap_sz, segv_vaddr,
                   segv_access_type, blocks>>

\* Mutant of Call: the depth check is off by one.
CallAtLimit ==
    /\ Fetch(CallOps)
    /\ frame_cnt <= FrameMax
    /\ LET t == CallTarget
       IN  /\ shadow' = [shadow EXCEPT ![frame_cnt] =
                            [r6 |-> reg[6], r10 |-> reg[10], pc |-> pc + 1]]
           /\ frame_cnt' = frame_cnt + 1
           /\ reg' = [reg EXCEPT ![10] = @ + Stride]
           /\ pc' = t
           /\ status' = CASE t \notin TextIdx   -> "SIGTEXT"
                          [] t \notin Calldests -> "SIGCALL"
                          [] OTHER              -> "running"
    /\ Charge
    /\ UNCHANGED <<text, heap_sz, segv_vaddr, segv_access_type, blocks>>

\* Mutant of Call: the saved return pc is the call itself.
CallSavesPc ==
    /\ Fetch(CallOps)
    /\ frame_cnt < FrameMax
    /\ LET t == CallTarget
       IN  /\ shadow' = [shadow EXCEPT ![frame_cnt] =
                            [r6 |-> reg[6], r10 |-> reg[10], pc |-> pc]]
           /\ frame_cnt' = frame_cnt + 1
           /\ reg' = [reg EXCEPT ![10] = @ + Stride]
           /\ pc' = t
           /\ status' = CASE t \notin TextIdx   -> "SIGTEXT"
                          [] t \notin Calldests -> "SIGCALL"
                          [] OTHER              -> "running"
    /\ Charge
    /\ UNCHANGED <<text, heap_sz, segv_vaddr, segv_access_type, blocks>>

\* call imm / callx src: push a shadow frame (r6, r10, return pc), move r10
\* to the next frame, jump; a target outside the text faults SIGTEXT and
\* one that is not a function entry faults SIGCALL, the call counted and
\* its frame allocated.
Call ==
    /\ Fetch(CallOps)
    /\ frame_cnt < FrameMax
    /\ LET t == CallTarget
       IN  /\ shadow' = [shadow EXCEPT ![frame_cnt] =
                            [r6 |-> reg[6], r10 |-> reg[10], pc |-> pc + 1]]
           /\ frame_cnt' = frame_cnt + 1
           /\ reg' = [reg EXCEPT ![10] = @ + Stride]
           /\ pc' = t
           /\ status' = CASE t \notin TextIdx   -> "SIGTEXT"
                          [] t \notin Calldests -> "SIGCALL"
                          [] OTHER              -> "running"
    /\ Charge
    /\ UNCHANGED <<text, heap_sz, segv_vaddr, segv_access_type, blocks>>

\* exit at depth zero: the program halts.
ExitHalt ==
    /\ Fetch({"exit"})
    /\ frame_cnt = 0
    /\ status' = "halted"
    /\ Charge
    /\ UNCHANGED <<text, pc, frame_cnt, reg, shadow, heap_sz, segv_vaddr,
                   segv_access_type, blocks>>

\* exit in a called function: pop the top shadow frame.
ExitPop ==
    /\ Fetch({"exit"})
    /\ frame_cnt > 0
    /\ LET f == shadow[frame_cnt - 1]
       IN  /\ reg' = [reg EXCEPT ![6] = f.r6, ![10] = f.r10]
           /\ pc' = f.pc
    /\ frame_cnt' = frame_cnt - 1
    /\ Charge
    /\ UNCHANGED <<text, shadow, heap_sz, status, segv_vaddr,
                   segv_access_type, blocks>>

\* Address of the memory operand: base register plus offset.
MemAddr == reg[I.src] + I.off
MemKind == IF I.op = "ldx" THEN "ld" ELSE "st"

\* ldx / stx whose translation succeeds; a load writes dst.
MemAccess ==
    /\ Fetch({"ldx", "stx"})
    /\ TranslateOk(MemKind, MemAddr, I.sz)
    /\ IF I.op = "ldx"
         THEN \E val \in LoadVals : reg' = [reg EXCEPT ![I.dst] = val]
         ELSE UNCHANGED reg
    /\ pc' = pc + 1
    /\ Charge
    /\ UNCHANGED <<text, frame_cnt, shadow, heap_sz, status, segv_vaddr,
                   segv_access_type, blocks>>

\* ldx / stx whose translation fails: SIGSEGV with the fault recorded
\* (SIGRDONLY and SIGBUS are reported as SIGSEGV).
MemFault ==
    /\ Fetch({"ldx", "stx"})
    /\ ~TranslateOk(MemKind, MemAddr, I.sz)
    /\ status' = "SIGSEGV"
    /\ segv_vaddr' = MemAddr
    /\ segv_access_type' = MemKind
    /\ UNCHANGED <<text, pc, ic, cu, frame_cnt, reg, shadow, heap_sz, blocks>>

\* syscall imm with no entry in the syscall table.
SyscallUnknown ==
    /\ Fetch({"syscall"})
    /\ I.imm \notin Syscalls
    /\ Fault("SIGILL")

\* Mutant of Syscall: the handler's cost is charged but not the
\* instruction's own compute unit.
SyscallUncharged ==
    /\ Fetch({"syscall"})
    /\ I.imm \in Syscalls \ {AllocFreeId}
    /\ \E c \in 0 .. MaxSyscallCU :
          \/ /\ c <= cu - 1
             /\ \E r \in LoadVals : reg' = [reg EXCEPT ![0] = r]
             /\ pc' = pc + 1
             /\ cu' = cu - c
             /\ UNCHANGED status
          \/ /\ c <= cu - 1
             /\ status' = "SIGSYSCALL"
             /\ cu' = cu - c
             /\ UNCHANGED <<pc, reg>>
          \/ /\ c > cu - 1
             /\ status' = "SIGCOST"
             /\ cu' = 0
             /\ UNCHANGED <<pc, reg>>
    /\ ic' = ic + 1
    /\ UNCHANGED <<text, frame_cnt, shadow, heap_sz, segv_vaddr,
                   segv_access_type, blocks>>

\* A syscall other than sol_alloc_free_: the handler charges an extra cost
\* c and then returns a value in r0, or a fault code; a cost beyond the
\* remaining budget ends the run with SIGCOST and cu zero.
Syscall ==
    /\ Fetch({"syscall"})
    /\ I.imm \in Syscalls \ {AllocFreeId}
    /\ \E c \in 0 .. MaxSyscallCU :
          \/ /\ c <= cu - 1
             /\ \E r \in LoadVals : reg' = [reg EXCEPT ![0] = r]
             /\ pc' = pc + 1
             /\ cu' = cu - 1 - c
             /\ UNCHANGED status
          \/ /\ c <= cu - 1
             /\ status' = "SIGSYSCALL"
             /\ cu' = cu - 1 - c
             /\ UNCHANGED <<pc, reg>>
          \/ /\ c > cu - 1
             /\ status' = "SIGCOST"
             /\ cu' = 0
             /\ UNCHANGED <<pc, reg>>
    /\ ic' = ic + 1
    /\ UNCHANGED <<text, frame_cnt, shadow, heap_sz, segv_vaddr,
                   segv_access_type, blocks>>

\* Mutant of AllocFree: the heap_max check is dropped.
AllocFreeUnbounded ==
    /\ Fetch({"syscall"})
    /\ I.imm = AllocFreeId
    /\ \E sz \in AllocSizes, free \in BOOLEAN :
          LET start == AlignUp(heap_sz, HeapAlign)
          IN  IF free
                THEN /\ reg' = [reg EXCEPT ![0] = 0]
                     /\ UNCHANGED <<heap_sz, blocks>>
                ELSE /\ reg' = [reg EXCEPT ![0] = RegionStart(3) + start]
                     /\ heap_sz' = start + sz
                     /\ blocks' = blocks \cup {[addr |-> RegionStart(3) + start, sz |-> sz]}
    /\ pc' = pc + 1
    /\ Charge
    /\ UNCHANGED <<text, frame_cnt, shadow, status, segv_vaddr,
                   segv_access_type>>

\* Mutant of AllocFree: the block is placed at the aligned position but
\* heap_sz is bumped from the unaligned one.
AllocFreeBumpUnaligned ==
    /\ Fetch({"syscall"})
    /\ I.imm = AllocFreeId
    /\ \E sz \in AllocSizes, free \in BOOLEAN :
          LET start == AlignUp(heap_sz, HeapAlign)
          IN  IF free \/ start + sz > HeapMax
                THEN /\ reg' = [reg EXCEPT ![0] = 0]
                     /\ UNCHANGED <<heap_sz, blocks>>
                ELSE /\ reg' = [reg EXCEPT ![0] = RegionStart(3) + start]
                     /\ heap_sz' = heap_sz + sz
                     /\ blocks' = blocks \cup {[addr |-> RegionStart(3) + start, sz |-> sz]}
    /\ pc' = pc + 1
    /\ Charge
    /\ UNCHANGED <<text, frame_cnt, shadow, status, segv_vaddr,
                   segv_access_type>>

\* sol_alloc_free_(sz, free_addr): a free is a no-op returning 0; an
\* allocation aligns heap_sz up, returns the heap address there and bumps
\* heap_sz past the block, or returns 0 and leaves heap_sz alone when the
\* block would end past heap_max.
AllocFree ==
    /\ Fetch({"syscall"})
    /\ I.imm = AllocFreeId
    /\ \E sz \in AllocSizes, free \in BOOLEAN :
          LET start == AlignUp(heap_sz, HeapAlign)
          IN  IF free \/ start + sz > HeapMax
                THEN /\ reg' = [reg EXCEPT ![0] = 0]
                     /\ UNCHANGED <<heap_sz, blocks>>
                ELSE /\ reg' = [reg EXCEPT ![0] = RegionStart(3) + start]
                     /\ heap_sz' = start + sz
                     /\ blocks' = blocks \cup {[addr |-> RegionStart(3) + start, sz |-> sz]}
    /\ pc' = pc + 1
    /\ Charge
    /\ UNCHANGED <<text, frame_cnt, shadow, status, segv_vaddr,
                   segv_access_type>>

Next ==
    \/ SigText
    \/ SigSplit
    \/ SigCost
    \/ Illegal
    \/ Alu
    \/ Lddw
    \/ LddwSplit
    \/ Jump
    \/ CallOverflow
    \/ Call
    \/ ExitHalt
    \/ ExitPop
    \/ MemAccess
    \/ MemFault
    \/ SyscallUnknown
    \/ Syscall
    \/ AllocFree

\* fd_vm_exec runs to completion on one thread: the step it can take is
\* eventually taken.
Spec == Init /\ [][Next]_vars /\ WF_vars(Next)

-----------------------------------------------------------------------------
(***************************************************************************)
(* Properties.                                                             *)
(***************************************************************************)

\* Call/return discipline of the shadow stack: r10 is the frame pointer of
\* the current depth, each pushed frame saved the frame pointer of its own
\* depth, and each saved return pc is the word right after a call, so that
\* every exit resumes the caller after its call with its frame restored.
FrameDiscipline ==
    /\ reg[10] = FpOf(frame_cnt)
    /\ \A i \in 0 .. frame_cnt - 1 :
          /\ shadow[i].r10 = FpOf(i)
          /\ shadow[i].pc - 1 \in TextIdx
          /\ text[shadow[i].pc - 1].op \in CallOps

\* Metering, as a step property: every step fd_vm_exec takes without
\* ending the run executes one instruction (ic grows by one) and pays at
\* least one compute unit for it, syscalls included, so that the budget
\* bounds the number of instructions a run executes.
Metered ==
    [][status = "running" /\ status' = "running" =>
         ic' = ic + 1 /\ cu' < cu]_vars

\* Every run ends: each instruction that does not end the run costs a
\* compute unit, so fd_vm_exec returns for every program and budget.
Termination == <>(status # "running")

\* sol_alloc_free_ never hands out overlapping heap blocks: every block is
\* aligned, lies below heap_sz inside the heap region, and is disjoint from
\* every other block handed out during the run.
HeapBlocksDisjoint ==
    /\ \A b \in blocks :
          /\ b.addr % HeapAlign = 0
          /\ RegionStart(3) <= b.addr
          /\ b.addr + b.sz <= RegionStart(3) + heap_sz
    /\ \A b1, b2 \in blocks :
          b1 # b2 => b1.addr + b1.sz <= b2.addr \/ b2.addr + b2.sz <= b1.addr

=============================================================================
