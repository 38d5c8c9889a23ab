---------------------------- MODULE MC_VmInterp ----------------------------
(***************************************************************************)
(* Model-checking instance of VmInterp: every program of three words over  *)
(* a small instruction set, run to completion from pc 0.  Two instruction  *)
(* sets: one for control flow and the call stack, one for memory accesses  *)
(* and syscalls.                                                           *)
(***************************************************************************)
EXTENDS VmInterp, TLC

\* Instruction words.
W(op, d, s, o, k, z) == [op |-> op, dst |-> d, src |-> s, off |-> o, imm |-> k, sz |-> z]
AddI(d, k)    == W("add", d, 0, 0, k, 1)
LddwI(d, k)   == W("lddw", d, 0, 0, k, 1)
Lddw2I        == W("lddw2", 0, 0, 0, 0, 1)
JaI(o)        == W("ja", 0, 0, o, 0, 1)
JeqI(d, k, o) == W("jeq", d, 0, o, k, 1)
CallI(t)      == W("call", 0, 0, 0, t, 1)
CallxI(s)     == W("callx", 0, s, 0, 0, 1)
ExitI         == W("exit", 0, 0, 0, 0, 1)
IllI          == W("ill", 0, 0, 0, 0, 1)
LdxI(d, s, o, z) == W("ldx", d, s, o, 0, z)
StxI(s, o, z)    == W("stx", 0, s, o, 0, z)
SyscallI(k)      == W("syscall", 0, 0, 0, k, 1)

\* Syscall ids: 1 is sol_alloc_free_, 2 another registered syscall, 3 none.
MC_Syscalls == {1, 2}
MC_AllocFreeId == 1

\* Control flow and calls: arithmetic, both jumps, direct calls to an
\* entry, a non-entry and past the text, callx through r0, exit, wide
\* instructions and an illegal opcode.
CtlInstrs ==
    { AddI(0, 1), AddI(6, 1), JaI(-2), JeqI(0, 0, 1),
      CallI(1), CallI(2), CallI(3), CallxI(0), ExitI,
      LddwI(0, 2), Lddw2I, IllI }

\* Memory and syscalls: loads and stores through r1 into the fragmented
\* input region (read-only first fragment, empty second, writable third)
\* and through r10 into the current frame and its guard zone, the three
\* kinds of syscall, and a call and exit to move r10.
MemInstrs ==
    { LdxI(0, 1, 0, 4), StxI(1, 0, 4), StxI(1, 4, 4), StxI(1, 6, 4),
      LdxI(0, 1, 3, 2), LdxI(6, 10, -4, 4), StxI(10, -6, 2),
      SyscallI(1), SyscallI(2), SyscallI(3), CallI(1), ExitI }

MC_InputFrags ==
    << [voff |-> 0, sz |-> 4, w |-> FALSE],
       [voff |-> 4, sz |-> 0, w |-> TRUE],
       [voff |-> 4, sz |-> 4, w |-> TRUE] >>

CtlPrograms == [0 .. 2 -> CtlInstrs]

MemPrograms == [0 .. 2 -> MemInstrs]

VmPrograms == CtlPrograms \cup MemPrograms

=============================================================================
