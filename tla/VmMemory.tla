------------------------------ MODULE VmMemory ------------------------------
(***************************************************************************)
(* The software memory map of the sBPF virtual machine (fd_vm.h): the      *)
(* six-region translation table region_haddr / region_ld_sz /             *)
(* region_st_sz, the gapped stack, and, under direct mapping, the          *)
(* fragmented input region resolved by binary search over                  *)
(* input_mem_regions.  Translation is a pure function of the instance's    *)
(* configuration, so this module has constants and operators only.         *)
(*                                                                         *)
(* Addresses are scaled down: a region spans Span bytes (2^32 in the       *)
(* code), so region r covers [r*Span, (r+1)*Span).  A negative virtual     *)
(* address stands for the wrapped ulong it is in the code, whose top bits  *)
(* select the clamped region 5.                                            *)
(***************************************************************************)
EXTENDS Integers, Sequences

CONSTANTS
    Span,           \* bytes per region (4GiB in the code)
    RodataSz,       \* vm->rodata_sz: load limit of region 1 (program)
    GuardSz,        \* FD_VM_STACK_GUARD_SZ: unmapped bytes before each frame
    FrameSz,        \* FD_VM_STACK_FRAME_SZ: mapped bytes of each frame
    FrameMax,       \* FD_VM_STACK_FRAME_MAX: frames in the stack buffer
    HeapMax,        \* vm->heap_max: load/store limit of region 3 (heap)
    InputFrags,     \* vm->input_mem_regions: <<[voff, sz, w], ...>>
    DirectMapping,  \* vm->direct_mapping
    IsDeprecated    \* vm->is_deprecated

Widths == {1, 2, 4, 8}
Kinds  == {"ld", "st"}

\* One input fragment: vaddr_offset, region_sz, is_writable.
Fragment == [voff : Nat, sz : Nat, w : BOOLEAN]

FragCnt == Len(InputFrags)

\* input_mem_regions[i], indexed from 0 as in the C array.
Frag(i) == InputFrags[i + 1]

InputSz == Frag(FragCnt - 1).voff + Frag(FragCnt - 1).sz

Stride  == GuardSz + FrameSz
StackSz == FrameMax * Stride

ASSUME MemoryAssumption ==
    /\ Span \in Nat \ {0}
    /\ {RodataSz, GuardSz, HeapMax} \subseteq Nat
    /\ FrameSz \in Nat \ {0}
    /\ FrameMax \in Nat \ {0}
    /\ DirectMapping \in BOOLEAN
    /\ IsDeprecated \in BOOLEAN
    \* Fragments (possibly empty) start at offset 0 and are contiguous and
    \* strictly increasing (fd_vm.h: "The virtual addresses of each region
    \* are contigiuous and strictly increasing").
    /\ InputFrags \in Seq(Fragment)
    /\ FragCnt >= 1
    /\ Frag(0).voff = 0
    /\ \A i \in 1 .. FragCnt - 1 : Frag(i).voff = Frag(i - 1).voff + Frag(i - 1).sz
    /\ \A n \in {RodataSz, StackSz, HeapMax, InputSz} : n <= Span
    \* Regions start at multiples of 2^32 (region << 32), so every region
    \* start is 8-byte aligned.
    /\ Span % 8 = 0

\* Virtual start of each region (FD_VM_MEM_MAP_*_REGION_START).
RegionStart(r) == r * Span

\* fd_vm_is_check_align_enabled: alignment is checked unless deprecated.
CheckAlign == ~IsDeprecated

\* Region selected by the top bits of a vaddr, clamped to 5.
RegionOf(v) == IF v < 0 \/ v \div Span > 5 THEN 5 ELSE v \div Span

OffsetOf(v) == v % Span

\* region_ld_sz[] and region_st_sz[]: regions 0 and 5 are unmapped, the
\* program region is read-only.
RegionLdSz == <<0, RodataSz, StackSz, HeapMax, InputSz, 0>>
RegionStSz == <<0, 0,        StackSz, HeapMax, InputSz, 0>>

RegionLimit(kind, r) ==
    IF kind = "ld" THEN RegionLdSz[r + 1] ELSE RegionStSz[r + 1]

\* The access lies inside one frame of the gapped stack and misses the
\* guard zone before it.
InStackFrame(o, sz) ==
    /\ o % Stride >= GuardSz
    /\ (o % Stride) + sz <= Stride

\* Mutant of FragIdx: a fragment is passed over only when o lies strictly
\* past its end.
FragIdxEndInclusive(o) ==
    LET search[lr \in (0 .. FragCnt) \X (0 .. FragCnt)] ==
            LET l == lr[1]
                r == lr[2]
                mid == (l + r) \div 2
            IN  IF l >= r THEN l
                ELSE IF o > Frag(mid).voff + Frag(mid).sz
                     THEN search[<<mid + 1, r>>]
                     ELSE search[<<l, mid>>]
    IN  search[<<0, FragCnt - 1>>]

\* Binary search over input_mem_regions for the fragment covering offset
\* o: the first fragment whose end lies past o (the last one if none does).
FragIdx(o) ==
    LET search[lr \in (0 .. FragCnt) \X (0 .. FragCnt)] ==
            LET l == lr[1]
                r == lr[2]
                mid == (l + r) \div 2
            IN  IF l >= r THEN l
                ELSE IF o >= Frag(mid).voff + Frag(mid).sz
                     THEN search[<<mid + 1, r>>]
                     ELSE search[<<l, mid>>]
    IN  search[<<0, FragCnt - 1>>]

\* Direct-mapped input access: it must end inside the fragment found and a
\* store needs a writable fragment.
InFragment(kind, o, sz) ==
    LET i == FragIdx(o)
    IN  /\ o + sz <= Frag(i).voff + Frag(i).sz
        /\ kind = "st" => Frag(i).w

\* The translation of a sz-byte access of the given kind at vaddr v
\* succeeds (otherwise the vm faults and records segv_vaddr).
TranslateOk(kind, v, sz) ==
    LET r == RegionOf(v)
        o == OffsetOf(v)
    IN  /\ CheckAlign => v % sz = 0
        /\ o + sz <= RegionLimit(kind, r)
        /\ r = 2 => InStackFrame(o, sz)
        /\ (r = 4 /\ DirectMapping) => InFragment(kind, o, sz)

-----------------------------------------------------------------------------
(***************************************************************************)
(* Reference semantics of the memory map, byte by byte: an access succeeds *)
(* when it is aligned (if alignment is checked) and each of its bytes is   *)
(* mapped for its kind in the same unit as its first byte, a unit being    *)
(* the program region, one stack frame, the heap, or one input fragment.   *)
(***************************************************************************)
CoversByte(j, o) == Frag(j).voff <= o /\ o < Frag(j).voff + Frag(j).sz

UnitOf(b) ==
    LET r == RegionOf(b)
        o == OffsetOf(b)
    IN  CASE r = 2 -> <<2, o \div Stride>>
          [] r = 4 /\ DirectMapping ->
                <<4, CHOOSE j \in 0 .. FragCnt - 1 : CoversByte(j, o)>>
          [] OTHER -> <<r, 0>>

ByteOk(kind, b) ==
    LET r == RegionOf(b)
        o == OffsetOf(b)
    IN  /\ o < RegionLimit(kind, r)
        /\ r = 2 => o % Stride >= GuardSz
        /\ (r = 4 /\ DirectMapping) =>
               \E j \in 0 .. FragCnt - 1 : CoversByte(j, o) /\ (kind = "st" => Frag(j).w)

TranslateRef(kind, v, sz) ==
    /\ CheckAlign => v % sz = 0
    /\ \A b \in v .. v + sz - 1 : ByteOk(kind, b) /\ UnitOf(b) = UnitOf(v)

=============================================================================
