---------------------------- MODULE MC_VmMemory ----------------------------
(***************************************************************************)
(* Checks the memory translation of VmMemory against its byte-level       *)
(* reference on every access of every kind and width at every vaddr of    *)
(* the scaled-down address space (plus one wrapped negative address).     *)
(* The state is the access being translated.                              *)
(***************************************************************************)
EXTENDS VmMemory, TLC

VARIABLE access

Accesses == [kind : Kinds, v : -1 .. 6 * Span, sz : Widths]

ProbeInit == access \in Accesses
ProbeNext == UNCHANGED access
ProbeSpec == ProbeInit /\ [][ProbeNext]_access

MC_InputFrags ==
    << [voff |-> 0, sz |-> 4, w |-> FALSE],
       [voff |-> 4, sz |-> 0, w |-> TRUE],
       [voff |-> 4, sz |-> 4, w |-> TRUE],
       [voff |-> 8, sz |-> 2, w |-> TRUE] >>

\* The translation accepts exactly the accesses whose bytes all lie, with
\* the access's permission, in the unit (program region, stack frame,
\* heap, input fragment) of the first byte: no access spans two fragments
\* or reaches a stack guard zone, and no valid access is refused.
TranslateMatchesReference ==
    TranslateOk(access.kind, access.v, access.sz)
        <=> TranslateRef(access.kind, access.v, access.sz)

=============================================================================
