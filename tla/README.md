# TLA+ models of firedancer's funk store, sBPF virtual machine, native CPI and feature table

This directory holds TLA+ models of two parts of the source tree (`src/src/`):
- the funk store's write lock and instance lifecycle (`funk/fd_funk.c`);
- the sBPF virtual machine's memory map and interpreter, as far as `flamenco/vm/fd_vm.h`
  documents them;
- a native program's cross-program invocation of the system program
  (`flamenco/runtime/program/fd_native_cpi.c`);
- the feature activation table (`flamenco/features/fd_features.h`).

It also holds the TLC configurations that check those models on small instances and the
TLAPS proofs of their main safety properties for every value of the constants.
`PROJECT.json` lists every run, mutant, mapped source line, finding, hazard and theorem.

## The system and its parts

| part | source | what it does | interacts with |
|---|---|---|---|
| funk write lock | `funk/fd_funk.c` 419-470 | `fd_funk_start_write` / `fd_funk_end_write` bracket a write section: a process-wide static `fd_rwlock_t` orders the threads of one process, and a CAS loop on the shared `funk->write_lock` makes it odd inside a section; `fd_funk_check_write` aborts when it is even | every writer of a funk, in any process mapping the workspace |
| funk lifecycle | `funk/fd_funk.c` 18-360 | `fd_funk_new` makes four workspace objects (txn map, record map, fd_alloc, partvec) with ten fallible steps, then publishes `FD_FUNK_MAGIC`; `fd_funk_join` accepts a funk by its magic; `fd_funk_delete` frees the objects, then clears the magic | the workspace allocator; joiners in other processes |
| vm memory map | `flamenco/vm/fd_vm.h` 16-32, 126-224, 331-343 | six regions selected by the top bits of a vaddr, per-region load and store limits, a stack of frames each behind a guard zone, and, with direct mapping, an input region made of fragments found by binary search | every load and store of the interpreter and the syscalls |
| vm interpreter | `flamenco/vm/fd_vm.h` 118-131, 350-464 | `fd_vm_exec` runs a program from its entry to halt or to one of the documented faults, metering compute units, keeping a shadow stack of frames and bumping `heap_sz` for `sol_alloc_free_` | the memory map; the syscall table |
| native CPI | `flamenco/runtime/program/fd_native_cpi.c` 7-86 | builds the callee's `instr_info` for the system program from account metas: finds the program index, maps each meta to the first caller account with its pubkey, marks duplicates, encodes the instruction, lets `fd_vm_prepare_instruction` resolve the accounts and runs the callee | the calling instruction's accounts; `fd_vm_prepare_instruction`; the system program |
| features | `flamenco/features/fd_features.h` 12-139 | one activation slot per feature, `ULONG_MAX` when disabled; the ACTIVE / JUST_ACTIVATED macros compare it with the bank's slot; an iterator walks `ids[]` to its `ULONG_MAX` terminator | every feature-gated code path of the runtime |
| topology builder, QUIC TLS, XDP test, vm test helpers | `disco/topo/fd_topob.h`, `waltz/quic/tls/fd_quic_tls.h`, `waltz/xdp/test_xdp_ebpf.c`, `flamenco/vm/test_vm_util.h` | declarations, prototypes and a unit test | not modelled |

The interpreter's C source is not in this tree. `VmInterp` follows the fault contract
documented in `fd_vm.h` (lines 350-452), which covers SIGTEXT, SIGSPLIT, SIGCALL,
SIGSTACK, SIGILL, SIGSEGV, SIGRDONLY and SIGCOST, with the state each leaves `pc`, `ic`,
`cu` and the frames in. The instruction semantics that the header leaves out come from
`spec.md` and are marked `spec_modelled` in the map: add, lddw, the jumps, exit, unknown
syscalls, and the heap rounding.

## Modules

### `FunkWriteLock` (fd_funk.c 419-470)

Constants:
- `Procs` and `Threads`, with `ProcOf` giving the process of each thread;
- `Funks`;
- `HasThreads`, for the `FD_HAS_THREADS` build switch;
- `LockMod`, the width of the `ulong` counter, scaled down to an even number.

State:
- `rwlock[p]`: the owner of process p's static rwlock, or `NoThread`;
- `write_lock[f]`;
- per thread: `pc` (the line reached), `fk` (the funk it writes), `oldval`;
- `crit[p]`: whether process p has aborted in `FD_LOG_CRIT`, and at which message.

Actions: one per step between shared accesses:
- `StartWrite` (`fd_rwlock_write`);
- `LoadOld` (`oldval = funk->write_lock`);
- `CasRetry`, a failed CAS;
- `StartCas` and `EndCas`: a successful CAS, its parity check, and the `FD_LOG_CRIT` or the
  `fd_rwlock_unwrite` that follows;
- `EndWrite`;
- `CheckWrite` (only its aborting case changes state).

A thread of an aborted process takes no step.

The refinement mapping `SectionWriter` gives, for each funk, the thread between the
successful CAS of `fd_funk_start_write` and the successful CAS of `fd_funk_end_write`
on it (`NoThread` if none). `Section == INSTANCE FunkWriteSection WITH writer <-
SectionWriter`, and `ImplementsWriteSection == Section!Spec`.

No run checks `ImplementsWriteSection`. The code mutant that broke it in TLC's runs, a
store in place of the CAS (`StartCasBlind`), breaks `OneWriterPerFunk` as well, so a run
of it added nothing. It is proved instead, for one process
(`SingleProcessRefinement`) and for two (`TwoProcsRefinement`). The proofs also show
the parts of the contract `OneWriterPerFunk` leaves out: a section is closed only by
its opener, and a thread holds at most one section. The model's callers never nest
sections; a nested `fd_funk_start_write` would block on the process's own rwlock
(`fd_funk.c:424`), which is recorded as a hazard.

### `FunkWriteSection` (the contract of fd_funk_start_write / fd_funk_end_write)

The abstract specification. One variable, `writer[f]`. `Open(t, f)` needs no section
open on f and none held by t. `Close(t, f)` needs t to be f's writer. It says nothing of
the rwlock, the counter, or aborts.

### `NativeCpi` (fd_native_cpi.c 7-86)

State:
- the inputs: the transaction's keys `txn_keys`, the caller's accounts `instr` (indices
  into the transaction), and the metas;
- the outputs: `program_id`, `acct_cnt` and the `info` entries (key, txn index, flags,
  duplicate mark);
- the loop state `seen` (`acc_idx_seen`) and `j`, and the `phase` and `result`.

`Init` enumerates every transaction of up to `MaxTxnAccts` distinct keys, every caller
instruction and every meta list made by `fd_native_cpi_create_account_meta`. The
uninitialised `instr_info` on the stack is a nondeterministic entry holding any key or
`NoKey`. The actions follow the function:
- `Search`: lines 19-32;
- `MapMeta`: one pass of the outer loop, 33-58;
- `Encode`: 60-67, which may fail with `FATAL`;
- `Prepare`: the missing-account lookup of `fd_vm_prepare_instruction`, 69-75;
- `Execute`: 77.

Pubkeys are model values. The privilege checks inside `fd_vm_prepare_instruction` and the
system program itself are outside this file, so only their outcome is kept.

### `Features` (fd_features.h 12-139)

State:
- `feat`, the table;
- `slot`, the bank's slot;
- `it` and `touched`, a loop over the `fd_feature_iter_*` API whose body calls
  `fd_features_set`;
- the history variable `activated`, the slot each feature was last activated at (or -1).

Actions:
- `DisableAll`, `EnableAll`, `EnableCleanedUp` and `EnableOneOffs`, whose bodies are not
  in this tree and follow their header comments;
- `SetOne` (`FD_FEATURE_SET_ACTIVE`);
- `IterInit`, `IterBody` and `IterEnd`;
- `NextSlot`.

`ulong` is narrowed to `ULongMod` values, so `FD_FEATURE_DISABLED` is `ULongMod - 1`.
The assumption `SlotMax < ULongMax` states that the bank never reaches slot `ULONG_MAX`.

### `FunkLifecycle` (fd_funk.c 18-360)

The workspace is abstracted to `allocs[f][o]`, a count of the live allocations of each
object kind. `phase` and `step` record where a call of `fd_funk_new` or `fd_funk_delete`
is. Joiners are recorded in `joined[f]`.

Actions:
- `NewBegin`;
- `NewStep`, one of the ten fallible steps succeeding;
- `NewFail`, the cleanup of the step that failed, which frees `Freed(step)`;
- `NewPublish`, the magic store;
- `Join` and `Leave`;
- `DeleteFree`, which frees the four objects;
- `DeleteClear`, which clears the magic.

`FailPoints` picks the steps that may fail in an instance.

### `VmMemory` (fd_vm.h 16-32, 133-205, 331-336)

Translation as operators of the configuration:
- `RegionOf`;
- `RegionLdSz` / `RegionStSz`;
- `InStackFrame` for the guard zones;
- `FragIdx`, the binary search over `input_mem_regions`, written as a recursive function so
  that TLAPS can still be used on modules that extend it;
- `TranslateOk`.

`TranslateRef` is an independent byte-by-byte reference. Addresses are scaled down: a
region spans `Span` bytes instead of 4 GiB. `MemoryAssumption` requires `Span % 8 = 0`:
a region starts at `region << 32`, which is 8-byte aligned, and the heap proof uses it.

### `VmInterp`

State: the fields of `fd_vm_t` that `fd_vm_exec` changes:
- `pc`, `ic`, `cu`, `frame_cnt`, `reg`, `shadow`, `heap_sz`, `segv_vaddr` and
  `segv_access_type`;
- the result, `status`;
- the history variable `blocks`, the heap blocks handed out.

Each action is one outcome of one instruction: a successful step, or a fault with the
accounting `fd_vm.h` documents for it. The pc checks come first, in the order the header
lists them:
- `SigText`: pc is outside the text;
- `SigSplit`: pc is on the second word of an lddw, where only a jump, call or return can
  put it (`fd_vm.h` 372-376);
- `SigCost`: the budget is spent.
`LddwSplit` is the other half of SIGSPLIT: an lddw in the last word. `Illegal` is an
undecodable opcode (388-391). Registers are kept modulo `RegMod`. The model keeps
r0, r1, r6 and r10, and r6 stands for the callee-saved registers r6..r9.

`Metered` is a step property: a step that leaves the run going counts one instruction and
pays at least one compute unit, a syscall's own cost coming on top. It is the ranking
argument behind `Termination`. Its mutant `SyscallUncharged` charges a syscall's cost but
not the instruction itself, and a syscall of cost 0 then runs for free.

### MC modules

| module | what it adds |
|---|---|
| `MC_FunkWriteLock` | model values for processes, threads and funks, and the thread-to-process maps |
| `MC_FunkLifecycle` | the fail points without `alloc_new` |
| `MC_VmInterp` | the instruction words and two instruction sets; every 3-word program over a set is a possible initial text |
| `MC_VmMemory` | a one-variable probe over every access (kind, vaddr, width) of the scaled address space |
| `MC_NativeCpi` | three pubkeys, one of them the system program, and symmetry of the other two |
| `MC_Features` | an `ids[]` table that lists three features out of index order |

## Runs

| run | checks | bounds and why they suffice |
|---|---|---|
| `lock_process` (pass) | `NoCrit`, `WriterAgreement` | one process, 3 threads, 2 funks, `LockMod` 4: two threads contend for the rwlock while a third is in a section; the counter wraps |
| `lock_processes` (pass) | `OneWriterPerFunk`, `CasLoopLockFree` | 2 processes, one with 2 threads, on 2 funks: the CAS loops interleave across processes, the rwlock orders the two threads of one process, and CAS failures occur |
| `lock_nothreads` (violation) | `NoCrit` | without `FD_HAS_THREADS` |
| `lock_three` (violation) | `OneWriterPerFunk` | 3 processes, the least that exposes the abort-after-CAS bug |
| `lifecycle_cleanup` (pass) | `TypeOK`, `NoLeak`, `JoinedSeesLive` | 2 funks, 2 joiners, 2 calls of `fd_funk_new` per funk, every step but `alloc_new` may fail |
| `lifecycle_leak` (violation) | `NoLeak` | `alloc_new` fails |
| `vm_programs` (pass) | `TypeOK`, `FrameDiscipline`, `HeapBlocksDisjoint`, `Metered`, `Termination` | every 3-word program of 12 control-flow instructions and every 3-word program of 12 memory and syscall instructions. `FrameMax` 2 so that the depth limit is reached; `EntryCU` 5 so that loops run out of budget; a read-only, an empty and a writable fragment; allocation sizes 1 and 8 make alignment matter |
| `vm_translate` (pass) | `TranslateMatchesReference` | every access kind and width at every vaddr of the scaled space, over four fragments including an empty one |
| `cpi_mapping` (pass) | `MetaMapping` | up to 3 transaction accounts, 2 caller accounts and 2 metas over 3 keys, with and without the system program: duplicates, unmatched metas and a missing program all occur; `UcharMod` 4 so that the not-found value is a small number |
| `cpi_unmatched` (violation) | `ExecutesRequestedAccounts` | the same instance |
| `features_table` (pass) | `ActiveMeansActivated`, `IterCoversAll` | 3 features listed out of order, slots 0-3 of 8 values with 7 the sentinel, activations at 0, 2 and 3 so that a feature is seen before, at and after its slot |

Every property of a passing run has a mutant in `PROJECT.json`. A mutant is a plausible
bug of the mapped code, and TLC finds the property violated once it is applied. Examples:
- the depth check off by one;
- the CAS that skips its comparison;
- a cleanup path that forgets the transaction map.

### Fairness

- **`FunkWriteLock`** assumes weak fairness of each thread's spin steps (load, CAS retry,
  CAS). A thread in a CAS loop is runnable and the OS keeps scheduling it. Nothing is
  assumed of when a thread starts or ends a section: that is the caller's choice.
- **`VmInterp`** assumes weak fairness of `Next`. `fd_vm_exec` is a run-to-completion loop
  on one thread.

## Findings

1. **Aborting writer unlocks the funk** (`fd_funk.c:432`).
   - `fd_funk_start_write` increments `write_lock` by CAS before it checks that the old
     value was even.
   - Process B finds the lock held, so its CAS makes the count even again, and B aborts.
   - Process C then enters beside the owner A: `lock_three` fails.
2. **`fd_funk_check_write` aborts in a correct section without `FD_HAS_THREADS`**
   (`fd_funk.c:469`). `write_lock` then never changes, so the check always fails:
   `lock_nothreads` fails.
3. **`fd_funk_new` leaks when `fd_alloc_new` fails** (`fd_funk.c:104`). The path frees
   both maps but not the `fd_alloc` allocation from line 95: `lifecycle_leak` fails.
4. **An unmatched account meta leaves a stale `instr_info` entry** (`fd_native_cpi.c:33`).
   - `acct_cnt` counts every meta (line 32), but the loop writes an entry only when the
     meta's pubkey is an account of the calling instruction.
   - The comment at line 18 relies on `fd_vm_prepare_instruction` to catch the missing
     account. It looks the entry up by the pubkey the stack happens to hold.
   - When those bytes are the pubkey of a caller account, the lookup passes and the
     system program runs on an account no meta asked for: `cpi_unmatched` fails.
   - Whether the stale bytes can match depends on the earlier stack contents. The model
     lets them be any key, as undefined behaviour allows.

`spec.md` section 8 also differs from `fd_vm.h` in two places. There the header documents
what the code does, so they are not checked as findings:
- after SIGCALL the header keeps the call's frame allocated (`fd_vm.h:378`), while
  `spec.md` expects `frame_cnt` back to 0;
- a store to a read-only input fragment is SIGSEGV (`fd_vm.h:404`, "currently mapped"),
  while `spec.md` expects SIGRDONLY.

The model follows the header in both.

## Proofs

TLAPS checks every proof here with no step left unproved.

### `FunkWriteLock_proofs`

- **`BumpFlipsParity`**: a CAS bump modulo an even width stays in range and flips parity.
  This is the fact that makes the ulong wrap harmless.
- **`TypeCorrect`**: `Spec => []TypeOK` for all constants satisfying `LockAssumption`.
  The supporting lemma `TypeStep` has one step per action.
- **`SingleProcessSafety`**: with one process and threads enabled,
  `Spec => [](NoCrit /\ WriterAgreement)`.
  - The inductive invariant is `IInv == TypeOK /\ NoCrit /\ WriterAgreement /\ LoadedInv`.
  - `LoadedInv` says that a thread about to CAS holds the current `write_lock` in
    `oldval`. It is needed because otherwise a CAS could succeed on a stale parity. It
    holds since in one process only the rwlock owner touches `write_lock`.
  - The lemma `SingleOwner` derives from `WriterAgreement` that at most one thread is out
    of `idle`.
  - The restriction to one process is essential: with three processes the property is
    false (finding 1).
  - The invariant itself is the lemma `SingleProcessInv`.
- **`SingleProcessRefinement`**: with one process and threads enabled,
  `Spec => ImplementsWriteSection`. The lock implements `FunkWriteSection` under the
  mapping `SectionWriter`.
  - `SectionWriter` is restated as `SW(pc, fk)`. The lemmas `SWNone` and `SWOne` then
    compute it, before and after a step, when no thread or exactly one thread is inside
    a section.
  - `OneBusy` gives that at most one thread is out of `idle`, in both states, from
    `IInv` and `IInv'`.
  - A successful start CAS maps to `Open(t, fk[t])`: no section is open before it.
  - A successful end CAS maps to `Close(t, fk[t])`.
  - `NoCrit'` rules out the aborting branches.
  - Every other action keeps each thread's membership of a section, and its funk, so it
    maps to a stutter.
- **`NoCritHolds`**: the same hypotheses give `Spec => []NoCrit` on its own, the
  property the `lock_process` run checks. The hypothesis `HasThreads` is needed: without
  threads `NoCrit` is false (`lock_nothreads`).

### `FunkLifecycle_proofs`

- The inductive invariant is the lemma **`LifecycleInv`**: when `alloc_new` is not a
  fail point, `Spec => []IInv`. Three theorems follow from it:
  - **`TypeCorrect`**: `Spec => []TypeOK`;
  - **`LifecycleSafety`**: `Spec => []NoLeak`;
  - **`JoinedSeesLiveHolds`**: `Spec => []JoinedSeesLive`.
- `alloc_new` failing is excluded because then `fd_funk_new` leaks the allocator
  (finding on `NoLeak`), so no invariant of that shape holds.
- `NoLeak` alone says nothing while `fd_funk_new` runs. The inductive invariant therefore
  adds `Counts(f)`, which fixes the counts in each phase, and `JoinOk(f)`.
  - In phase `new` at step k, the counts are `Held(o, k)`: 1 exactly for the objects
    allocated before k.
  - In phase `inited` every count is 1.
  - In phase `freed` every count is 0 and the magic is still set.
- The lemmas:
  - `StepHeld`: a successful step moves the counts from `Held(_, k)` to `Held(_, k+1)`;
  - `CleanFailure`: every failure path but step 8 frees exactly `Held(_, k)`;
  - `FrameStep`: a step on one funk leaves the others' invariant alone.

### `VmInterp_proofs`

- **`ConstFacts`** collects the arithmetic facts the proofs need about the constants,
  taken from `MemoryAssumption` and `InterpAssumption`. Citing this small lemma, rather
  than the whole assumptions with their fragment sequences, keeps SMT fast.
- **`FetchedInstr`**, **`FpFacts`**, **`AlignUpFacts`** and **`RegWrite`** are lemmas
  about the helper operators:
  - the fetched word is an `Instr`;
  - consecutive frame pointers are `Stride` apart;
  - `AlignUp` rounds up to an aligned natural;
  - writing an integer into a register keeps `reg` typed.
- **`TypeCorrect`**: `Spec => []TypeOK`. The lemma `TypeStep` has one case per action of
  `Next`. The substance is in the bounds:
  - `cu` stays in `0 .. EntryCU`, which includes the syscall's charge and the
    `SigCost` clamp to 0;
  - `frame_cnt` stays in `0 .. FrameMax`;
  - `heap_sz` stays within `HeapMax` through `sol_alloc_free_`.
- **`FrameDisciplineHolds`**: `Spec => []FrameDiscipline`.
  - `FrameDiscipline` is inductive once `TypeOK` is known in both states. `TypeCorrect`
    supplies that, and the temporal step combines the two.
  - A call pushes the frame pointer of the current depth together with `pc + 1`, where
    `pc` indexes a call word. It then moves r10 one `Stride` up.
  - An exit at depth > 0 restores r10 from the top frame. The top frame holds the
    pointer of the depth below.
  - Every other action writes only r0 or r6, and the lemma `FrameUntouched` covers them.
- **`HeapBlocksDisjointHolds`**: `Spec => []HeapBlocksDisjoint`.
  - `HeapStartAligned`: the heap region starts at a multiple of the heap alignment. This
    needs `Span % 8 = 0` from `MemoryAssumption`.
  - `HeapUntouched`: every action but `sol_alloc_free_` leaves `heap_sz` and `blocks`
    alone.
  - `HeapStep`: an allocation places the new block at `heap_sz` rounded up to the
    alignment, at or above the end of every earlier block, and below the new `heap_sz`.
    So the property is inductive together with `TypeOK`, which `TypeCorrect` supplies.
- **`MeteredHolds`**: `Spec => Metered`. `MeterStep` has one case per group of
  actions:
  - the faulting and halting steps leave `status` other than `"running"`;
  - the instruction steps go through `Charge` (`ChargeMeters`);
  - `Syscall` takes `1 + c` units with `c >= 0`, or faults.
  This needs no invariant beyond `TypeOK`, for `cu` to be an integer.

### `Features_proofs`

The assumption `FeaturesAssumption` says three things:
- `ids[]` lists every feature exactly once (a bijection onto `0 .. FD_FEATURE_ID_CNT-1`);
- the terminator's `ULONG_MAX` index is no feature's index;
- the bank's slot stays below `ULONG_MAX`.

The inductive invariant is `IInv == TypeOK /\ Encoded /\ Walked`:
- `Encoded`: each table entry is `ULONG_MAX` when the history says the feature was never
  activated (or was last disabled), and its activation slot otherwise;
- `Walked`: inside the loop, the features set so far are exactly `ids[0 .. it-1]`.

`DoneAtEnd` shows that `fd_feature_iter_done` holds exactly at the terminator. From these:
- **`TypeCorrect`**: `Spec => []TypeOK`.
- **`SentinelSound`**: `Spec => []ActiveMeansActivated`. This needs `Encoded` and the slot
  bound: at slot `ULONG_MAX` a disabled feature would read as active.
- **`IterCovers`**: `Spec => IterCoversAll`. The loop can only leave at
  `it = FD_FEATURE_ID_CNT`, where `Walked` gives the image of `ids[]`, and that is every
  feature.

### `NativeCpi_proofs`

`MetaMapping` holds for any numbers of transaction accounts, caller accounts and metas,
under `NativeCpiAssumption` (fewer transaction accounts than `UCHAR_MAX`).

The inductive invariant is `IInv == Shape /\ (phase # "search" => ...) /\ MetaMapping`:
- `Shape`: the inputs keep the form `Init` gives them, and the locals have their C types.
- After the search, `program_id` is the least system-program index taken modulo
  `UcharMod`, or `UcharMod - 1` when there is none.
- After the search, the loop counter `j` is within the metas.
- `SeenOk`: `acc_idx_seen[k]` is set exactly when a meta before `j` resolved to caller
  account `k`. `MetaMapping` alone is not inductive without it: the duplicate flag of
  the next meta is read from `acc_idx_seen`.

The lemmas:
- `MinNat`: `Min` of FiniteSetsExt, on a nonempty set of naturals, is its least element.
  This is the index at which the code's search loops stop. It is proved from the
  well-foundedness of `<` on `Nat`.
- `MetaCount`: the number of metas is below `MaxMetas`.
- `QuietStep`, `SearchIInv`, `MapMetaIInv`: one per kind of step.

The theorems:
- **`MetaMappingHolds`**: `Spec => []MetaMapping`.

### `FunkWriteLock_cross_proofs`

Hypotheses: at most two processes (`AtMostTwoProcs`), threads enabled, any numbers of
threads and funks, and any even width of `write_lock`.

The inductive invariant is `CrossInv`. It is the lemma `CrossInvariant`, with one lemma
per action (`StartWriteCross`, `LoopCross`, `StartCasCross`, `EndCasCross`). Its
conjuncts:
- `TypeOK`;
- `RwlockHeld`: each process's rwlock is held by exactly its thread out of `idle`;
- `OneWriterPerFunk`;
- `NoSectionEven`: with no section open on a funk, its `write_lock` is even;
- `EvenMeansOthersDead`: a section open on an even `write_lock` means every other
  process has hit `FD_LOG_CRIT`.

`EvenMeansOthersDead` is what carries the proof across finding 1. When a thread of the
other process bumps an odd `write_lock` to even, it aborts at once. With two processes
there is then nobody left who could open a second section from that even value. With
three processes a live third one can, and the `lock_three` run shows that it does.

The theorems:
- **`OneWriterTwoProcs`**: `Spec => []OneWriterPerFunk`.
- **`TwoProcsRefinement`**: `Spec => ImplementsWriteSection`.
  - `SecStep` shows that every step keeps the sections, opens one on a funk with none
    open by a thread in no section, or closes the caller's own.
  - `Writers` and `SWOf` turn that into a step or a stutter of `FunkWriteSection` under
    `SectionWriter`.

### `VmMemory_proofs`

This module proves `TranslateMatchesReference` for every `Span`, `RodataSz`, stack
geometry, fragment list, `DirectMapping` and `IsDeprecated` that `MemoryAssumption`
allows. The checks that `vm_translate` runs on one instance are thereby proved for all
of them. The module extends `MC_VmMemory`, because the property is stated there.

- **The binary search.** `FragIdx` is a recursive function defined in a `LET`, so
  TLAPS sees it as a `CHOOSE` of a function satisfying its equation (`Search`).
  - `Closed(o, l, r)` is a closed form: the first index in `l..r` whose fragment ends
    past `o`, or `r`.
  - `SearchClosed` shows that the function with those values satisfies the equation,
    with `ClosedStep` handling one halving of the interval. It then shows that every
    solution equals it. Take a counterexample with the least interval length; the lemma
    `Least`, from `WFMin` of `WellFoundedInduction` on the naturals, supplies it. Its
    recursive calls are on shorter intervals, so they agree, and so does the
    counterexample itself.
  - So no induction schema with an operator parameter is needed.
  - `Contiguous` shows that each fragment starts at or after the end of every earlier
    one, from `MemoryAssumption`.
  - `EndMono` shows the fragment ends are monotone.
  - `FragIdxCovers`: for `0 <= o < InputSz`, `FragIdx(o)` is the unique fragment
    holding byte `o` (`CoverUnique`).
- **Regions and units.** `RegionSplit`, `SameRegion` and `BackRegion` relate an
  address to its region and offset through `\div` and `%`.
  - `StackFrame`: the access-wise guard check holds exactly when every byte lies past
    the guard zone, inside the frame of the first byte.
  - `FragRange`: the fragment check holds exactly when every byte lies in a fragment,
    writable for a store, and all bytes lie in the first byte's fragment.
  - `LimitFacts` bounds each region's limit.
- **`TranslateAgrees`**: `TranslateOk(kind, v, sz) <=> TranslateRef(kind, v, sz)` for
  every kind, integer address and width.
  - An access starting past its region's limit is refused by both.
  - Otherwise the proof splits on the region: the stack (its guard zones), the input
    region under direct mapping (its fragments), or any other region.
  - In each case the byte-wise check and the access-wise check are shown equivalent.
    The last byte forces `o + sz <= L`.
- **`TranslateCorrect`**: `ProbeSpec => []TranslateMatchesReference`. The probe is an
  access from `Accesses` that never changes, so the invariant follows from `TranslateAgrees` in
  every state.

### What stays with TLC

These facts are only model-checked:
- **Liveness and `ENABLED`**, which TLAPS cannot prove here: `Termination` and
  `CasLoopLockFree`.
- **What a recursive definition computes for every input** is out of reach when it
  needs the library's induction theorems, which take an operator parameter. The one
  recursive function here, `FragIdx`, avoids them: `VmMemory_proofs` uses a
  least-counterexample argument over the naturals instead.
- **Three or more processes.** `OneWriterPerFunk` is false there (`lock_three`), so
  nothing is proved beyond two.

No module here declares a RECURSIVE operator. Recursion is written as recursive
functions, so the proof modules keep the SMT backend.

## Not modelled, and why

| what | why |
|---|---|
| The `ushort` truncation of `acct_cnt` (`fd_native_cpi.c:32`) | It needs 65536 metas, beyond any enumerable instance; recorded as a hazard. |
| `fd_feature_id_query` | A lookup in a generated table that is not in this tree. |
| Topology builder (`fd_topob.h`), QUIC TLS (`fd_quic_tls.h`) | Prototypes and structure declarations only. The builder's and the handshake's code is not in this tree, so no action could be translated from source. |
| XDP test, vm test helpers | A unit test and test fixtures, with no state worth a model. |
| Crashes inside a funk write section other than `FD_LOG_CRIT`; nested write sections on two funks (a self-deadlock on the static rwlock); joins racing `fd_funk_delete` | Recorded as hazards in `PROJECT.json`. |
| Memory contents, the registers r2-r5 and r7-r9, the trace sink, and the syscalls other than `sol_alloc_free_` | A syscall is an arbitrary cost, result or fault. |

## Plan for later work

1. Proofs about `ExecutesRequestedAccounts` and the `FunkLifecycle` cleanup paths with
   `alloc_new` failing.
2. Per-thread stacks of write sections in `FunkWriteLock`, to show the self-deadlock of
   a nested `fd_funk_start_write` on the static rwlock (`fd_funk.c:424`).
3. Modelling the delete/join window as an interleaving, to show what the magic protocol
   allows when the contract is broken.
4. The privilege checks of `fd_vm_prepare_instruction`, once its source is in the tree.
