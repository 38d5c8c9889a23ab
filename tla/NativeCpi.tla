----------------------------- MODULE NativeCpi -----------------------------
(***************************************************************************)
(* A native program's cross-program invocation of the system program      *)
(* (fd_native_cpi.c, fd_native_cpi_execute_system_program_instruction).    *)
(*                                                                         *)
(* The function looks up the system program among the transaction's      *)
(* accounts, then turns each account meta into an entry of the callee's    *)
(* instr_info: it takes the first account of the calling instruction with *)
(* the meta's pubkey, marks the entry a duplicate when an earlier meta took *)
(* the same account, and sets the writable/signer flags from the meta.  A  *)
(* meta that matches no account of the calling instruction leaves its      *)
(* entry as the stack left it.  The instruction is then encoded,           *)
(* fd_vm_prepare_instruction resolves the entries against the caller, and  *)
(* fd_execute_instr runs the callee.                                       *)
(*                                                                         *)
(* Pubkeys are model values.  The uninitialised stack entry is a           *)
(* nondeterministic choice of the pubkey it holds, the field               *)
(* fd_vm_prepare_instruction looks up.  The encoded bytes and the callee's *)
(* execution are abstracted to their outcome.                             *)
(***************************************************************************)
EXTENDS Naturals, FiniteSets, FiniteSetsExt, Functions

CONSTANTS
    Keys,          \* account pubkeys
    SysProg,       \* fd_solana_system_program_id
    NoKey,         \* stack bytes that are no account's pubkey
    MaxTxnAccts,   \* bound on txn_ctx->accounts_cnt (FD_TXN_ACCT_ADDR_MAX)
    MaxInstrAccts, \* bound on the calling instruction's acct_cnt
    MaxMetas,      \* bound on acct_metas_len
    UcharMod,      \* 2^8: program_id is a uchar
    UshortMod,     \* 2^16: acct_cnt is a ushort
    EncodeCanFail  \* whether fd_system_program_instruction_encode may fail

ASSUME NativeCpiAssumption ==
    /\ SysProg \in Keys
    /\ NoKey \notin Keys
    /\ {MaxTxnAccts, MaxInstrAccts, MaxMetas} \subseteq Nat
    /\ UcharMod \in Nat \ {0}
    /\ UshortMod \in Nat \ {0}
    /\ EncodeCanFail \in BOOLEAN
    /\ MaxTxnAccts < UcharMod   \* at most 128 accounts, below 2^8

\* C arrays of n elements are indexed 0 .. n-1.
Idx(n) == 0 .. n - 1

\* The privileges a meta asks for: is_writable and is_signer.
Flags == SUBSET {"writable", "signer"}

\* fd_native_cpi_create_account_meta(key, is_signer, is_writable, meta).
CreateAccountMeta(key, is_signer, is_writable) ==
    [pubkey |-> key,
     flags  |-> (IF is_signer THEN {"signer"} ELSE {})
                \cup (IF is_writable THEN {"writable"} ELSE {})]

\* Entries of instr_info as the stack holds them before they are written.
Junk == {[key |-> k, txn_idx |-> 0, flags |-> {}, dup |-> 0] : k \in Keys \cup {NoKey}}

VARIABLES
    txn_keys,   \* ctx->txn_ctx->account_keys, indexed by txn account
    instr,      \* ctx->instr: instr[k] is the txn index of its account k
    metas,      \* acct_metas
    program_id, \* instr_info->program_id
    acct_cnt,   \* instr_info->acct_cnt
    info,       \* instr_info entries: key, txn_idx, flags, is_duplicate
    seen,       \* acc_idx_seen, indexed by the caller's account k
    j,          \* the meta the loop is at
    phase,      \* "search", "map", "prepare", "exec", "done"
    result      \* the value returned, "none" before the return

vars == <<txn_keys, instr, metas, program_id, acct_cnt, info, seen, j, phase, result>>

\* A call: a transaction with distinct account keys, a calling instruction
\* whose accounts are some of them, and the metas built by
\* fd_native_cpi_create_account_meta; instr_info is uninitialised.
Init ==
    /\ \E n \in 1 .. MaxTxnAccts, m \in 0 .. MaxInstrAccts, l \in 0 .. MaxMetas :
          /\ txn_keys \in {f \in [Idx(n) -> Keys] : IsInjective(f)}
          /\ instr \in [Idx(m) -> Idx(n)]
          /\ metas \in [Idx(l) -> {CreateAccountMeta(k, s, w) :
                                      k \in Keys, s \in BOOLEAN, w \in BOOLEAN}]
    /\ info \in [Idx(MaxMetas) -> Junk]
    /\ program_id = 0
    /\ acct_cnt = 0
    /\ seen = [k \in Idx(MaxInstrAccts) |-> 0]
    /\ j = 0
    /\ phase = "search"
    /\ result = "none"

\* The pubkey of account k of the calling instruction.
CallerKey(k) == txn_keys[instr[k]]

NMetas == Cardinality(DOMAIN metas)

-----------------------------------------------------------------------------
\* program_id = UCHAR_MAX, then the index of the first transaction account
\* that is the system program, cast to uchar (lines 19-27); acc_idx_seen
\* is zeroed and acct_cnt set to acct_metas_len cast to ushort (29-32).
Search ==
    /\ phase = "search"
    /\ LET hits == {i \in DOMAIN txn_keys : txn_keys[i] = SysProg}
       IN  program_id' = IF hits = {} THEN UcharMod - 1 ELSE Min(hits) % UcharMod
    /\ seen' = [k \in DOMAIN seen |-> 0]
    /\ acct_cnt' = NMetas % UshortMod
    /\ j' = 0
    /\ phase' = "map"
    /\ UNCHANGED <<txn_keys, instr, metas, info, result>>

\* The accounts of the calling instruction with the pubkey of meta jj.
Matches(jj) == {k \in DOMAIN instr : CallerKey(k) = metas[jj].pubkey}

\* Mutant of MapMeta: acc_idx_seen is set before is_duplicate reads it.
MapMetaSeenFirst ==
    /\ phase = "map"
    /\ j < NMetas
    /\ IF Matches(j) = {}
         THEN UNCHANGED <<info, seen>>
         ELSE LET k == Min(Matches(j))
              IN  /\ info' = [info EXCEPT ![j] =
                        [key |-> CallerKey(k), txn_idx |-> instr[k],
                         flags |-> metas[j].flags, dup |-> 1]]
                  /\ seen' = [seen EXCEPT ![k] = 1]
    /\ j' = j + 1
    /\ UNCHANGED <<txn_keys, instr, metas, program_id, acct_cnt, phase, result>>

\* One pass of the outer loop (lines 33-58): the inner loop stops at the
\* first account k of the caller with the meta's pubkey; the entry copies
\* it, is a duplicate when acc_idx_seen[k] was set, and takes the meta's
\* flags.  With no such k the entry is left alone.
MapMeta ==
    /\ phase = "map"
    /\ j < NMetas
    /\ IF Matches(j) = {}
         THEN UNCHANGED <<info, seen>>
         ELSE LET k == Min(Matches(j))
              IN  /\ info' = [info EXCEPT ![j] =
                        [key |-> CallerKey(k), txn_idx |-> instr[k],
                         flags |-> metas[j].flags, dup |-> seen[k]]]
                  /\ seen' = [seen EXCEPT ![k] = 1]
    /\ j' = j + 1
    /\ UNCHANGED <<txn_keys, instr, metas, program_id, acct_cnt, phase, result>>

\* The loop is done; fd_system_program_instruction_encode into the 4096
\* byte buffer, and FD_EXECUTOR_INSTR_ERR_FATAL if it fails (lines 60-67).
Encode ==
    /\ phase = "map"
    /\ j = NMetas
    /\ \/ /\ EncodeCanFail
          /\ phase' = "done"
          /\ result' = "fatal"
       \/ /\ phase' = "prepare"
          /\ UNCHANGED result
    /\ UNCHANGED <<txn_keys, instr, metas, program_id, acct_cnt, info, seen, j>>

\* fd_vm_prepare_instruction (lines 69-75) looks each of the acct_cnt
\* entries up by pubkey among the caller's accounts and fails with a
\* missing-account error when one is not there (the case line 18 leaves
\* to it); its privilege checks are not modelled.
Prepare ==
    /\ phase = "prepare"
    /\ IF \A e \in Idx(acct_cnt) : \E k \in DOMAIN instr : info[e].key = CallerKey(k)
         THEN /\ phase' = "exec"
              /\ UNCHANGED result
         ELSE /\ phase' = "done"
              /\ result' = "missing_account"
    /\ UNCHANGED <<txn_keys, instr, metas, program_id, acct_cnt, info, seen, j>>

\* fd_execute_instr runs the system program on instr_info (line 77).
Execute ==
    /\ phase = "exec"
    /\ phase' = "done"
    /\ result' \in {"success", "instr_err"}
    /\ UNCHANGED <<txn_keys, instr, metas, program_id, acct_cnt, info, seen, j>>

Next == Search \/ MapMeta \/ Encode \/ Prepare \/ Execute

\* The function returns once: the run ends when phase is "done".
Spec == Init /\ [][Next]_vars

-----------------------------------------------------------------------------
\* Metas whose entry the loop has written so far.
Mapped == {jj \in Idx(j) : Matches(jj) # {}}

\* Every meta the loop has passed and that names an account of the calling
\* instruction has the entry a declarative reading of the code asks for:
\* the first such account, the meta's own flags, and is_duplicate set
\* exactly when an earlier meta resolved to the same account, so that of
\* the metas naming one account only the first is not a duplicate.
MetaMapping ==
    phase # "search" =>
        \A jj \in Mapped :
            LET k == Min(Matches(jj))
            IN  info[jj] = [key |-> CallerKey(k), txn_idx |-> instr[k],
                            flags |-> metas[jj].flags,
                            dup |-> IF \E i \in Idx(jj) : Matches(i) # {} /\ Min(Matches(i)) = k
                                      THEN 1 ELSE 0]

\* The comment at line 18 relies on fd_vm_prepare_instruction to reject a
\* meta with no account in the calling instruction: so when the callee
\* runs, every entry of instr_info is the account its meta asked for.
ExecutesRequestedAccounts ==
    phase = "exec" => \A e \in Idx(acct_cnt) : info[e].key = metas[e].pubkey

=============================================================================
