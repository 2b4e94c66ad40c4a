-------------------------------- MODULE Atomics --------------------------------
(***************************************************************************)
(* The calls of api/atomics: one file of functions for each operation, for *)
(* the types of 32 and of 64 bits, with a context and without.  Of the     *)
(* non-blocking ones only fetch_add does not wait; the others are the      *)
(* blocking calls under another name.                                      *)
(***************************************************************************)
EXTENDS Requests

AMOBits == TypeBits \cap {32, 64}
Atomic(request) == Call("amo", <<request>>)

\* a C value of the type
Word(bits, value) == [k \in 1..Width(bits) |-> (value \div 2^(k - 1)) % 2]

shmem_atomic_add(ctx, target, value, pe) ==
  {Atomic(shmemc_ctx_add(ctx, target, Word(b, value), pe)) : b \in AMOBits}
shmem_atomic_inc(ctx, target, pe) == shmem_atomic_add(ctx, target, 1, pe)
shmem_atomic_fetch_add(ctx, target, value, pe) ==
  {Atomic(shmemc_ctx_fadd(ctx, target, Word(b, value), pe, Stack)) : b \in AMOBits}
shmem_atomic_fetch_inc(ctx, target, pe) ==
  {Atomic(shmemc_ctx_fadd(ctx, target, Word(b, 1), pe, Stack)) : b \in AMOBits}
shmem_atomic_fetch(ctx, target, pe) ==
  {Atomic(shmemc_ctx_fetch(ctx, target, Width(b), pe, Stack)) : b \in AMOBits}
shmem_atomic_set(ctx, target, value, pe) ==
  {Atomic(shmemc_ctx_set(ctx, target, Word(b, value), pe)) : b \in AMOBits}
shmem_atomic_swap(ctx, target, value, pe) ==
  {Atomic(shmemc_ctx_swap(ctx, target, Word(b, value), pe, Stack)) : b \in AMOBits}
shmem_atomic_compare_swap(ctx, target, cond, value, pe) ==
  {Atomic(shmemc_ctx_cswap(ctx, target, Word(b, cond), Word(b, value), pe, Stack)) :
     b \in AMOBits}

SHMEM_CTX_TYPE_BITWISE(op, ctx, target, value, pe) ==
  {Atomic(shmemc_ctx_bitwise(op, ctx, target, Word(b, value), pe)) : b \in AMOBits}
SHMEM_CTX_TYPE_FETCH_BITWISE(op, ctx, target, value, pe) ==
  {Atomic(shmemc_ctx_fetch_bitwise(op, ctx, target, Word(b, value), pe, Stack)) :
     b \in AMOBits}
shmem_atomic_and(ctx, t, value, pe) == SHMEM_CTX_TYPE_BITWISE("and", ctx, t, value, pe)
shmem_atomic_or(ctx, t, value, pe) == SHMEM_CTX_TYPE_BITWISE("or", ctx, t, value, pe)
shmem_atomic_xor(ctx, t, value, pe) == SHMEM_CTX_TYPE_BITWISE("xor", ctx, t, value, pe)
shmem_atomic_fetch_and(ctx, t, value, pe) ==
  SHMEM_CTX_TYPE_FETCH_BITWISE("and", ctx, t, value, pe)
shmem_atomic_fetch_or(ctx, t, value, pe) ==
  SHMEM_CTX_TYPE_FETCH_BITWISE("or", ctx, t, value, pe)
shmem_atomic_fetch_xor(ctx, t, value, pe) ==
  SHMEM_CTX_TYPE_FETCH_BITWISE("xor", ctx, t, value, pe)

------------------------------------------------------------------------------
\* "NB currently using blocking as first hack": fetch is where the answer goes

shmem_atomic_fetch_nbi(ctx, fetch, target, pe) ==
  {Atomic(shmemc_ctx_fetch(ctx, target, Width(b), pe, fetch)) : b \in AMOBits}
shmem_atomic_fetch_add_nbi(ctx, fetch, target, value, pe) ==
  {Atomic(shmemc_ctx_fadd_nbi(ctx, target, Word(b, value), pe, fetch)) : b \in AMOBits}
shmem_atomic_fetch_inc_nbi(ctx, fetch, target, pe) ==
  {Atomic(shmemc_ctx_fadd(ctx, target, Word(b, 1), pe, fetch)) : b \in AMOBits}
shmem_atomic_swap_nbi(ctx, fetch, target, value, pe) ==
  {Atomic(shmemc_ctx_swap(ctx, target, Word(b, value), pe, fetch)) : b \in AMOBits}
shmem_atomic_compare_swap_nbi(ctx, fetch, target, cond, value, pe) ==
  {Atomic(shmemc_ctx_cswap(ctx, target, Word(b, cond), Word(b, value), pe, fetch)) :
     b \in AMOBits}
SHMEM_CTX_TYPE_FETCH_BITWISE_NBI(op, ctx, fetch, target, value, pe) ==
  {Atomic(shmemc_ctx_fetch_bitwise(op, ctx, target, Word(b, value), pe, fetch)) :
     b \in AMOBits}
shmem_atomic_fetch_and_nbi(ctx, fetch, t, value, pe) ==
  SHMEM_CTX_TYPE_FETCH_BITWISE_NBI("and", ctx, fetch, t, value, pe)
shmem_atomic_fetch_or_nbi(ctx, fetch, t, value, pe) ==
  SHMEM_CTX_TYPE_FETCH_BITWISE_NBI("or", ctx, fetch, t, value, pe)
shmem_atomic_fetch_xor_nbi(ctx, fetch, t, value, pe) ==
  SHMEM_CTX_TYPE_FETCH_BITWISE_NBI("xor", ctx, fetch, t, value, pe)

------------------------------------------------------------------------------
\* api/deprecated/atomics.c: the old names, on the default context

shmem_set(target, value, pe) == shmem_atomic_set(SHMEM_CTX_DEFAULT, target, value, pe)
shmem_inc(target, pe) == shmem_atomic_inc(SHMEM_CTX_DEFAULT, target, pe)
shmem_add(target, value, pe) == shmem_atomic_add(SHMEM_CTX_DEFAULT, target, value, pe)
shmem_fetch(target, pe) == shmem_atomic_fetch(SHMEM_CTX_DEFAULT, target, pe)
shmem_finc(target, pe) == shmem_atomic_fetch_inc(SHMEM_CTX_DEFAULT, target, pe)
shmem_fadd(target, value, pe) ==
  shmem_atomic_fetch_add(SHMEM_CTX_DEFAULT, target, value, pe)
shmem_swap(target, value, pe) == shmem_atomic_swap(SHMEM_CTX_DEFAULT, target, value, pe)
shmem_cswap(target, cond, value, pe) ==
  shmem_atomic_compare_swap(SHMEM_CTX_DEFAULT, target, cond, value, pe)

==============================================================================
