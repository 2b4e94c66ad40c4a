------------------------------- MODULE Requests --------------------------------
(***************************************************************************)
(* What the calls of the API ask of the communication layer: the functions *)
(* of shmemc/ucx/comms.c with their arguments.  A call is the list of such *)
(* requests it makes, one after the other; module Fabric carries them out. *)
(*                                                                         *)
(* Memory is counted in cells of 32 bits, the size of the smallest type    *)
(* that has atomics; the smaller types take a cell each.  An address is    *)
(* the caller's own; a variable on the caller's stack has none.            *)
(***************************************************************************)
EXTENDS Integers, Sequences

CONSTANTS
  SHMEM_CTX_DEFAULT,
  SHMEM_CTX_INVALID,
  TypeBits            \* the sizes of the types the program uses

ASSUME TypeAssumption == TypeBits \subseteq {8, 16, 32, 64, 128}
ASSUME HandleAssumption == SHMEM_CTX_DEFAULT # SHMEM_CTX_INVALID

Width(bits) == IF bits <= 32 THEN 1 ELSE bits \div 32
Stack == -1

\* addr is the symmetric address, local the buffer, value what is on the stack
Request(do, op, ctx, addr, local, len, pe, value, cond) ==
  [do |-> do, op |-> op, ctx |-> ctx, addr |-> addr, local |-> local, len |-> len,
   pe |-> pe, value |-> value, cond |-> cond]

shmemc_ctx_put(ctx, dest, src, len, pe) ==
  Request("put", "store", ctx, dest, src, len, pe, <<>>, <<>>)
shmemc_ctx_put_value(ctx, dest, value, pe) ==
  Request("put", "store", ctx, dest, Stack, Len(value), pe, value, <<>>)
shmemc_ctx_put_nbi(ctx, dest, src, len, pe) ==
  Request("put_nbi", "store", ctx, dest, src, len, pe, <<>>, <<>>)
shmemc_ctx_get(ctx, dest, src, len, pe) ==
  Request("get", "load", ctx, src, dest, len, pe, <<>>, <<>>)
shmemc_ctx_get_nbi(ctx, dest, src, len, pe) ==
  Request("get_nbi", "load", ctx, src, dest, len, pe, <<>>, <<>>)

helper_posted_amo(op, ctx, t, value, pe) ==
  Request("post", op, ctx, t, Stack, Len(value), pe, value, <<>>)
helper_fetching_amo(op, ctx, t, value, pe, retp) ==
  Request("fetch", op, ctx, t, retp, Len(value), pe, value, <<>>)
helper_fetching_amo_nbi(op, ctx, t, value, pe, retp) ==
  Request("fetch_nbi", op, ctx, t, retp, Len(value), pe, value, <<>>)

shmemc_ctx_add(ctx, t, value, pe) == helper_posted_amo("add", ctx, t, value, pe)
shmemc_ctx_fadd(ctx, t, value, pe, retp) ==
  helper_fetching_amo("add", ctx, t, value, pe, retp)
shmemc_ctx_fadd_nbi(ctx, t, value, pe, retp) ==
  helper_fetching_amo_nbi("add", ctx, t, value, pe, retp)
shmemc_ctx_swap(ctx, t, value, pe, retp) ==
  helper_fetching_amo("swap", ctx, t, value, pe, retp)
shmemc_ctx_cswap(ctx, t, cond, value, pe, retp) ==
  Request("fetch", "cswap", ctx, t, retp, Len(value), pe, value, cond)

\* a swap whose answer is dropped, and an addition of nothing
shmemc_ctx_set(ctx, t, value, pe) == shmemc_ctx_swap(ctx, t, value, pe, Stack)
shmemc_ctx_fetch(ctx, t, len, pe, valp) ==
  shmemc_ctx_fadd(ctx, t, [k \in 1..len |-> 0], pe, valp)

\* "bitwise helpers": what they become depends on UCX, see Fabric
shmemc_ctx_fetch_bitwise(op, ctx, t, value, pe, retp) ==
  Request("fetch_bitwise", op, ctx, t, retp, Len(value), pe, value, <<>>)
shmemc_ctx_bitwise(op, ctx, t, value, pe) ==
  Request("bitwise", op, ctx, t, Stack, Len(value), pe, value, <<>>)

shmemc_ctx_fence(ctx) == Request("fence", "none", ctx, Stack, Stack, 0, -1, <<>>, <<>>)
shmemc_ctx_quiet(ctx) == Request("quiet", "none", ctx, Stack, Stack, 0, -1, <<>>, <<>>)

\* the data, a fence, and one atomic operation on the signal, set or add
UnfencedSignal(ctx, dest, src, len, sig, signal, op, pe) ==    \* slip: no fence
  <<shmemc_ctx_put(ctx, dest, src, len, pe),
    IF op = "SHMEM_SIGNAL_SET" THEN shmemc_ctx_set(ctx, sig, signal, pe)
    ELSE shmemc_ctx_add(ctx, sig, signal, pe)>>
shmemc_ctx_put_signal(ctx, dest, src, len, sig, signal, op, pe) ==
  <<shmemc_ctx_put(ctx, dest, src, len, pe),
    shmemc_ctx_fence(ctx),
    IF op = "SHMEM_SIGNAL_SET" THEN shmemc_ctx_set(ctx, sig, signal, pe)
    ELSE shmemc_ctx_add(ctx, sig, signal, pe)>>

\* "just use blocking implementation for testing"
shmemc_ctx_put_signal_nbi(ctx, dest, src, len, sig, signal, op, pe) ==
  shmemc_ctx_put_signal(ctx, dest, src, len, sig, signal, op, pe)

\* A call of the API, by the kind of promise OpenSHMEM makes for it.
Call(kind, steps) == [kind |-> kind, steps |-> steps]

\* Not a call: the program stores to a variable of its own.
Assign(addr, value) ==
  Call("assign", <<Request("assign", "store", SHMEM_CTX_INVALID, addr, addr, Len(value), -1, value, <<>>)>>)

==============================================================================
