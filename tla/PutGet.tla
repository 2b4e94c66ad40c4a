-------------------------------- MODULE PutGet ---------------------------------
(***************************************************************************)
(* The calls of api/putget.c and api/put_signal.c.  The macro that writes  *)
(* a function is an operator with the size of its type; the functions it   *)
(* writes are a set with one call for each type.                           *)
(***************************************************************************)
EXTENDS Requests

Transfer(request) == Call("rma", <<request>>)

SHMEM_CTX_TYPED_PUT(bits, ctx, dest, src, n, pe) ==
  Transfer(shmemc_ctx_put(ctx, dest, src, Width(bits) * n, pe))
SHMEM_CTX_TYPED_GET(bits, ctx, dest, src, n, pe) ==
  Transfer(shmemc_ctx_get(ctx, dest, src, Width(bits) * n, pe))
SHMEM_CTX_SIZED_PUT(size, ctx, dest, src, n, pe) ==
  Transfer(shmemc_ctx_put(ctx, dest, src, Width(size) * n, pe))
SHMEM_CTX_SIZED_GET(size, ctx, dest, src, n, pe) ==
  Transfer(shmemc_ctx_get(ctx, dest, src, Width(size) * n, pe))
SHMEM_CTX_PUTMEM(ctx, dest, src, len, pe) ==
  Transfer(shmemc_ctx_put(ctx, dest, src, len, pe))
SHMEM_CTX_GETMEM(ctx, dest, src, len, pe) ==
  Transfer(shmemc_ctx_get(ctx, dest, src, len, pe))

\* the strided ones: a blocking transfer for each element
SHMEM_CTX_TYPED_IPUT(bits, ctx, target, source, tst, sst, n, pe) ==
  Call("rma", [i \in 1..n |->
    shmemc_ctx_put(ctx, target + (i - 1) * tst * Width(bits),
                   source + (i - 1) * sst * Width(bits), Width(bits), pe)])
SHMEM_CTX_TYPED_IGET(bits, ctx, target, source, tst, sst, n, pe) ==
  Call("rma", [i \in 1..n |->
    shmemc_ctx_get(ctx, target + (i - 1) * tst * Width(bits),
                   source + (i - 1) * sst * Width(bits), Width(bits), pe)])
SHMEM_CTX_SIZED_IPUT(size, ctx, target, source, tst, sst, n, pe) ==
  SHMEM_CTX_TYPED_IPUT(size, ctx, target, source, tst, sst, n, pe)
SHMEM_CTX_SIZED_IGET(size, ctx, target, source, tst, sst, n, pe) ==
  SHMEM_CTX_TYPED_IGET(size, ctx, target, source, tst, sst, n, pe)

SHMEM_CTX_TYPED_PUT_NBI(bits, ctx, dest, src, n, pe) ==
  Transfer(shmemc_ctx_put_nbi(ctx, dest, src, Width(bits) * n, pe))
SHMEM_CTX_TYPED_GET_NBI(bits, ctx, dest, src, n, pe) ==
  Transfer(shmemc_ctx_get_nbi(ctx, dest, src, Width(bits) * n, pe))
SHMEM_CTX_SIZED_PUT_NBI(size, ctx, dest, src, n, pe) ==
  Transfer(shmemc_ctx_put_nbi(ctx, dest, src, Width(size) * n, pe))
SHMEM_CTX_SIZED_GET_NBI(size, ctx, dest, src, n, pe) ==
  Transfer(shmemc_ctx_get_nbi(ctx, dest, src, Width(size) * n, pe))
SHMEM_CTX_PUTMEM_NBI(ctx, dest, src, len, pe) ==
  Transfer(shmemc_ctx_put_nbi(ctx, dest, src, len, pe))
SHMEM_CTX_GETMEM_NBI(ctx, dest, src, len, pe) ==
  Transfer(shmemc_ctx_get_nbi(ctx, dest, src, len, pe))

\* a single value, from or to a variable of the function
SHMEM_CTX_TYPED_P(bits, ctx, addr, val, pe) ==
  Transfer(shmemc_ctx_put_value(ctx, addr, [k \in 1..Width(bits) |-> val], pe))
SHMEM_CTX_TYPED_G(bits, ctx, addr, pe) ==
  Transfer(shmemc_ctx_get(ctx, Stack, addr, Width(bits), pe))

------------------------------------------------------------------------------
\* The functions with a context.

shmem_ctx_put(ctx, dest, src, n, pe) ==
  {SHMEM_CTX_TYPED_PUT(b, ctx, dest, src, n, pe) : b \in TypeBits}
shmem_ctx_putSIZE(ctx, dest, src, n, pe) ==
  {SHMEM_CTX_SIZED_PUT(b, ctx, dest, src, n, pe) : b \in TypeBits}
shmem_ctx_putmem(ctx, dest, src, len, pe) == {SHMEM_CTX_PUTMEM(ctx, dest, src, len, pe)}
shmem_ctx_p(ctx, addr, val, pe) == {SHMEM_CTX_TYPED_P(b, ctx, addr, val, pe) : b \in TypeBits}
shmem_ctx_iput(ctx, target, source, tst, sst, n, pe) ==
  {SHMEM_CTX_TYPED_IPUT(b, ctx, target, source, tst, sst, n, pe) : b \in TypeBits}
shmem_ctx_iputSIZE(ctx, target, source, tst, sst, n, pe) ==
  {SHMEM_CTX_SIZED_IPUT(b, ctx, target, source, tst, sst, n, pe) : b \in TypeBits}
shmem_ctx_put_nbi(ctx, dest, src, n, pe) ==
  {SHMEM_CTX_TYPED_PUT_NBI(b, ctx, dest, src, n, pe) : b \in TypeBits}
shmem_ctx_putSIZE_nbi(ctx, dest, src, n, pe) ==
  {SHMEM_CTX_SIZED_PUT_NBI(b, ctx, dest, src, n, pe) : b \in TypeBits}
shmem_ctx_putmem_nbi(ctx, dest, src, len, pe) ==
  {SHMEM_CTX_PUTMEM_NBI(ctx, dest, src, len, pe)}

shmem_ctx_get(ctx, dest, src, n, pe) ==
  {SHMEM_CTX_TYPED_GET(b, ctx, dest, src, n, pe) : b \in TypeBits}
shmem_ctx_getSIZE(ctx, dest, src, n, pe) ==
  {SHMEM_CTX_SIZED_GET(b, ctx, dest, src, n, pe) : b \in TypeBits}
shmem_ctx_getmem(ctx, dest, src, len, pe) == {SHMEM_CTX_GETMEM(ctx, dest, src, len, pe)}
shmem_ctx_g(ctx, addr, pe) == {SHMEM_CTX_TYPED_G(b, ctx, addr, pe) : b \in TypeBits}
shmem_ctx_iget(ctx, target, source, tst, sst, n, pe) ==
  {SHMEM_CTX_TYPED_IGET(b, ctx, target, source, tst, sst, n, pe) : b \in TypeBits}
shmem_ctx_igetSIZE(ctx, target, source, tst, sst, n, pe) ==
  {SHMEM_CTX_SIZED_IGET(b, ctx, target, source, tst, sst, n, pe) : b \in TypeBits}
shmem_ctx_get_nbi(ctx, dest, src, n, pe) ==
  {SHMEM_CTX_TYPED_GET_NBI(b, ctx, dest, src, n, pe) : b \in TypeBits}
shmem_ctx_getSIZE_nbi(ctx, dest, src, n, pe) ==
  {SHMEM_CTX_SIZED_GET_NBI(b, ctx, dest, src, n, pe) : b \in TypeBits}
shmem_ctx_getmem_nbi(ctx, dest, src, len, pe) ==
  {SHMEM_CTX_GETMEM_NBI(ctx, dest, src, len, pe)}

------------------------------------------------------------------------------
\* The functions on the default context.

shmem_put(dest, src, n, pe) == shmem_ctx_put(SHMEM_CTX_DEFAULT, dest, src, n, pe)
shmem_iput(target, source, tst, sst, n, pe) ==
  shmem_ctx_iput(SHMEM_CTX_DEFAULT, target, source, tst, sst, n, pe)
shmem_put_nbi(dest, src, n, pe) == shmem_ctx_put_nbi(SHMEM_CTX_DEFAULT, dest, src, n, pe)
shmem_putSIZE(dest, src, n, pe) == shmem_ctx_putSIZE(SHMEM_CTX_DEFAULT, dest, src, n, pe)
shmem_iputSIZE(target, source, tst, sst, n, pe) ==
  shmem_ctx_iputSIZE(SHMEM_CTX_DEFAULT, target, source, tst, sst, n, pe)
shmem_putSIZE_nbi(dest, src, n, pe) ==
  shmem_ctx_putSIZE_nbi(SHMEM_CTX_DEFAULT, dest, src, n, pe)
shmem_putmem(dest, src, len, pe) == shmem_ctx_putmem(SHMEM_CTX_DEFAULT, dest, src, len, pe)
shmem_putmem_nbi(dest, src, len, pe) ==
  shmem_ctx_putmem_nbi(SHMEM_CTX_DEFAULT, dest, src, len, pe)
shmem_p(addr, val, pe) == shmem_ctx_p(SHMEM_CTX_DEFAULT, addr, val, pe)

shmem_get(dest, src, n, pe) == shmem_ctx_get(SHMEM_CTX_DEFAULT, dest, src, n, pe)
shmem_iget(target, source, tst, sst, n, pe) ==
  shmem_ctx_iget(SHMEM_CTX_DEFAULT, target, source, tst, sst, n, pe)
shmem_get_nbi(dest, src, n, pe) == shmem_ctx_get_nbi(SHMEM_CTX_DEFAULT, dest, src, n, pe)
shmem_getSIZE(dest, src, n, pe) == shmem_ctx_getSIZE(SHMEM_CTX_DEFAULT, dest, src, n, pe)
shmem_igetSIZE(target, source, tst, sst, n, pe) ==
  shmem_ctx_igetSIZE(SHMEM_CTX_DEFAULT, target, source, tst, sst, n, pe)
shmem_getSIZE_nbi(dest, src, n, pe) ==
  shmem_ctx_getSIZE_nbi(SHMEM_CTX_DEFAULT, dest, src, n, pe)
shmem_getmem(dest, src, len, pe) == shmem_ctx_getmem(SHMEM_CTX_DEFAULT, dest, src, len, pe)
shmem_getmem_nbi(dest, src, len, pe) ==
  shmem_ctx_getmem_nbi(SHMEM_CTX_DEFAULT, dest, src, len, pe)
shmem_g(addr, pe) == shmem_ctx_g(SHMEM_CTX_DEFAULT, addr, pe)

------------------------------------------------------------------------------
\* put with signal: api/put_signal.c.  A signal has 64 bits.

Signalled(steps) == Call("signal", steps)

SHMEM_CTX_TYPED_PUT_SIGNAL(bits, ctx, dest, src, n, sig, signal, op, pe) ==
  Signalled(shmemc_ctx_put_signal(ctx, dest, src, Width(bits) * n, sig, signal, op, pe))
SHMEM_CTX_DECL_SIZED_PUT_SIGNAL(size, ctx, dest, src, n, sig, signal, op, pe) ==
  Signalled(shmemc_ctx_put_signal(ctx, dest, src, Width(size) * n, sig, signal, op, pe))
SHMEM_CTX_DECL_PUTMEM_SIGNAL(ctx, dest, src, len, sig, signal, op, pe) ==
  Signalled(shmemc_ctx_put_signal(ctx, dest, src, len, sig, signal, op, pe))
SHMEM_CTX_TYPED_PUT_SIGNAL_NBI(bits, ctx, dest, src, n, sig, signal, op, pe) ==
  Signalled(shmemc_ctx_put_signal_nbi(ctx, dest, src, Width(bits) * n, sig, signal, op, pe))
SHMEM_CTX_DECL_SIZED_PUT_SIGNAL_NBI(size, ctx, dest, src, n, sig, signal, op, pe) ==
  Signalled(shmemc_ctx_put_signal_nbi(ctx, dest, src, Width(size) * n, sig, signal, op, pe))
SHMEM_CTX_DECL_PUTMEM_SIGNAL_NBI(ctx, dest, src, len, sig, signal, op, pe) ==
  Signalled(shmemc_ctx_put_signal_nbi(ctx, dest, src, len, sig, signal, op, pe))

shmem_ctx_put_signal(ctx, dest, src, n, sig, signal, op, pe) ==
  {SHMEM_CTX_TYPED_PUT_SIGNAL(b, ctx, dest, src, n, sig, signal, op, pe) : b \in TypeBits}
shmem_put_signal(dest, src, n, sig, signal, op, pe) ==
  shmem_ctx_put_signal(SHMEM_CTX_DEFAULT, dest, src, n, sig, signal, op, pe)
shmem_ctx_putSIZE_signal(ctx, dest, src, n, sig, signal, op, pe) ==
  {SHMEM_CTX_DECL_SIZED_PUT_SIGNAL(b, ctx, dest, src, n, sig, signal, op, pe) : b \in TypeBits}
shmem_putSIZE_signal(dest, src, n, sig, signal, op, pe) ==
  shmem_ctx_putSIZE_signal(SHMEM_CTX_DEFAULT, dest, src, n, sig, signal, op, pe)
shmem_putmem_signal(ctx, dest, src, len, sig, signal, op, pe) ==
  {SHMEM_CTX_DECL_PUTMEM_SIGNAL(ctx, dest, src, len, sig, signal, op, pe)}

shmem_ctx_put_signal_nbi(ctx, dest, src, n, sig, signal, op, pe) ==
  {SHMEM_CTX_TYPED_PUT_SIGNAL_NBI(b, ctx, dest, src, n, sig, signal, op, pe) : b \in TypeBits}
shmem_put_signal_nbi(dest, src, n, sig, signal, op, pe) ==
  shmem_ctx_put_signal_nbi(SHMEM_CTX_DEFAULT, dest, src, n, sig, signal, op, pe)
shmem_ctx_putSIZE_signal_nbi(ctx, dest, src, n, sig, signal, op, pe) ==
  {SHMEM_CTX_DECL_SIZED_PUT_SIGNAL_NBI(b, ctx, dest, src, n, sig, signal, op, pe) : b \in TypeBits}
shmem_putSIZE_signal_nbi(dest, src, n, sig, signal, op, pe) ==
  shmem_ctx_putSIZE_signal_nbi(SHMEM_CTX_DEFAULT, dest, src, n, sig, signal, op, pe)
shmem_putmem_signal_nbi(ctx, dest, src, len, sig, signal, op, pe) ==
  {SHMEM_CTX_DECL_PUTMEM_SIGNAL_NBI(ctx, dest, src, len, sig, signal, op, pe)}

\* the caller's own signal, fetched atomically
shmem_signal_fetch(sig, me) ==
  {Call("amo", <<shmemc_ctx_fetch(SHMEM_CTX_DEFAULT, sig, Width(64), me, Stack)>>)}

------------------------------------------------------------------------------
\* api/fencequiet.c and the extensions, which order and complete at once: they
\* report success whatever the UCX request would say

shmem_ctx_fence(ctx) == Call("fence", <<shmemc_ctx_fence(ctx)>>)
shmem_fence == shmem_ctx_fence(SHMEM_CTX_DEFAULT)
shmem_ctx_quiet(ctx) == Call("quiet", <<shmemc_ctx_quiet(ctx)>>)
shmem_quiet == shmem_ctx_quiet(SHMEM_CTX_DEFAULT)
shmemx_ctx_fence_test(ctx) == shmem_ctx_fence(ctx)
shmemx_ctx_quiet_test(ctx) == shmem_ctx_quiet(ctx)

==============================================================================
