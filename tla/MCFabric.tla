------------------------------- MODULE MCFabric --------------------------------
(***************************************************************************)
(* Programs of the API's calls over the fabric: two PEs whose heaps start  *)
(* at different addresses, a second heap that ends where the first starts. *)
(* PE 0 stores, orders and signals to PE 1, or both use atomic operations  *)
(* on one variable of PE 1.                                                *)
(***************************************************************************)
EXTENDS Fabric, PutGet, Atomics, TLC

CONSTANT Narrow   \* may bitwise operations of 32 bits be emulated?

MCPE == {0, 1}
\* region 1 has the data, region 2 the signal; the globals a source and a buffer
MCBase == [p \in MCPE |-> (0 :> 0) @@ (1 :> IF p = 0 THEN 12 ELSE 26) @@ (2 :> IF p = 0 THEN 10 ELSE 20)]
MCLength == (0 :> 4) @@ (1 :> 2) @@ (2 :> 2)
MCInitialCell(r, off) == IF r = 1 \/ (r = 0 /\ off = 0) THEN 1 ELSE 0

Data(p) == Base[p][1]
Signal(p) == Base[p][2]
Source == 0
Buffer == 2

Puts(c) ==
  UNION {shmem_ctx_put(c, Data(0), Source, 1, 1), shmem_ctx_putSIZE(c, Data(0), Source, 1, 1),
         shmem_ctx_putmem(c, Data(0), Source, 2, 1), shmem_ctx_p(c, Data(0), 0, 1),
         shmem_ctx_put_nbi(c, Data(0), Source, 1, 1), shmem_ctx_putSIZE_nbi(c, Data(0), Source, 1, 1),
         shmem_ctx_putmem_nbi(c, Data(0), Source, 2, 1)}
  \cup {call \in shmem_ctx_iput(c, Data(0), Source, 1, 2, 2, 1)
                   \cup shmem_ctx_iputSIZE(c, Data(0), Source, 1, 2, 2, 1) : call.steps[1].len = 1}
DefaultPuts ==
  UNION {shmem_put(Data(0), Source, 1, 1), shmem_put_nbi(Data(0), Source, 1, 1),
         shmem_putSIZE(Data(0), Source, 1, 1), shmem_putSIZE_nbi(Data(0), Source, 1, 1),
         shmem_putmem(Data(0), Source, 2, 1), shmem_putmem_nbi(Data(0), Source, 2, 1),
         shmem_p(Data(0), 0, 1)}
  \cup {call \in shmem_iput(Data(0), Source, 1, 2, 2, 1)
                   \cup shmem_iputSIZE(Data(0), Source, 1, 2, 2, 1) : call.steps[1].len = 1}
Gets(c) ==
  UNION {shmem_ctx_get(c, Buffer, Data(0), 1, 1), shmem_ctx_getSIZE(c, Buffer, Data(0), 1, 1),
         shmem_ctx_getmem(c, Buffer, Data(0), 2, 1), shmem_ctx_g(c, Data(0), 1),
         shmem_ctx_get_nbi(c, Buffer, Data(0), 1, 1), shmem_ctx_getSIZE_nbi(c, Buffer, Data(0), 1, 1),
         shmem_ctx_getmem_nbi(c, Buffer, Data(0), 2, 1),
         shmem_get(Buffer, Data(0), 1, 1), shmem_get_nbi(Buffer, Data(0), 1, 1),
         shmem_getSIZE(Buffer, Data(0), 1, 1), shmem_getSIZE_nbi(Buffer, Data(0), 1, 1),
         shmem_getmem(Buffer, Data(0), 2, 1), shmem_getmem_nbi(Buffer, Data(0), 2, 1), shmem_g(Data(0), 1),
         shmem_signal_fetch(Signal(0), 0)}
  \cup {call \in UNION {shmem_ctx_iget(c, Buffer, Data(0), 1, 1, 2, 1), shmem_iget(Buffer, Data(0), 1, 1, 2, 1),
                        shmem_ctx_igetSIZE(c, Buffer, Data(0), 1, 1, 2, 1),
                        shmem_igetSIZE(Buffer, Data(0), 1, 1, 2, 1)} : call.steps[1].len = 1}

SignalOps == {"SHMEM_SIGNAL_SET", "SHMEM_SIGNAL_ADD"}
PutSignals(c) ==
  UNION {UNION {shmem_ctx_put_signal(c, Data(0), Source, 1, Signal(0), <<1, 0>>, op, 1),
                shmem_put_signal(Data(0), Source, 1, Signal(0), <<1, 0>>, op, 1),
                shmem_ctx_putSIZE_signal(c, Data(0), Source, 1, Signal(0), <<1, 0>>, op, 1),
                shmem_putSIZE_signal(Data(0), Source, 1, Signal(0), <<1, 0>>, op, 1),
                shmem_putmem_signal(c, Data(0), Source, 2, Signal(0), <<1, 0>>, op, 1),
                shmem_ctx_put_signal_nbi(c, Data(0), Source, 1, Signal(0), <<1, 0>>, op, 1),
                shmem_put_signal_nbi(Data(0), Source, 1, Signal(0), <<1, 0>>, op, 1),
                shmem_ctx_putSIZE_signal_nbi(c, Data(0), Source, 1, Signal(0), <<1, 0>>, op, 1),
                shmem_putSIZE_signal_nbi(Data(0), Source, 1, Signal(0), <<1, 0>>, op, 1),
                shmem_putmem_signal_nbi(c, Data(0), Source, 2, Signal(0), <<1, 0>>, op, 1)} : op \in SignalOps}

\* every atomic operation of the API by PE p on the data of PE 1
Atomics1(c, p) ==
  LET t == Data(p)
      all == UNION {
        shmem_atomic_add(c, t, 1, 1), shmem_atomic_inc(c, t, 1), shmem_inc(t, 1), shmem_add(t, 3, 1),
        shmem_atomic_fetch_add(c, t, 3, 1), shmem_atomic_fetch_inc(c, t, 1), shmem_finc(t, 1),
        shmem_fadd(t, 3, 1), shmem_atomic_fetch(c, t, 1), shmem_fetch(t, 1),
        shmem_atomic_set(c, t, 0, 1), shmem_set(t, 0, 1), shmem_atomic_swap(c, t, 2, 1),
        shmem_swap(t, 2, 1), shmem_atomic_compare_swap(c, t, 3, 0, 1), shmem_cswap(t, 3, 0, 1),
        shmem_atomic_and(c, t, 1, 1), shmem_atomic_or(c, t, 2, 1), shmem_atomic_xor(c, t, 3, 1),
        shmem_atomic_fetch_and(c, t, 1, 1), shmem_atomic_fetch_or(c, t, 2, 1),
        shmem_atomic_fetch_xor(c, t, 3, 1),
        shmem_atomic_fetch_nbi(c, Buffer, t, 1), shmem_atomic_fetch_add_nbi(c, Buffer, t, 1, 1),
        shmem_atomic_fetch_inc_nbi(c, Buffer, t, 1), shmem_atomic_swap_nbi(c, Buffer, t, 0, 1),
        shmem_atomic_compare_swap_nbi(c, Buffer, t, 3, 2, 1), shmem_atomic_fetch_and_nbi(c, Buffer, t, 2, 1),
        shmem_atomic_fetch_or_nbi(c, Buffer, t, 0, 1), shmem_atomic_fetch_xor_nbi(c, Buffer, t, 1, 1)}
  IN  {call \in all : call.steps[1].op # "and" \/ call.steps[1].len = 2 \/ Narrow}

Pair(first, second) == (0 :> first) @@ (1 :> second)

\* PE 0 stores, orders and signals; the source is stored to again after a quiet only
Orderings(c) == {shmem_ctx_fence(c), shmem_ctx_quiet(c), shmemx_ctx_fence_test(c), shmemx_ctx_quiet_test(c),
                 shmem_fence, shmem_quiet}
Ordered ==
  {Pair(<<d, o, s>>, <<>>) : d \in Puts("nostore") \cup DefaultPuts, o \in Orderings("nostore"),
     s \in PutSignals("nostore") \cup shmem_atomic_inc(SHMEM_CTX_DEFAULT, Signal(0), 1)}
Reused ==
  {Pair(<<d, shmem_quiet, Assign(Source, <<0>>)>>, <<a>>) :
     d \in DefaultPuts \cup PutSignals(SHMEM_CTX_DEFAULT), a \in shmem_p(Data(1), 0, 1)}
Fetched ==
  {Pair(<<g, shmem_quiet>>, <<a>>) :
     g \in Gets("nostore"), a \in shmem_p(Data(1), 0, 1) \cup shmem_putmem(Data(1), Source, 2, 1)}
Contended ==
  {Pair(<<a>>, <<b>>) : a \in Atomics1("nostore", 0),
     b \in {call \in Atomics1(SHMEM_CTX_DEFAULT, 1) : call.steps[1].local = Stack}}
Emulated ==
  {Pair(<<a, c>>, <<b>>) :
     a \in shmem_atomic_or(SHMEM_CTX_DEFAULT, Data(0), 2, 1),
     c \in shmem_atomic_fetch_xor(SHMEM_CTX_DEFAULT, Data(0), 3, 1),
     b \in Atomics1(SHMEM_CTX_DEFAULT, 1)}
MCPrograms == Ordered \cup Reused \cup Fetched \cup Contended \cup Emulated

ASSUME Narrow \/ Disciplined

==============================================================================
