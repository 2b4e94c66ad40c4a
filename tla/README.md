# A verification of OSSS-UCX

OSSS-UCX implements OpenSHMEM 1.5 on UCX. This directory holds TLA+ modules
translated from its C sources, the TLC configurations that check them on small
instances, and TLAPS proofs of the properties that matter most for every value
of the constants. File names below are relative to `src/osss-ucx/src/`.

    tlc -config BinomialBarrier.cfg MCTreeBarrier     # check one run
    tlapm TreeBarrier_proof.tla                       # check one proof module

PROJECT.json lists the runs, the slips (wrong variants of a definition that
each property must catch), the source lines every definition stands for, the
hazards of the code, the findings and the theorems.

## 1. The system

A job is a fixed number of processes, the PEs. Each has the same *symmetric*
variables and heaps; a PE reads and writes another's by one-sided operations.
Nothing runs at the target of an operation: every protocol here is made of
words that others put to or increment, and of local polling.

The layers, top to bottom: `api/` (the calls of the programmer, mutexes,
argument checks), `shcoll/` (collective algorithms, written on top of `api/`),
`shmemc/` (contexts, teams, heaps, life cycle) and `shmemc/ucx/` (posts
operations to UCX workers; completion is a fence or a quiet per context).

### Inventory

What each component keeps, does, and must not get wrong. "Status" says where it
stands; the notes in PROJECT.json say the same per source file.

| Component | State | Operations | Hard because | Correct when | Status |
|---|---|---|---|---|---|
| Barriers, syncs (`shcoll/src/barrier.c`) | a pSync word (or a few) per PE | five algorithms x barrier/sync | pokes and resets go to one word, unordered; a fast PE is one barrier ahead | nobody leaves before all have entered; pSync is restored; puts are complete (barrier); all return | modelled |
| Trees (`shcoll/src/util/trees.c`) | none | parent and children of a node: binomial, k-nomial, complete, and rooted | each PE computes its own view; sizes that are not powers, rotated indices | the views fit together to one tree under the root | modelled |
| Broadcast (`shcoll/src/broadcast.c`) | pSync, source, target | linear, 3 trees, k-nomial with signal, scatter-collect | non-blocking puts, read when they land; signal vs data; acks before forwarding | data there on return, buffers and pSync reusable | modelled |
| Locks (`api/lock.c`) | two words per lock and PE | set, test, clear | compare-and-swap races, threads of one PE, leftovers of a queue lock | mutual exclusion, hand-over of data, progress | modelled |
| Partition heaps (`api/shmalloc.c`, `api/allocator/memalloc.c`) | a buddy tree per PE | malloc, free | allocators agree without talking; only barriers keep them in step | same address everywhere; in use stays in use; nothing forgotten | modelled (the dlmalloc heap is not) |
| Waits, tests (`shmemc/ucx/waituntil.c`, `test.c`, `api/wait*.c`, `api/test*.c`) | the mutex; locals of a scan | wait_until, signal_wait_until, test; all, any, some, with status and vector forms | variables change between two looks | what is returned has held; what holds is not missed; waits end | modelled |
| Fabric (`shmemc/ucx/comms.c`, `api/putget.c`, `put_signal.c`, `fencequiet.c`, `api/atomics/`) | operations in flight per context | put, get, their nbi forms, AMOs, put_signal, fence, quiet | no order but what fence and quiet make; per context | an AMO is atomic; a signal follows its data; quiet leaves nothing behind | modelled |
| Contexts (`shmemc/contexts.c`, `shmemc/ucx/contexts.c`) | a table and a free list per library, a worker each | create, destroy | reuse of slots and workers, creation that fails half way | a slot has one owner and a worker; what is torn down is no longer used | modelled, but for a worker's thread mode |
| Teams (`shmemc/teams.c`, `shmemc/ucx/teams.c`) | maps between team and world numbers, pSyncs | split strided, 2D, translate, destroy | map arithmetic on every PE alone; collective allocation | a translated number is the same PE's, through any chain of splits | partly: not the pSyncs, nor splits that ask for more numbers than there are; 2D is a stub in the code |
| Collect, fcollect, alltoall(s), reductions (`shcoll/src/`) | pSync windows, rounds, buffers | ring, Bruck, recursive doubling, exchanges | PEs several rounds apart share slots | everybody gets every contribution once, inside its buffers; pSync is restored | modelled |
| Registry (`api/collectives/table.c`) | one pointer per collective | choose by name | - | all PEs run the same algorithm | the choice, in `FlatBarriers` |
| Life cycle (`api/init.c`, `shmemc/init.c`, `shmemc/ucx/init.c`, `pmix_client.c`, `globalexit.c`) | reference count, exchanged keys | init, finalize, global exit | order between exchanges and fences; exit handlers | keys are published before they are read; one tear-down, of what nobody uses | modelled |
| Progress thread, mutex (`shmemu/progress.c`, `shmemt/`) | a stop flag, a mutex | start, stop; lock, unlock | threads of the program on one worker | no thread in the library without the mutex where it is promised | modelled: the mutex in `Waits` and `Contexts`, the thread in `Library` |
| Extra heaps (`api/extensions/shmalloc.c`) | name and index tables | create, malloc by index or name | the forms by name have no barrier | as partition heaps | not modelled |
| dlmalloc, klib (`ptmalloc/`, `klib/`) | | | vendored | | not modelled |
| Environment, logging, parsing, info | | | sequential, no protocol depends on it | | not modelled |
| Launchers, examples, tests | | | programs that use the library | | not modelled |

How they interact: a barrier begins with a quiet of the fabric and climbs down a
tree; allocation and the linear collectives call barriers; locks flush with a
quiet and claim with an AMO; every collective waits with `shmem_long_wait_until`,
which polls memory and lets UCX make progress. Initialisation publishes with PMIx
the workers and keys that every later operation is posted with, and finalisation
takes contexts, workers and memory down while other PEs may still be sending.

Concurrency is everywhere (PEs, threads of a PE, operations in flight), and
memory is only ordered by fences, quiets and waits. There is no persistence, no
retry and no message loss: a PE that dies takes the job down. Crash recovery,
loss and duplication are therefore not modelled; global exit, which stops the
job in whatever state its PEs are, is.

## 2. Modules

| Module | What it is | Source |
|---|---|---|
| `Barrier` | what a barrier promises | - |
| `TreeBarrier` | the three tree barriers over any tree | `shcoll/src/barrier.c:64-196,234-263` |
| `MCTreeBarrier` | its instances: the trees of `Trees`, for every size, root and radix up to a bound | |
| `TreeBarrier_proof` | theorems about `TreeBarrier`, and about the trees of `Trees` | |
| `Trees` | the tree arithmetic | `shcoll/src/util/trees.c` |
| `FlatBarrier` | what the next two share | |
| `LinearBarrier`, `DisseminationBarrier` | the two barriers without a tree | `barrier.c:25-58`, `202-232` |
| `FlatBarriers` | the choice between them at initialisation | `api/collectives/table.c` |
| `Lock` | what a lock promises | - |
| `DistLock`, `MCDistLock` | the distributed lock | `api/lock.c` |
| `DistLock_proof` | theorems about `DistLock` | |
| `Broadcast` | what a broadcast promises | - |
| `TreeBroadcast`, `MCTreeBroadcast` | the tree broadcasts | `shcoll/src/broadcast.c:41-254` |
| `TreeBroadcast_proof` | theorems about `TreeBroadcast` | |
| `Buddy` | the buddy allocator, as operators | `api/allocator/memalloc.c` |
| `SymmetricHeap` | the collective allocation protocol over `Buddy` and `Barrier` | `api/shmalloc.c:170-203` |
| `SymmetricHeap_proof` | theorems about `SymmetricHeap` | |
| `Waits` | waits and tests | `shmemc/ucx/waituntil.c`, `test.c`, `api/wait*.c`, `api/test*.c` |
| `Waits_proof` | theorems about `Waits` | |
| `Requests` | the operations of `shmemc` as requests to a worker | `shmemc/ucx/comms.c` |
| `PutGet`, `Atomics` | the calls of the API as lists of requests | `api/putget.c`, `put_signal.c`, `fencequiet.c`, `api/atomics/` |
| `AtomicMemory` | what the layer promises: each operation once, atomically | - |
| `Fabric`, `MCFabric` | the layer over UCX, and small programs for it | `shmemc/ucx/comms.c` |
| `Fabric_proof` | theorems about `Fabric` | |
| `Steps` | statements, the prefix sum, rotations: what collectives are made of | `shcoll/src/util/`, `shcoll/src/shcoll/compat.h` |
| `Collect`, `Fcollect`, `Alltoall`, `Reduction`, `ScatterCollect` | every algorithm as the statements a PE goes through | `shcoll/src/collect.c`, `fcollect.c`, `alltoall.c`, `alltoalls.c`, `reduction.c`, `broadcast.c` |
| `Exchange`, `MCExchange` | PEs that go through them over a late fabric; the calls that are made | `api/collectives/shcoll-shim.c` |
| `Collectives_proof` | theorems about `FlatBarriers`, and about the exchanges of alltoall, alltoalls and fcollect in `Exchange` | |
| `Contexts` | slots, free list, workers and the mutex | `shmemc/contexts.c`, `api/contexts.c`, `shmemt/` |
| `Teams` | the maps of a team, splits, translation, as operators | `shmemc/teams.c` |
| `Library`, `MCLibrary` | the life of the library around the last two | `api/init.c`, `shmemc/init.c`, `shmemc/ucx/init.c`, `eps.c`, `pmix_client.c`, `shmemu/progress.c` |
| `Library_proof` | lemmas about the operators of `Teams`, theorems about contexts, teams and tear-down in `Library` | |

### How state and actions correspond to the code

**One action** is what one thread does between two effects that another can see:
a post to the fabric, a wait that succeeds, an AMO that blocks. A polling loop
that finds nothing changes nothing and is no step. Local loops that only post to
distinct targets are one step.

**The fabric** appears in each module as the operations in flight that its
protocol can have: counts per pair for increments, sets for puts. They land in
any order, except where a module has a fence. A quiet (`Quiesced`) is a guard
"nothing of mine is in flight". A *blocking put* returns when its source may be
reused (`comms.c:896-898` waits for local completion only), so it too is in
flight after the call; a *blocking AMO* has happened when it returns.

**Words** that live in memory (`pSync`, lock words, waited-for variables) are
variables of the models; what a caller would print or log is not. pSync values
are offsets from `SHCOLL_SYNC_VALUE`. PE numbers are indices of the active set:
`PE_start` and the stride only rename PEs, except where the code mixes the two
(`ActsAsRoot` in `TreeBroadcast`).

`TreeBarrier`. `Enter` is the entry point with its quiet (barrier) or without
it (sync); `Climb` waits for the children's pokes and pokes the parent; `Turn`
is the root's end of the gathering; `Await` waits for the parent's poke;
`Release` resets pSync with a put to oneself, pokes the children and returns.
The code writes the reset and the pokes in that order and no fence between them.
A put to oneself is a put like any other: the reset of every PE stays in flight
(`clear`) until it lands (`DeliverClear`), on whatever has come meanwhile. `unacked`,
`from`, `lost`, `entered` and `left` are history or program state: data puts not
complete, whose pokes a word holds, whose pokes of a later barrier a reset has
overwritten, and how many barriers were called and have returned.

`LinearBarrier` and `DisseminationBarrier` follow the code line by line; each
PE's own reset is in flight until it lands, because these two wait for it, or use
a blocking fetch-and-add. `FlatBarriers` is the table look-up followed by the
chosen one.

`DistLock`. The AMOs of `try_request_lock` and `try_clear_lock` are atomic steps
on the owner's word. Threads of one PE share its number, its `node` word and its
context. `Request` is one turn of the loop of `shmem_set_lock`; `Execute`
ends it; `Test` is `shmem_test_lock`; `CallClear`, `ClearRequest`,
`ClearExecute` are the flush and the two phases of the release. `Write` and
`Deliver` are a remote write the program makes under the lock.

`TreeBroadcast`. `Enter`, `Receive` (wait for the signal, send the ack), `Send`
(the puts of a batch, one fence, the signals), `AwaitAcks`, `Restore`, which posts the
reset of pSync and returns; `DeliverClear` lands it. `Meet` is the program's part: the
barrier, with its quiet, that OpenSHMEM asks for between two collectives on one pSync. (A
sync would not do: a signal of the next broadcast could then be erased by a reset that
lands late. The slip `QuietPast` shows it.) The four tree algorithms differ in the tree, in how many children a fence covers
(`Batches`), and in whether the signal is an increment or a store
(`SignalByPut`). `Land` copies the sender's buffer at the moment the put lands,
not when it was posted.

`Buddy` and `SymmetricHeap`. Tree nodes, the way down and the refresh on the way
up are those of the code, on units; addresses go through the same shift, of
`Width` bits. `calls` is the program, written as it goes: any allocation, and the
release of any block it holds, in any order, the same at every PE. A barrier is
the abstract one (`Barrier`), which the run of the real one justifies.

`Waits`. A thread is in one call at a time; `Begin` chooses any entry point and
arguments. Each step looks at one variable. `seen` and `steady` are history:
the variables whose condition held at some time in the call, and those for
which it held all along. The type of a variable is its width (`Signed`: the
API casts all of them to `int16_t`, `int32_t` or `int64_t`). `ucp_worker_wait_mem`
and the yields change nothing that is modelled.

`Fabric`. A call is a list of requests; a PE takes one after the other. A
request becomes messages: a transfer one per cell, an atomic operation one that
lands whole. `flight` is what has not landed, and an epoch per worker and PE stands
for `ucp_worker_fence`. A non-blocking put reads its source when it lands.
Addresses are translated as in `comms.c`: by region, from this PE's base to the
target's; the run gives each PE other bases. A 32-bit cell has one bit, a 64-bit
variable two: enough to see a carry, or a neighbour that changes. Without
`HAVE_UCP_BITWISE_ATOMICS`, `Emulate`, `LandEmulatedGet` and `LandEmulatedSwap` are
the loop of a get and a compare-and-swap.

`Steps` to `Exchange`. A collective is translated into the list of its statements
for a PE and a case (the arguments of the call), with what the PE has read from
pSync so far as a parameter: the control of a collective depends on nothing else.
`Advance` does the statement a PE waits at, then posts all that follow up to the
next that waits or uses the PE's memory. `Steps` has C's operators on bits as
functions of its own, by a + b = (a ^ b) + 2 (a & b). Blocks have distinct elements,
so a block that is missing, doubled or out of place shows. A barrier inside an
algorithm is the promise of `Barrier`: `Arrive`, and then wait for everybody.

`Contexts`. `Create`, `get_usable_context` and `CreateReturns` are the look at the
free list and at `nctxts`, the taking of the slot with the growth of the table, and
the worker; `Destroy` and `context_deregister` the quiet and the return of the slot.
Between them other threads run; the mutex is what keeps them out, as it does at
`SHMEM_THREAD_MULTIPLE`. The library has one table in use: `shmem_ctx_create` makes
contexts in the world team and no call makes them in another. A context is used and
destroyed by the thread that made it.

`Teams`. Maps are functions with the domain the hash tables have. A split keeps
the members that `is_member` accepts *when it is given the size for the stride*
(`teams.c:310`), as the code does, so a team may have numbers without a PE; `asked`
remembers what the program asked for. The next split looks such a number up without
asking whether it is there, and takes what lies past the map's array for a PE: `past`, one
of the numbers in `Garbage`, a PE or not. In a map that nothing was ever put in there is
no array, and the look goes through a null pointer: `SplitNobody`, after which the launcher
ends the job. `found` has the numbers that were found all the way from the library's teams.
The program splits within the numbers a team was made with. `peers` takes PMIx to place
the PEs on the nodes one after the other.

`Library`. A PE goes through the stages of `init_thread_helper` and
`finalize_helper`, between which everybody meets: the three PMIx fences and the
barrier of initialisation, the barrier and the fence of finalisation. `posted` and
`got` are what PMIx has been given and has given. Tear-down takes a context at a
time and waits for what was put on it, as closing an endpoint with a flush does.
`AtExit` is the handler registered with `atexit`, whether or not the program has
finalised. `shmem_global_exit` notifies PMIx and returns; `notification_fn` is the
handler, in every PE.

## 3. Runs

| Run | Asks | Bounds, and why they are enough |
|---|---|---|
| `tree_barrier` | does the default barrier keep its promise on an unordered fabric, and when does it end? | Four PEs: a root with two children, one of them an inner node; leaves of two depths. Three barriers: a reset of the first that lands in the second may overwrite a poke of it, and if nobody noticed, the third would show it. Resets land late at any PE. Data puts in every epoch. The proof drops the bounds. And do the views of the nodes fit together? Every size to 16, every root, radix 2-4: sizes that are powers, one less and one more, and up to four levels. |
| `flat_barriers` | are the linear and the dissemination barrier barriers, called three times? | four PEs: two rounds of dissemination, in which the second's target is two places away; three calls, so that a late reset or an early poke has two barriers to spoil. Syncs: the quiet would hide late deliveries. |
| `lock` | exclusion, hand-over, no dead code reached, progress? | three threads, two of them on one PE, which is number 0 (the value of an unset field); calls without end. The proof drops the bounds. |
| `tree_broadcast` | data, buffers and pSync on return? | PE 2 of 4 as the root: rotated indices, one inner node, one child that forwards, two broadcasts on one pSync, whose resets land late. |
| `symmetric_heap` | is memory in use safe, and no free memory lost? | two PEs, four grains, sizes that round up, sizes of nothing; every program of five calls: two blocks released in both orders and the whole asked for again. |
| `waits` | is an answer about changing variables true? | two variables of two bits, one negative value, all six comparisons, with and without a status array, every entry point. Two is the least number for which a scan can be overtaken. One thread: the calls share only the mutex. |
| `fabric` | does each operation happen once, on the right variable, in the order promised? | two PEs, three regions with other bases at each, one context that stores and one that does not, native and emulated AMOs. Every call of the API with a fence or quiet and a signal after it; a source used again after a quiet; a get against a put; every AMO against every other on one word. Types of 32 and 64 bits, the only two sizes. |
| `exchange` | does each algorithm move every block where it belongs? | every algorithm of `shcoll`, two to four members (what powers of 2, odd and even numbers ask for), sets that start at 1 with stride 2 where the code copes, blocks of 0 to 5 elements of different sizes. One call: the next finds pSync restored (`PSyncGivenBack`). |
| `library` | who owns a slot, who is still there, is a translation true, does everybody get out? | two PEs, the first with two threads that make three contexts (the table grows by one slot, so it grows, and a slot is taken again by the other thread) and a put; three PEs on two nodes that split three times, from the world, the node's team or an earlier split, with lost members or not; past the end of a map lies number 0, which is a PE, or 3, which is none; three PEs of which one leaves by global exit. |

`BarrierSafety`, `DroppedPokeStops` and `BarrierCompletesPuts` are listed next
to `IInv`, which implies them, because they are what a caller or a reader of
the code wants to know; `IInv` is there so that TLC tries the strengthening the
proofs rest on.

`TypeOK` is checked where memory could be left (`Fabric`: every address is in a
region). In the other modules it is there for the proofs and for a reader.

Three more runs show a disagreement between the code and what it says. Each has an
entry under `findings`.

* `wait_all_early`: `shmem_wait_until_all` counts a variable once per pass, and
  returns before the others are set.
* `mutex_kept`: the calls that return a value from inside `SHMEMT_MUTEX_PROTECT`
  never unlock it.
* `bruck_rotate`: the default `fcollect` rotates its result while its own
  non-blocking puts may still have to read it.

### Fairness

PEs inside a library call run: the code polls and never sleeps for good, so each
step is weakly fair. UCX delivers what was posted: deliveries are weakly fair
(`shmemc_progress` is called by every failed look), in the tree modules only as a kind
(while there are pokes some poke lands, and so for resets), which suffices as the pokes and
resets of a run are finitely many. Nothing obliges a program to make a call, to store to a
variable or to write under a lock; a program that holds a lock clears it in the end. A spinning caller of `shmem_set_lock` is
weakly fair only, and so may lose every race: what is checked is that *somebody*
gets a free lock (`Lock!Spec`), not that everybody does.

In `Library` every PE starts the library and leaves `main` some time, its threads
and its progress thread are scheduled, PMIx and UCX finish what was asked of them.
Nothing obliges a thread to make a context, but one that is in a call goes on.
`Exchange` has no fairness: each step brings a PE further in a finite list or lands
a message, so its runs end, and `NobodyStuck` says that they end well.

`PollingEnds` does not assume that a variable stays set. It says that a scan
cannot poll for ever while a condition it looks at holds continuously.

### What else was seen

Not every disagreement has a run. Read in the code:

* From five PEs on the dissemination barrier has three rounds (`Rounds`), one element of
  pSync for each, and its callers give it two (`SHMEM_BARRIER_SYNC_SIZE`).
* The complete-tree broadcast compares `PE_root`, an index, with a PE number: on active
  sets that do not start at 0, a PE returns without the data. `MCTreeBroadcast` has the
  tree (`CompleteUp`), the batches (`CompleteBatches`) and the test (`ByNumber`).
* A partition allocation that finds no block returns an address and not NULL:
  `FailureIsNull` of `SymmetricHeap`.
* Emulated bitwise AMOs compare and swap 64 bits whatever the type. On a 32-bit variable an
  AND also clears the neighbour: `Narrow = TRUE` in `Fabric.cfg`. The run leaves these out.
* `shmem_put_signal` on a context created with `SHMEM_CTX_NOSTORE` has no order
  between data and signal (`shmemc_ctx_fence` does nothing there).
* `collect` on active sets that do not start at 0 waits for ever (`scan.c:21` and
  `collect.c:58` take an index for a PE), the linear and the binomial reduction go wrong
  there, and Rabenseifner's leaves `pSync[0]` set at a PE beyond the power of 2. The
  run of `exchange` makes these calls elsewhere.
* A context that is taken from the free list keeps the worker of its old options; one
  whose worker could not be made stays in the table. `SHMEM_PREALLOC_CONTEXTS=0` never
  grows the table.
* A strided split loses the members that are not congruent modulo its *size*; a created
  team never gets a rank, so `shmem_team_my_pe` of it is unset, and its pSyncs are never
  freed. A split of a team with lost members reads the hash table past its end, and one of a
  team that has lost all goes through a null pointer; `TranslationSound` therefore
  promises nothing of numbers that were not found.
* The thread level is stored after UCX was set up from it (`api/init.c:121`,
  `shmemc/ucx/init.c:456`): workers are always asked for as not shared.
* Contexts the program has not destroyed may have puts on the way to a PE that has
  already destroyed its default worker, for which the PMIx fence comes too late
  (`shmemc/init.c:58-60`); the barrier of finalisation quiets the default context only.
* `shmem_ctx_create` says "Return 1 on success, 0 on failure" and does the opposite.
* Setting the library up again after a finalisation finds the free list, the capacity and
  the progress thread's flag of the first life; `Library` ends after one.
* The tree barriers reset pSync with a put to oneself that nobody waits for. Where such a
  put lands late at a PE with children, it can erase a child's poke of the next barrier:
  that nothing is ever lost (`lost[p] = {}` for all p) TLC refutes in 21 steps of
  `BinomialBarrier.cfg`. Then nobody leaves that barrier, ever; but nobody leaves early
  either (`DroppedPokeStops`, `BarrierSafety`). In a sync, which has no quiet, even that
  fails: with `WithQuiet = FALSE` the root goes into the next sync with the pokes of the last
  one still in its word, and TLC finds `BarrierSafety` violated in 16 steps. The linear
  barrier waits for its reset and the dissemination one uses a fetch-and-add for this very
  reason.
* `shmem_test_all` compares its count with `nelems` even when a status array
  excludes variables, and then never answers 1; `shmem_wait_until_any` and
  `_some` with everything excluded never return.
* `shmem_test_any` answers 0 both for "the first" and for "none".
* Unsigned types are compared as signed ones.
* `shmem_wait_until_all`, `any`, `some` keep the mutex while they poll, so with
  `SHMEM_THREAD_MULTIPLE` no other thread of the PE gets in meanwhile.
* `offset << BUDDY_GRAIN_LOG` is 32-bit arithmetic: partitions above 4 GiB have
  blocks with equal addresses (`ParameterAssumption` excludes them).
* The by-name allocations of `api/extensions/shmalloc.c` miss the barrier the
  by-index ones have.

## 4. Proofs

TLAPS checks the eight modules whose names end in `_proof`, without open steps. Every
inductive invariant below was first given to TLC, on the instances of section 3 (that of
the exchanges on those of two members, with its unbounded quantifiers bounded).

**Tree barriers**, for every finite active set, every tree over it and every number
of barriers, whenever the resets land. Assumed: `TreeAssumption` (the two views of an
edge agree, and everything hangs under the root; it is `BarrierTrees`, below, of
what the code computes), `ParameterAssumption`, and in the theorems `WithQuiet`: the
barrier flavour. (Of the syncs they are false: see section 3.)
`BarrierSafety` is not inductive: that all have entered when one leaves depends
on pokes counted far down the tree, one barrier ago. The inductive `IInv` adds

* `LateResets`: a PE enters a barrier only after its own reset has landed, by the quiet; a
  reset in flight is therefore that of a PE outside;
* `EdgeBalance`: on each edge, what one side has sent is what the other has used
  up, plus what is in flight, plus what the word holds, plus what a reset has
  overwritten. It bounds how far two neighbours are apart and shows that a word that
  *counts* the right number holds the right pokes;
* `Counting`, `OnlyOnEdges`: a word counts pokes of tree neighbours only, and what a late
  reset can hit are pokes of children, since the parent's comes after one's own;
* `SubtreeIn`: who has climbed speaks for everything under it; at the root this
  is everybody, and on the way down `EdgeBalance` carries it to whoever leaves (`LeftBehind`);
* `Heard`: who has climbed has all its children's pokes in its word, and has lost none of
  them. A PE that has lost one waits for a number that cannot come;
* `Phases`, `QuietOnEntry`: where late data puts can be.

Theorems: `Invariance` (`IInv`), `Safety` (`BarrierSafety`), `LossStops`
(`DroppedPokeStops`), `PutsComplete` (`BarrierCompletesPuts`), and `Refinement`
(`ImplementsBarrier`: every step is a step of `Barrier` or a stutter).

**Trees**, for any size, root and radix. Assumed: a tree branches, and size times radix
fits a C int (`TreesAssumption`), as what the functions compute from a node must. They are
told the size and their own number, so the theorem is about what a node's answer has to do
with that of another. The lemmas, in the order of the argument:

* where parents and children agree and every parent is of a lower rank, there is a tree
  (`Ranked`, `RankedTree`): `Ancestors` is the least set that is closed under parents, the
  rank falls along it, and a least PE that does not hang under the root cannot be;
* what holds of the tree from 0 holds of the one from any root (`Rotated`);
* complete: the children of n are those whose predecessor divided by the radix is n
  (`Divided`), so that the rank is the number itself;
* binomial: a node other than 0 has one lowest bit (`LowestOnce`), and its parent lacks it;
* k-nomial: a node finds its parent on a walk into ever shorter segments (`Shorter`), which
  ends (`WalkEnds`) at a segment the node starts. Two nodes of a segment have walked
  `Together`, so that each knows what the other has seen (`UnderMeans`, `OnTheWay`);
* levels of the k-nomial tree: each part is narrower by the radix (`Narrower`), so the walk
  is over after as many steps as the powers of the radix need to come to the size
  (`WalkIsShort`). A node's ancestors start the segments on its way (`WayUp`), and it has
  at most radix - 1 children a level (`FewUnder`).

Theorems: `Views` (`ViewsMakeATree`), `BarrierTrees` (`TreeAssumption` of the trees the
barriers use), `BroadcastTrees` (the same of the broadcasts, for any root), `Shape`
(`KnomialShape`).

**Flat barriers**, for any number of PEs and of barriers, with resets that land at any
time. Assumed: there is a PE (`ParameterAssumption`). One invariant for each algorithm:

* linear (`L!IInv`): by `Balance`, a poke or an ack is in flight, in the word or done
  with, so the root and a PE are never two barriers apart. `Counting` says whose pokes the
  root's word counts; `AllIn`, that a PE resets its word only when all it waits for is in
  it, be the reset late or not. A root alone waits for nobody, not even for its reset
  (`L!Alone`);
* dissemination (`D!IInv`): `Balance` says the same of each round. `Heard` is the
  argument of the algorithm: after round r a PE has heard, through others, of all that are
  less than 2^(r+1) places behind.

Theorems: `Invariance` (`IInv`), `ResetSafe` (`NoSignalDuringReset`), `Refinement` (to
`Barrier`).

**Exchanges**, where a member puts its block straight to every other. The theorems hold of
every call that is a `CoveredCall`: an active set of the job's PEs, of any size, start and
stride; blocks of any equal size; puts that read their source when they are called or
later; any `alltoall_rounds_sync`; and one of

* the nine algorithms of `alltoall`: shift for any number of members, xor for those that
  `XOR_COND` lets through and color for even ones, as `alltoall.c` asserts;
* `all_linear` and `all_linear1` of `fcollect`;
* the two algorithms of `alltoalls`, with any strides of source and dest, on sets that are
  the first PEs of the job, since `alltoalls.c` numbers blocks by PE.

What holds of the program of such a call is settled first, and the interleavings after it:

* `Exchanging`: each order of peers (`Shift`, `Xor`, `Color`) takes a member to every other
  one exactly once, and in each round nobody gets two. For color this is arithmetic modulo
  n - 1; for xor it is by induction over the bits, from what `^^` does to each of them
  (`BitsJoin`): it is its own inverse and stays below a power of two;
* `Good`: what is moved is in the buffers, is of the right member and goes to the right
  place, and every place of dest that the call has to fill is filled (`Carries`);
* `Signalled`: a slot gets a flag or a count from each of its senders once, behind a fence
  after the puts, and its owner has one wait for all of them, and a reset after it; or
  `Barriered`: all members come to the same barriers, the last statement is one, and
  nothing else waits.

`CallsInv`, the inductive invariant, says that the call is one of these, and has

* `FlowInv`: where each member is and what it has in flight (`Position`, `InFlight`), that
  nothing behind a fence lands before what is ahead of it (`FenceOrder`), and that what has
  landed is what belongs there (`Delivered`);
* `SignalInv`: a slot holds as many signals as have come, or has been reset, and who is past
  a wait has had all of them (`Counted`, `WaitedFor`);
* `BarrierInv`: how often a member has arrived is what its place says, whoever has left a
  barrier shows that all have come to it, and who has come has nothing in flight.

Induction over rounds and bits is on a least number of a set (`LeastIn`). Theorems:
`ExchangeReturnsWithResult` (`ReturnsWithResult`), `ExchangeStaysInBuffers`
(`StaysInBuffers`), `ExchangePSyncGivenBack` (`PSyncGivenBack`) and `ExchangeNobodyStuck`
(`NobodyStuck`).

**Tree broadcasts**, for any tree, root, number of broadcasts and batches of children, and
either kind of signal. Assumed: `TreeAssumption` (of the trees of the code it is
`BroadcastTrees`; that the batches split the children is evaluated by TLC for those of the
runs), `ParameterAssumption` and, in the theorems, `TestsRight`: only the root takes itself for the root. That is so wherever
`broadcast.c` compares two indices. The complete tree compares an index with a PE number,
so that for it the theorems speak of sets that start at 0 only. `IInv` has

* `EdgeBalance`, `Counting`: as for the barrier, with signals down and acks up the tree. A
  word never holds what belongs to another broadcast, also when the signal is a store;
* `SignalBehind`, `HasData`: data are ahead of their signal, and a PE whose signal is
  there and whose data have landed has those of this broadcast;
* `Received`, `AllAcked`: what a PE past a wait knows, so that a buffer whose acks are in is
  read by no put;
* `Aligned`, `LateResets`, `RootFirst`: the barrier between two broadcasts keeps the PEs
  within one of another, and its quiet has a PE's own reset land before it. A signal or an
  ack of a broadcast is sent after all have passed that barrier, so that none meets a reset
  of the last one.

Theorems: `Invariance` (`IInv`), `Typed` (`TypeOK`), `WithData` (`ReturnsWithData`),
`Reusable` (`BufferReusable`), `GivenBack` (`PSyncGivenBack`), `Refinement` (to `Broadcast`).

**The symmetric heap**, for any PEs, height, requests, and program of allocations
and releases. Assumed: `HeightAssumption` and `ParameterAssumption`. That the allocators of two PEs agree follows
from all they have done, not from where they are. `Replayed` therefore speaks of a
history that the program alone settles: `H[n]`, the allocator after the first n calls;
`G[k]`, what the k-th returns; `B[n]`, the barriers in the first n. There is one that every
PE `Follows`: its tree, blocks and answers are those of the calls it has been through.
`Waiting` (nobody has left a barrier that another has not entered) bounds how far two
PEs are apart. Who may use a block has left the barrier of its allocation, so all have
made it (`Entered`); whoever has released it has left the barrier before, so all have called
the release (`Returned`). What the operators of `Buddy` compute does not matter so far, only
that all compute the same. TLC tried the invariant with the history computed from `calls`.

What they compute is the other half. `Shows(t, A)` says what a tree t holds when the nodes
A, all apart, are handed out: -1 at a node of A, its level at a node inside one (left as it
was when the block was taken: nobody looks there), and elsewhere what its children make of
it. `HeapInv` gives each call of a PE whose block is in use a node, of the level its size
needs and at the address it returned, and says that the PE's tree shows these nodes. The
lemmas, in the order of the argument:

* two nodes are one inside the other or apart (`Laminar`, from `PowerSum` and the levels);
* the recursive functions of `Buddy` have a value, with the equation they are written by
  (`TakenIs`, `FreedIs`, `SomeWay`);
* a tree that shows A knows at each node the largest node under it that is apart from A
  (`Exactly`); so the way down ends at one of the right level (`PlaceIs`), and the first -1
  on the way up from an offset is the block that starts there (`OwnerIs`);
* taking a free block shows A and it (`TakenShows`), giving one back shows A without it
  (`FreedShows`): two buddies are merged exactly when nothing in either is handed out;
* a request that fits is rounded up to an exponent the root has (`ExponentIs`), its units
  have its bytes (`UnitsIs`), and an address gives back its node (`Addressed`).

Induction over levels is on a least number that does not have the property (`LeastIn`), of
a set and not of an operator, which the provers can do. Theorems: `Invariance` (`IInv`),
`Safe` (`AccessIsSafe`), `Apportionment` (`HeapInv`), `Separate` (`BlocksApart`), `Known`
(`TreeExact`).

**The fabric**, for any PEs, memory, contexts and programs made of the requests of
`comms.c`, with native or emulated AMOs. Assumed: a program is a list of calls, and each
posts on a context (`ProgramAssumption`); regions are apart and start at 0
(`RegionAssumption`); a call names variables of one region, and an AMO one of 32 or 64
bits, with room for 64 where a bitwise one may be emulated (`AddressAssumption`). `IInv` has

* `Sent`, `Once`: what is in flight is a request that its PE has begun, with that request's
  context and target, and lands once;
* `Emulating`: an emulated operation has one message, of the request its PE is at;
* `Parted`: a quiet that is done has left nothing of its context in flight, and a fence that
  is done parts epochs: what was posted before is of a lower one than what comes after.

`Typed` adds that what is in flight asks for what its call stands for (`Formed`), so that
memory and answers stay what they are declared to be. Theorems: `Invariance` (`IInv`),
`MemoryKept` (`TypeOK`), `Ordered` (`OrderedAsPromised`) and `DataFirst`
(`SignalAfterData`), the last for programs whose signals have a fence before them
(`SignalsFenced`), as the lemma `PutSignalsFenced` shows of `shmemc_ctx_put_signal` with
any arguments.

That the fabric implements `AtomicMemory`, where whatever is asked for happens once, all at
once, with the value it had when it was asked for, is the theorem `Implements`
(`ImplementsMemory`). It holds of programs that are `Disciplined`:

* `SourcesQuiet`: the source of a non-blocking put is stored to by nobody else, and by its
  PE not before a quiet of the context. This is what OpenSHMEM asks of a program. `Kept`,
  the invariant, says that such a put still finds there what was there at the call;
* no bitwise AND of 32 bits is emulated: `comms.c` widens the operand with zeroes, and the
  fetch-and-AND of 64 bits clears what is beside the word.

TLC evaluates `Disciplined` of the programs of the run. The two modules count differently:
the abstract one adds numbers, the concrete one adds cell by cell, with the carry (`Carry`)
that makes an emulated addition spill into the cell beside it or not.

**The lock**, for any PEs and threads. Assumed: PE numbers fit an `int16_t`
(`ShortPEAssumption`; the code stores them in one) and every thread has a PE.
`IInv` adds to exclusion `WordMatches` (the word is a claim exactly while somebody
holds the lock) and `Flushed` (what is in flight is the holder's last write).
Theorems: `Invariance`, `Exclusion` (`MutualExclusion`), `HandOver`
(`HolderSeesLastWrite`), `Unchained` (`NeverChained`) and `Refinement` (to
`Lock`).

**Contexts**, for any job, threads and block of slots, whatever else the program and
the library do. Assumed: every thread has a PE, and the block is not 0
(`BlockAssumption`). `OneOwner` speaks of slots that threads have been given; what
keeps it is in the calls that are under way. `IInv` adds

* `Excluded`: who is between two steps of a call has the mutex;
* `LookedAt`: so what it saw of the free list and of `nctxts` is still so when it takes
  the slot;
* `Apart`: a slot is in one place, be it a thread, a call that makes or destroys it, or
  the free list, and inside of the table;
* `Counted`, `HasWorker`: the list has no slot twice, and only slots with a worker, which
  is why a slot that is taken again needs none;
* `NotBegun`: the table is empty before initialisation, which makes the first worker.

`NextIInv` has a lemma for each step of a context call; the rest of the library's life
goes by `Moves`. Theorem: `SlotsOwned` (`OneOwner`).

**Teams**, for any job, any size of a node and any chain of splits and destructions, of
teams with lost members too, and anything that may lie past a map. Assumed: nodes are not
empty (`NodeSizeAssumption`), something lies there (`GarbageAssumption`), and a plan's job has
a PE and no more than there are (`PlanAssumption`). The lemmas about `Teams` say of each
operator that makes a team that the result is `WellMade` (its numbers are below its size,
rev takes a PE to a number that fwd has it at, and a number that was found stands for
the PE the call asked for) and that a PE `Knows` its own number in the library's teams;
`TranslatesTruly`, that between `WellMade` teams numbers that were found are translated
truly, be there a chain of splits between the teams or not. `TeamsInv` says it of all teams
at once. Theorem: `Translation` (`TranslationSound`).

**Tear-down**, for any job, threads, contexts, puts and progress threads, whether a
program finalises, exits, does both or aborts. Assumed: what is assumed for contexts
and teams. That nobody takes down what another still needs is not inductive, as it
depends on how far the others are. `LifeInv` adds, for each PE,

* `Counts`: how often it has come to where all meet is what its place says. Between
  `shmem_init` and the end there are six such places;
* `Met`: who is past a meeting knows that everybody has come to it. With `Counts`, a PE
  that is at most in its implicit barrier shows that no other has begun to tear down, and
  one that has not come to the last fence shows that no other has unmapped;
* `Held`: the count of the library, the registered regions and the progress thread, by
  place. A second finalisation finds the count at 0;
* `Published`: what is published by each meeting, so that the exchange after it finds all;
* `TornDown`: the contexts are torn down in order, the default one last;
* `Flying`: a put's context is not torn down, and one on the default context is from a PE
  that still runs: the barrier quiets that context, the closing of the others waits.

`Stepped` reduces a step of one PE to that PE, and each action has a lemma. It rests on
`Apart` of the contexts' `IInv` (a put is on a slot of the table). Theorems: `LivingOnly`
(`ReachesTheLiving`), `CleanEnd` (`NothingLeft`).

**Waits and tests**, for any number of threads and variables, any width and any stores
meanwhile. Assumed: `ParameterAssumption`. `IInv` is a conjunction per thread of

* `History`: in a call, what has held all along holds now, and what holds now has been
  seen to hold;
* `Scanned`: what a scan may say of the elements behind its index. For the collecting
  loops, none that stays set is missing from the list; for `test_any`, none has held all
  along; for `test_all`, the count has kept up with the index exactly if no look has failed,
  which spares an argument about the size of a set;
* `Single`: a call on one variable looks at no other;
* `Loops`: the ranges, and that a call leaves its counters at 0;
* `Answered`: once out, the answer is `Truthful`, and later stores do not change that.

Theorems: `Invariance` (`IInv`), `Explained` (`WaitsExplained`), `Complete`
(`NoneMissed`), `Answers` (`TestsAnswer`). Nothing of the kind can be shown of
`wait_until_all`: `AllWaitedFor` is violated.

**Only model-checked:**

* liveness (`PollingEnds`, `CallsReturn`, `EveryoneEnds`, `BarrierEnds`, and the fair half of the
  refinements whose safe half is proved): fairness and ENABLED are out of the prover's reach;
* the other collectives of `Exchange`. Where a member forwards what it was given (ring,
  neighbour exchange, recursive doubling, Bruck, the reductions, the scatter of a broadcast),
  what is in dest at a round depends on the rounds of others before it, so that each asks
  for an invariant of its own; the linear ones get instead of being put to; `collect` places
  its blocks by a prefix sum, itself a protocol over pSync. The theorems' premise names the
  calls they hold of: the run of `exchange` remains the only witness of the others.

## 5. What is not modelled, and what could come next

* The dlmalloc heap (`shmem_malloc`, `calloc`, `align`, `realloc`): the same protocol as
  the partition heaps over a vendored allocator; `realloc` has two barriers.
* The extra heaps by name and by index: experimental calls over the same allocators; the
  forms by name lack the barrier.
* The symmetric memory of teams' pSyncs, which a split takes on its callers only.
* Contexts' thread modes, and failures of UCX and PMIx calls: the code asserts that they
  succeed.
* A second life of the library in one process.
* Parsing, logging, printing, the launchers, klib and dlmalloc: sequential or vendored, no
  protocol depends on them. `atomics.c` and `atomics-nb.c` of `api/atomics` are not
  compiled.

Proofs that would come next: the ring, whose round r forwards the block of the member r
places behind, as the first of the forwarding algorithms; then `collect`, by a lemma about
the prefix sum of `scan.c`; then recursive doubling, whose blocks `^^` orders as it does the
peers of the xor exchange.
