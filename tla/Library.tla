-------------------------------- MODULE Library --------------------------------
(***************************************************************************)
(* The life of the library in the PEs of a job: shmem_init (api/init.c and *)
(* shmemc/init.c), what each PE tells the others by way of PMIx            *)
(* (shmemc/ucx/pmix_client.c), the program's contexts and teams, the       *)
(* progress thread (shmemu/progress.c), shmem_finalize, the same again at  *)
(* exit, and global exit.                                                  *)
(*                                                                         *)
(* A barrier_all is taken for what the modules of barriers show: it quiets *)
(* the default context of its PE and lets nobody leave before everybody    *)
(* has come.  A PE does not set the library up again after it has shut it  *)
(* down.                                                                   *)
(***************************************************************************)
EXTENDS Contexts, Teams

CONSTANTS
  Plans,           \* [npes, does]: the size of a job, and what its program does
  ProgressAll, ProgressPEs,   \* SHMEM_PROGRESS_THREADS
  MaxSplits        \* bound: teams PE 0 splits off

ASSUME PlanAssumption ==
  \A pl \in Plans : pl.npes \in Nat \ {0} /\ 0..(pl.npes - 1) \subseteq PE

VARIABLES
  plan,
  stage,           \* what a PE has come to
  arrived,         \* PMIx fences and barriers a PE has come to, of both kinds
  posted,          \* what a PE has published with PMIx
  got,             \* what it has got there, and of which PE
  mapped,          \* the memory regions that are registered
  torn,            \* contexts torn down, in order
  refcount,
  progress,        \* the progress thread: none, driving, asleep, ended
  done,            \* the sentinel it looks at
  exiting,         \* the program has returned from main, or called exit
  aborting,        \* an abort has been asked for, or a PE was killed
  teams, splits    \* the teams of PE 0 that the program can name

libVars == <<plan, stage, arrived, posted, got, mapped, torn, refcount, progress, done,
             exiting, aborting, teams, splits>>
vars == <<ctxVars, libVars>>

Job == 0..(plan.npes - 1)
In(p, place) == stage[p] = place
GoTo(p, place) == stage' = [stage EXCEPT ![p] = place]
\* shmem_barrier_all is begun
Arrive(p) == arrived' = [arrived EXCEPT ![p] = @ + 1]
\* everybody has come to where p is waiting
AllArrived(p) == \A q \in Job : arrived[q] >= arrived[p]

------------------------------------------------------------------------------
\* shmem_init

\* memory regions: the globals, then one for each heap
nheaps == 1
register_globals == {0}
register_symmetric_heap(hi) == {hi}
register_memory_regions ==
  register_globals \cup UNION {register_symmetric_heap(hi) : hi \in 1..nheaps}

\* What a PE publishes: the address of its default worker, the rkey of each region, and
\* where a heap begins and how long it is.
shmemc_pmi_publish_worker == {<<"w", 0>>}
publish_one_rkeys(r) == {<<"r", r>>}
publish_one_heap(r) == {<<"b", r>>, <<"s", r>>}
shmemc_pmi_publish_rkeys_and_heaps ==
  publish_one_rkeys(0) \cup UNION {publish_one_rkeys(r) \cup publish_one_heap(r) : r \in 1..nheaps}

\* PMIx_Get, which finds what has been published and put out by a fence
Fetched(key, q) == IF key \in posted[q] THEN {<<key, q>>} ELSE {}
shmemc_pmi_exchange_workers == UNION {Fetched(<<"w", 0>>, pe) : pe \in Job}
exchange_one_rkeys(r, pe) == Fetched(<<"r", r>>, pe)
exchange_one_heap(r, pe) == Fetched(<<"b", r>>, pe) \cup Fetched(<<"s", r>>, pe)
shmemc_pmi_exchange_rkeys_and_heaps ==
  (UNION {exchange_one_rkeys(0, pe) : pe \in Job})
  \cup (UNION {exchange_one_rkeys(r, pe) \cup exchange_one_heap(r, pe) : r \in 1..nheaps, pe \in Job})
\* the addresses and rkeys that shmemc_ucx_make_eps takes for every PE
NeededForEps ==
  {<<key, pe>> : key \in shmemc_pmi_publish_worker \cup shmemc_pmi_publish_rkeys_and_heaps, pe \in Job}

\* PMIx_Commit, and PMIx_Fence is asked for: it ends when all have come
shmemc_pmi_barrier_all(p) == arrived' = [arrived EXCEPT ![p] = @ + 1]

shmemc_context_init_default(p) == workers' = [workers EXCEPT ![p] = {Default}]
shmemc_teams_init(p) ==
  teams' = IF p = 0 THEN <<initialize_team_world(plan.npes),
                           initialize_team_shared(p, plan.npes)>> ELSE teams

\* PMIx, heaps, ucp_init and memory regions, the default context's worker, the teams
Setup(p) ==
  /\ In(p, "off") /\ refcount[p] = 0
  /\ mapped' = [mapped EXCEPT ![p] = register_memory_regions]
  /\ shmemc_context_init_default(p)
  /\ shmemc_teams_init(p)
  /\ posted' = [posted EXCEPT ![p] = shmemc_pmi_publish_worker]
  /\ shmemc_pmi_barrier_all(p) /\ GoTo(p, "workers")
  /\ UNCHANGED <<table, nostore, mutex, call, handles, flight, puts, creates,
                 plan, got, torn, refcount, progress, done, exiting, aborting, splits>>

HaveWorkers(p) ==
  /\ In(p, "workers") /\ AllArrived(p)
  /\ got' = [got EXCEPT ![p] = shmemc_pmi_exchange_workers]
  /\ posted' = [posted EXCEPT ![p] = @ \cup shmemc_pmi_publish_rkeys_and_heaps]
  /\ shmemc_pmi_barrier_all(p) /\ GoTo(p, "rkeys")
  /\ UNCHANGED <<ctxVars, plan, mapped, torn, refcount, progress, done, exiting, aborting,
                 teams, splits>>

HaveRkeys(p) ==
  /\ In(p, "rkeys") /\ AllArrived(p)
  /\ got' = [got EXCEPT ![p] = @ \cup shmemc_pmi_exchange_rkeys_and_heaps]
  /\ shmemc_pmi_barrier_all(p) /\ GoTo(p, "connected")
  /\ UNCHANGED <<ctxVars, plan, posted, mapped, torn, refcount, progress, done, exiting,
                 aborting, teams, splits>>

\* "yes" or "all" is for the first PE of a node, anything else is a list of PEs
leader(p) == p = peers(p, plan.npes)[0]
check_if_progress_required(p) == (leader(p) /\ ProgressAll) \/ p \in ProgressPEs

\* shmemu_progress_init, atexit, and the barrier that ends the call
Started(p) ==
  /\ In(p, "connected") /\ AllArrived(p)
  /\ progress' = [progress EXCEPT ![p] = IF check_if_progress_required(p) THEN "driving" ELSE "none"]
  /\ refcount' = [refcount EXCEPT ![p] = @ + 1]
  /\ Arrive(p) /\ GoTo(p, "begin")
  /\ UNCHANGED <<ctxVars, plan, posted, got, mapped, torn, done, exiting, aborting, teams, splits>>

Begun(p) ==
  /\ In(p, "begin") /\ AllArrived(p)
  /\ GoTo(p, "run")
  /\ UNCHANGED <<ctxVars, plan, arrived, posted, got, mapped, torn, refcount, progress, done,
                 exiting, aborting, teams, splits>>

------------------------------------------------------------------------------
\* The program

Does(what) == plan.does = what

\* thread 1 asks for contexts with SHMEM_CTX_NOSTORE
UseContexts(t) ==
  /\ Does("contexts") /\ of(t) \in Job /\ In(of(t), "run")
  /\ \/ Create(t, t[2] = 1)
     \/ \E idx \in handles[t] : Destroy(t, idx)
     \/ \E idx \in handles[t] \cup {Default}, q \in Job : Put(t, idx, q)
     \/ InContextCall(t)
  /\ UNCHANGED libVars

\* A split is made by all of the parent's PEs; PE 0 is looked at.  The program walks
\* within the numbers the parent was made with, which may have lost members.
Split(start, stride, size) ==
  /\ Does("teams") /\ In(0, "run") /\ splits < MaxSplits
  /\ \E k \in DOMAIN teams, past \in Garbage :
       /\ Walk(start, stride, size - 1) < teams[k].nranks /\ ~NeverFilled(teams[k])
       /\ teams' = Append(teams, shmemc_team_split_strided(teams[k], past, start, stride, size))
  /\ splits' = splits + 1
  /\ UNCHANGED <<ctxVars, plan, stage, arrived, posted, got, mapped, torn, refcount, progress,
                 done, exiting, aborting>>

\* The first look into a map that nothing was ever put in, all members being lost, goes
\* through a null pointer: the PE is killed, and the launcher ends the job.
SplitNobody ==
  /\ Does("teams") /\ In(0, "run") /\ splits < MaxSplits
  /\ \E k \in DOMAIN teams : NeverFilled(teams[k])
  /\ aborting' = TRUE /\ GoTo(0, "gone")
  /\ UNCHANGED <<ctxVars, plan, arrived, posted, got, mapped, torn, refcount, progress, done,
                 exiting, teams, splits>>

\* only teams with a parent; there is no context in one
shmemc_team_destroy(k) ==
  /\ In(0, "run")
  /\ k \in DOMAIN teams /\ teams[k].name = "created"
  /\ teams' = RemoveAt(teams, k)
  /\ UNCHANGED <<ctxVars, plan, stage, arrived, posted, got, mapped, torn, refcount, progress,
                 done, exiting, aborting, splits>>

\* Global exit tells PMIx, which has a handler called in every PE, this one too.  Until
\* then the program goes on: the call returns.
shmem_global_exit(p) ==
  /\ Does("abort") /\ In(p, "run") /\ ~aborting
  /\ aborting' = TRUE
  /\ UNCHANGED <<ctxVars, plan, stage, arrived, posted, got, mapped, torn, refcount, progress,
                 done, exiting, teams, splits>>

\* it aborts the job and leaves without the exit handlers
notification_fn(p) ==
  /\ aborting /\ stage[p] \notin {"off", "out", "gone"}
  /\ GoTo(p, "gone")
  /\ UNCHANGED <<ctxVars, plan, arrived, posted, got, mapped, torn, refcount, progress, done,
                 exiting, aborting, teams, splits>>

------------------------------------------------------------------------------
\* The progress thread

\* one pass over the default worker, a sleep, and a look at the sentinel
ProgressThread(p) ==
  /\ stage[p] # "gone"
  /\ \/ /\ progress[p] = "driving"
        /\ progress' = [progress EXCEPT ![p] = "asleep"]
     \/ /\ progress[p] = "asleep"
        /\ progress' = [progress EXCEPT ![p] = IF done[p] THEN "ended" ELSE "driving"]
  /\ UNCHANGED <<ctxVars, plan, stage, arrived, posted, got, mapped, torn, refcount, done,
                 exiting, aborting, teams, splits>>

------------------------------------------------------------------------------
\* shmem_finalize, and the exit handler that does the same

Again(p) == TRUE                                 \* slip: no look at the count
AtWork(p) == refcount[p] >= 1

\* to the implicit barrier
finalize_helper(p) ==
  /\ AtWork(p)
  /\ Flushed(p, Default)
  /\ Arrive(p) /\ GoTo(p, "finalize")
  /\ UNCHANGED <<ctxVars, plan, posted, got, mapped, torn, refcount, progress, done, aborting,
                 teams, splits>>

\* A program that splits teams destroys them before it ends.
MayEnd(p) == Idle(p) /\ (Does("teams") => splits = MaxSplits /\ ~\E k \in DOMAIN teams : ~HasRank(teams[k]))

Finalize(p) ==
  /\ In(p, "run") /\ MayEnd(p)
  /\ finalize_helper(p)
  /\ UNCHANGED exiting

\* main returns, whether or not it has finalised
Exit(p) ==
  /\ stage[p] \in {"run", "finalized"} /\ ~exiting[p] /\ MayEnd(p)
  /\ exiting' = [exiting EXCEPT ![p] = TRUE]
  /\ UNCHANGED <<ctxVars, plan, stage, arrived, posted, got, mapped, torn, refcount, progress,
                 done, aborting, teams, splits>>
AtExit(p) ==
  /\ stage[p] \in {"run", "finalized"} /\ exiting[p]
  /\ finalize_helper(p)
  /\ UNCHANGED exiting
Left(p) ==
  /\ In(p, "finalized") /\ exiting[p] /\ ~AtWork(p)
  /\ GoTo(p, "out")
  /\ UNCHANGED <<ctxVars, plan, arrived, posted, got, mapped, torn, refcount, progress, done,
                 exiting, aborting, teams, splits>>

NeverTold(p) == UNCHANGED done                   \* slip: the thread is joined, not told
Tell(p) == done' = [done EXCEPT ![p] = TRUE]
shmemu_progress_finalize(p) ==
  /\ In(p, "finalize") /\ AllArrived(p)
  /\ IF check_if_progress_required(p) THEN Tell(p) ELSE UNCHANGED done
  /\ GoTo(p, "join")
  /\ UNCHANGED <<ctxVars, plan, arrived, posted, got, mapped, torn, refcount, progress,
                 exiting, aborting, teams, splits>>
Joined(p) ==
  /\ In(p, "join") /\ progress[p] \in {"none", "ended"}
  /\ GoTo(p, "teardown")
  /\ UNCHANGED <<ctxVars, plan, arrived, posted, got, mapped, torn, refcount, progress, done,
                 exiting, aborting, teams, splits>>

\* shmemc_teams_finalize: the contexts of the world's table one after the other; closing
\* the endpoints waits for what was put on them
shmemc_ucx_teardown_context(p, idx) ==
  /\ Flushed(p, idx)
  /\ torn' = [torn EXCEPT ![p] = Append(@, idx)]
  /\ UNCHANGED <<ctxVars, plan, posted, got, mapped, refcount, progress, done, exiting,
                 aborting, splits>>
shmemc_team_contexts_destroy(p) ==
  /\ In(p, "teardown") /\ Len(torn[p]) < table[p].nctxts
  /\ shmemc_ucx_teardown_context(p, Len(torn[p]))
  /\ UNCHANGED <<stage, arrived, teams>>
shmemc_ucx_context_default_destroy(p) ==
  /\ In(p, "teardown") /\ Len(torn[p]) >= table[p].nctxts
  /\ shmemc_ucx_teardown_context(p, Default)
  /\ teams' = IF p = 0 THEN <<>> ELSE teams
  /\ shmemc_pmi_barrier_all(p) /\ GoTo(p, "closed")

\* after the last fence, memory is unmapped and the count goes back
deregister_globals(regions) == regions \ {0}
deregister_symmetric_heap(regions) == regions \ 1..nheaps
deregister_memory_regions(regions) == deregister_symmetric_heap(deregister_globals(regions))
NoFence(p) == TRUE                               \* slip: no wait for the others
FenceDone(p) == AllArrived(p)
shmemc_ucx_finalize(p) ==
  /\ In(p, "closed") /\ FenceDone(p)
  /\ mapped' = [mapped EXCEPT ![p] = deregister_memory_regions(@)]
  /\ refcount' = [refcount EXCEPT ![p] = @ - 1]
  /\ GoTo(p, "finalized")
  /\ UNCHANGED <<ctxVars, plan, arrived, posted, got, torn, progress, done, exiting, aborting,
                 teams, splits>>

------------------------------------------------------------------------------
Init ==
  /\ ContextsInit
  /\ plan \in Plans
  /\ stage = [p \in PE |-> "off"]
  /\ arrived = [p \in PE |-> 0]
  /\ posted = [p \in PE |-> {}]
  /\ got = [p \in PE |-> {}]
  /\ mapped = [p \in PE |-> {}]
  /\ torn = [p \in PE |-> <<>>]
  /\ refcount = [p \in PE |-> 0]
  /\ progress = [p \in PE |-> "none"]
  /\ done = [p \in PE |-> FALSE]
  /\ exiting = [p \in PE |-> FALSE]
  /\ aborting = FALSE
  /\ teams = <<>>
  /\ splits = 0

\* what the library does by itself
Step(p) ==
  \/ HaveWorkers(p) \/ HaveRkeys(p) \/ Started(p) \/ Begun(p) \/ AtExit(p) \/ Left(p)
  \/ shmemu_progress_finalize(p) \/ Joined(p) \/ shmemc_team_contexts_destroy(p)
  \/ shmemc_ucx_context_default_destroy(p) \/ shmemc_ucx_finalize(p) \/ notification_fn(p)
Landing == \E o \in flight : Land(o) /\ UNCHANGED libVars
ContextSteps(t) == In(of(t), "run") /\ InContextCall(t) /\ UNCHANGED libVars

AllOver == \A p \in Job : stage[p] \in {"out", "gone"}
UseTeams ==
  \/ \E start \in PE, stride \in PE \ {0}, size \in 1..plan.npes : Split(start, stride, size)
  \/ SplitNobody
  \/ \E k \in DOMAIN teams : shmemc_team_destroy(k)
Program ==
  \/ \E p \in Job : Setup(p) \/ Finalize(p) \/ Exit(p) \/ shmem_global_exit(p)
  \/ \E t \in Thread : UseContexts(t)
  \/ UseTeams

Next ==
  \/ \E p \in Job : Step(p) \/ ProgressThread(p)
  \/ Landing
  \/ Program
  \/ AllOver /\ UNCHANGED vars

Spec == Init /\ [][Next]_vars

\* UCX lands what it was given and the threads are scheduled; every PE starts the library,
\* goes on with its teams and some time leaves main
Fairness ==
  /\ \A p \in PE : WF_vars(p \in Job /\ Step(p))
  /\ \A p \in PE : WF_vars(p \in Job /\ ProgressThread(p))
  /\ \A p \in PE : WF_vars(p \in Job /\ Setup(p))
  /\ \A p \in PE : WF_vars(p \in Job /\ Exit(p))
  /\ \A t \in Thread : WF_vars(of(t) \in Job /\ ContextSteps(t))
  /\ WF_vars(UseTeams) /\ WF_vars(Landing)
FairSpec == Spec /\ Fairness

------------------------------------------------------------------------------
\* Correctness

Closed(p) == {torn[p][i] : i \in DOMAIN torn[p]}
Running(p) == In(p, "run") \/ In(p, "begin")

\* Whatever is on its way goes from a context that is still there to memory that is still
\* registered and, of the default context, to a worker that is still there: until the PE
\* that asked for it has heard that it is complete.  A PE that has its endpoints knows
\* the worker and the rkeys of every other.
ReachesTheLiving ==
  /\ \A o \in flight : ~aborting =>
       /\ mapped[o.to] = register_memory_regions
       /\ o.ctx \notin Closed(o.from)
       /\ o.ctx = Default => Default \notin Closed(o.to)
  /\ \A p \in Job : Running(p) => got[p] = NeededForEps

\* Finalisation, asked for by the program, by its exit or by both, happens once: each
\* context is torn down once, after the progress thread has left the default one alone,
\* and at the end nothing is left.
NothingLeft ==
  \A p \in Job :
    /\ \A i, j \in DOMAIN torn[p] : torn[p][i] = torn[p][j] => i = j
    /\ progress[p] = "driving" => Default \notin Closed(p)
    /\ In(p, "out") =>
         /\ Closed(p) = {Default} \cup 0..(table[p].nctxts - 1)
         /\ mapped[p] = {} /\ refcount[p] = 0 /\ progress[p] # "asleep"
         /\ \A o \in flight : o.from # p

\* See Sound; and a PE's number in the teams of the library is its own.
TranslationSound ==
  \A k \in DOMAIN teams :
    /\ \A m \in DOMAIN teams : Sound(teams[k], teams[m])
    /\ HasRank(teams[k]) => teams[k].asked[shmemc_team_my_pe(0, teams[k])] = 0

\* Every PE leaves in the end: no barrier, fence, join or context call of the others
\* keeps it for ever, be it that a PE aborts the job while others are on their way in or out.
EveryoneEnds == <>AllOver

==============================================================================
