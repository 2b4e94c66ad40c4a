--------------------------------- MODULE Teams ---------------------------------
(***************************************************************************)
(* Teams (shmemc/teams.c).  A team has two maps: fwd from its own PE       *)
(* numbers to those of the world team, and rev back.  Every PE makes its   *)
(* own; a split asks nothing of the others.  A record also has what the    *)
(* program asked for, the world's PE of each number below nranks, and the  *)
(* numbers that were found: in the team, and on the way to it in the map   *)
(* of every team they were looked up in.                                   *)
(***************************************************************************)
EXTENDS Integers

CONSTANT NodeSize       \* PEs of a node; the launcher fills one after the other
CONSTANT Garbage        \* the ints that may lie past the end of a map's array
ASSUME NodeSizeAssumption == NodeSize \in Nat \ {0}
ASSUME GarbageAssumption == Garbage \subseteq Int /\ Garbage # {}

\* initialize_common_team, and what is put in the maps
Team(name, nranks, fwd, rev, asked, found) ==
  [name |-> name, nranks |-> nranks, fwd |-> fwd, rev |-> rev, asked |-> asked, found |-> found]

BackTo(fwd) == [w \in {fwd[i] : i \in DOMAIN fwd} |-> CHOOSE i \in DOMAIN fwd : fwd[i] = w]

initialize_team_world(npes) ==
  LET all == [i \in 0..(npes - 1) |-> i] IN Team("world", npes, all, all, all, DOMAIN all)
\* proc.li.peers, which PMIx says: the PEs of the same node
peers(p, npes) ==
  LET first == (p \div NodeSize) * NodeSize
      last  == IF first + NodeSize < npes THEN first + NodeSize - 1 ELSE npes - 1
  IN  [i \in 0..(last - first) |-> first + i]
initialize_team_shared(p, npes) ==
  LET fwd == peers(p, npes)
  IN  Team("shared", (CHOOSE i \in DOMAIN fwd : i + 1 \notin DOMAIN fwd) + 1, fwd, BackTo(fwd), fwd,
           DOMAIN fwd)

\* The walk over the parent's numbers.  Each is looked up without asking whether it is
\* there: kh_get gives the end of a map for one that is not, and what is read is past,
\* the int after the array.  A map that nothing was ever put in has no array.
Walk(start, stride, i) == start + i * stride
LookUp(parent, past, number) ==
  IF number \in DOMAIN parent.fwd THEN parent.fwd[number] ELSE past
NeverFilled(parent) == DOMAIN parent.fwd = {}

is_member(parent_pe, start, stride) == (parent_pe - start) % stride = 0

\* size, and not stride, is what is_member is given: some of the members have no number.
\* A PE that is put in rev a second time has its last number there.
ByWalk(parent, start, stride, i) == Walk(start, stride, i)        \* slip: rev has the parent's number
NewNumber(parent, start, stride, i) == i
shmemc_team_split_strided(parent, past, start, stride, size) ==
  LET up(i)   == LookUp(parent, past, Walk(start, stride, i))
      kept    == {i \in 0..(size - 1) : is_member(up(i), start, size)}
      last(w) == CHOOSE i \in kept : up(i) = w /\ \A j \in kept : up(j) = w => j <= i
  IN  Team("created", size,
           [i \in kept |-> up(i)],
           [w \in {up(i) : i \in kept} |-> NewNumber(parent, start, stride, last(w))],
           [i \in 0..(size - 1) |-> parent.asked[Walk(start, stride, i)]],
           {i \in kept : Walk(start, stride, i) \in parent.found})

shmemc_team_translate_pe(sh, src_pe, dh) ==
  IF src_pe \notin DOMAIN sh.fwd THEN -1
  ELSE IF sh.fwd[src_pe] \notin DOMAIN dh.rev THEN -1
  ELSE dh.rev[sh.fwd[src_pe]]

\* rank is set at initialisation only
HasRank(th) == th.name \in {"world", "shared"}
shmemc_team_my_pe(p, th) == IF th.name = "world" THEN p ELSE th.rev[p]

\* A translation is -1 or a number of the other team (shmemc_team_translate_pe,
\* teams.c:240-266).  Numbers that were found, through any chain of splits of teams with
\* and without lost members, are translated as the calls that made the teams numbered the
\* PEs of the world: to the same PE, and to some number if that PE was found there.  Of
\* numbers that came from past the end of a map nothing is promised.
Sound(th, uh) ==
  \A i \in 0..(th.nranks - 1) :
    LET j == shmemc_team_translate_pe(th, i, uh)
    IN  /\ j # -1 => j \in 0..(uh.nranks - 1)
        /\ i \in th.found =>
             /\ j \in uh.found => uh.asked[j] = th.asked[i]
             /\ (\E m \in uh.found : uh.asked[m] = th.asked[i]) => j # -1

==============================================================================
