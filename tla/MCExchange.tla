------------------------------ MODULE MCExchange -------------------------------
(***************************************************************************)
(* The calls the runs of Exchange make: every algorithm of every           *)
(* collective that moves data, on two to four members.                     *)
(***************************************************************************)
EXTENDS Exchange

Call(coll, name, sizes) ==
  [coll |-> coll, name |-> name, n |-> Len(sizes), start |-> 0, stride |-> 1,
   npes |-> Len(sizes), size |-> [i \in 0..(Len(sizes) - 1) |-> sizes[i + 1]],
   late |-> TRUE, root |-> 1, dst |-> 2, sst |-> 1, op |-> "sum"]

\* members 1, 3, .. of the job's PEs
Apart(call) == [call EXCEPT !.start = 1, !.stride = 2, !.npes = 2 * call.n]
\* puts that read their source when they are called
ReadAtOnce(call) == [call EXCEPT !.late = FALSE]

Collects ==
  {Call("collect", name, <<1, 2, 1>>) :
     name \in {"linear", "all_linear", "all_linear1", "ring", "bruck", "bruck_no_rotate"}}
  \cup {Call("collect", "ring", <<1, 0, 2>>), Call("collect", "rec_dbl", <<1, 2, 1, 1>>),
        Call("collect", "rec_dbl_signal", <<0, 2>>)}

\* the algorithms that rotate dest at the end need puts that read it at once: see
\* RotatedCalls
Rotating == {"bruck", "bruck_signal", "bruck_inplace"}
Fcollects ==
  {Call("fcollect", name, <<1, 1, 1>>) : name \in {"linear", "all_linear", "all_linear1"}}
  \cup {Apart(Call("fcollect", name, <<1, 1, 1>>)) : name \in {"ring", "bruck_no_rotate"}}
  \cup {ReadAtOnce(Apart(Call("fcollect", name, <<1, 1, 1>>))) : name \in Rotating}
  \cup {Call("fcollect", name, <<1, 1, 1, 1>>) : name \in {"rec_dbl", "neighbor_exchange"}}

Alltoalls ==
  {Apart(Call("alltoall", "shift_exchange_" \o by, <<1, 1, 1>>)) :
     by \in {"barrier", "counter", "signal"}}
  \cup {Call("alltoall", order \o "_pairwise_exchange_barrier", <<1, 1, 1, 1>>) :
          order \in {"xor", "color"}}
  \cup {Call("alltoall", order \o "_pairwise_exchange_" \o by, <<2, 2>>) :
          order \in {"xor", "color"}, by \in {"counter", "signal"}}
  \cup {Call("alltoalls", by, <<2, 2>>) : by \in {"barrier", "counter"}}

\* rabenseifner without an extra member: with one it leaves pSync[0] set
Reductions ==
  {Call("reduce", name, <<2, 2, 2>>) : name \in {"linear", "binomial"}}
  \cup {Apart(Call("reduce", "rec_dbl", <<1, 1, 1>>)), Call("reduce", "rec_dbl", <<1, 1, 1, 1>>)}
  \cup {Call("reduce", name, <<2, 2>>) : name \in {"rabenseifner", "rabenseifner2"}}
  \cup {[Call("reduce", "rec_dbl", <<2, 2>>) EXCEPT !.op = op] :
          op \in {"and", "or", "xor", "max", "min", "prod"}}

\* from the second member
Broadcasts ==
  {Call("broadcast", "linear", <<2, 2, 2>>)}
  \cup {Call("broadcast", "scatter_collect", sizes) :
          sizes \in {<<1, 1>>, <<2, 2, 2>>, <<3, 3, 3>>, <<5, 5, 5, 5>>}}

MCCalls == Broadcasts \cup Collects \cup Fcollects \cup Alltoalls \cup Reductions

\* the fcollect that table.c takes when nothing is asked for, with puts that read dest late
RotatedCalls == {Call("fcollect", "bruck_inplace", <<1, 1, 1>>)}

==============================================================================
