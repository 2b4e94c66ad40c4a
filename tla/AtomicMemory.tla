----------------------------- MODULE AtomicMemory ------------------------------
(***************************************************************************)
(* What the communication layer promises: every operation a program asks   *)
(* for happens once, all at once, to the cells of the PE it names, with    *)
(* the value it had when it was asked for.  A transfer of several cells is *)
(* as many operations.  A cell is <<PE, region, offset>>.                  *)
(***************************************************************************)
EXTENDS Integers, Sequences

VARIABLES
  word,      \* the bit in each cell
  owed,      \* the operations asked for that have not happened
  answer     \* what each operation that happened found

\* the number a word stands for, its first bit the lowest, and the word of a number
Number(w) ==
  LET upto[k \in 0..Len(w)] == IF k = 0 THEN 0 ELSE 2 * upto[k - 1] + w[Len(w) - k + 1]
  IN  upto[Len(w)]
Bits(n, len) ==
  LET half[k \in 1..len] == IF k = 1 THEN n ELSE half[k - 1] \div 2
  IN  [k \in 1..len |-> half[k] % 2]

After(o, old) ==
  CASE o.op = "load" -> old
    [] o.op \in {"store", "swap"} -> o.value
    [] o.op = "cswap" -> IF old = o.cond THEN o.value ELSE old
    [] o.op = "add" -> Bits(Number(old) + Number(o.value), Len(old))
    [] o.op = "and" -> [k \in DOMAIN old |-> old[k] * o.value[k]]
    [] o.op = "or" -> [k \in DOMAIN old |-> IF old[k] + o.value[k] = 0 THEN 0 ELSE 1]
    [] o.op = "xor" -> [k \in DOMAIN old |-> (old[k] + o.value[k]) % 2]

Cell(at, k) == <<at[1], at[2], at[3] + k - 1>>
Found(o) == [k \in 1..o.len |-> word[Cell(o.at, k)]]
\* w written from the cell at on; to is <<>> when the answer is dropped
With(m, at, w) ==
  [c \in DOMAIN m |-> IF at # <<>> /\ \E k \in DOMAIN w : c = Cell(at, k)
                      THEN w[CHOOSE k \in DOMAIN w : c = Cell(at, k)] ELSE m[c]]

Init == owed = {} /\ answer = <<>>

Ids == {o.id : o \in owed} \cup DOMAIN answer

\* A program asks for operations.
Ask ==
  /\ owed \subseteq owed'
  /\ \A o \in owed' \ owed : o.id \notin Ids
  /\ UNCHANGED <<word, answer>>

Happen(o) ==
  /\ word' = With(With(word, o.at, After(o, Found(o))), o.to, Found(o))
  /\ answer' = [id \in DOMAIN answer \cup {o.id} |->
                  IF id = o.id THEN Found(o) ELSE answer[id]]

Perform(o) == Happen(o) /\ owed' = owed \ {o}

\* A program stores to a cell of its own: it happens when it is asked for.
Assign(id, c, bit) ==
  /\ id \notin Ids
  /\ Happen([id |-> id, op |-> "store", at |-> c, len |-> 1, value |-> <<bit>>, to |-> <<>>])
  /\ UNCHANGED owed

Next ==
  \/ Ask
  \/ \E o \in owed : Perform(o)
  \/ \E id \in DOMAIN answer', c \in DOMAIN word, bit \in {0, 1} : Assign(id, c, bit)

Spec == Init /\ [][Next]_<<word, owed, answer>>

==============================================================================
