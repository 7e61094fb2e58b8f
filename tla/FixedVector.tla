----------------------------- MODULE FixedVector -----------------------------
(***************************************************************************)
(* The vector of fixed capacity (container/fixed_vector.h), and the stack  *)
(* that is such a vector used at its end (container/fixed_stack.h).        *)
(***************************************************************************)
EXTENDS Integers, Sequences, SequencesExt

CONSTANTS
  ItemValues,
  VectorSize   \* N

VARIABLES
  c,    \* the vector, whether fill() was called with 0, whether an assertion failed
  ref   \* the sequence it should hold

SizeMax == 2^8 - 1      \* of size_t, with a small width
Slots == 0 .. VectorSize - 1
NoItem == "none"

Init == /\ c = [slots |-> [i \in Slots |-> NoItem], size |-> 0, peak |-> 0, zeroed |-> FALSE,
                failed |-> FALSE]
        /\ ref = <<>>

\* emplace(): when there is no room nothing happens.
Emplaced(v, x) ==
  IF v.size >= VectorSize THEN v
  ELSE [v EXCEPT !.slots[v.size] = x, !.size = @ + 1, !.peak = IF v.size + 1 > @ THEN v.size + 1 ELSE @]

\* erase_at(), with the assertion it begins with
ErasedAt(v, i) ==
  IF i >= v.size THEN [v EXCEPT !.failed = TRUE]
  ELSE [v EXCEPT !.slots = [j \in Slots |-> IF i <= j /\ j < v.size - 1 THEN @[j + 1] ELSE @[j]],
                 !.size = @ - 1]

RECURSIVE ErasedDown(_, _, _)
\* The loop of fill() that erases from i down to n, with an unsigned i; the
\* process ends with the first assertion that fails.
ErasedDown(v, i, n) ==
  IF v.failed \/ i < n THEN v
  ELSE ErasedDown(ErasedAt(v, i), IF i = 0 THEN SizeMax ELSE i - 1, n)

Overwritten(v, n, x) == [v EXCEPT !.slots = [j \in Slots |-> IF j < n THEN x ELSE @[j]]]

RECURSIVE EmplacedTimes(_, _, _)
EmplacedTimes(v, x, times) == IF times = 0 THEN v ELSE EmplacedTimes(Emplaced(v, x), x, times - 1)

Filled(v, n, x) ==
  IF n >= v.size THEN EmplacedTimes(Overwritten(v, v.size, x), x, n - v.size)
  ELSE ErasedDown(Overwritten(v, n, x), v.size - 1, n)

fill(n, x) ==
  /\ c' = [Filled(c, n, x) EXCEPT !.zeroed = n = 0]
  /\ ref' = [i \in 1 .. n |-> x]

emplace(x) == c' = Emplaced(c, x) /\ ref' = IF Len(ref) = VectorSize THEN ref ELSE Append(ref, x)

erase_at(i) == i < c.size /\ c' = ErasedAt(c, i) /\ ref' = RemoveAt(ref, i + 1)

\* find() and erase() of a value: the first that equals it.
Found(v, x) ==
  LET at == {i \in Slots : i < v.size /\ v.slots[i] = x} IN IF at = {} THEN v.size ELSE Min(at)

erase(x) ==
  /\ c' = IF Found(c, x) = c.size THEN c ELSE ErasedAt(c, Found(c, x))
  /\ ref' = RemoveFirst(ref, x)

\* pop() of a fixed_stack
pop == c.size > 0 /\ c' = ErasedAt(c, c.size - 1) /\ ref' = Front(ref)

Cleared(v) == [v EXCEPT !.size = 0]

clear == c' = Cleared(c) /\ ref' = <<>>

\* The assignment of another vector, which holds values.
assign(values) == c' = FoldLeft(Emplaced, Cleared(c), values) /\ ref' = values

Next ==
  /\ ~c.failed
  /\ \/ \E x \in ItemValues : emplace(x) \/ erase(x) \/ \E n \in 0 .. VectorSize : fill(n, x)
     \/ \E i \in Slots : erase_at(i)
     \/ pop
     \/ clear
     \/ \E n \in 0 .. VectorSize : \E values \in [1 .. n -> ItemValues] : assign(values)
------------------------------------------------------------------------------
\* The assertion of erase_at(), assert_retnone(index < size_), holds of every call
\* the container makes itself, except in fill(0, x) of a vector that is not
\* empty: its index, of an unsigned type, goes on below 0, and the loop does not
\* end.
VectorIndexInRange == c.failed => c.zeroed

\* The vector holds what it should, in order, and the most it ever held is
\* at least that and no more than there is room for.
VectorSound ==
  /\ VectorIndexInRange
  /\ c.failed \/ c.size = Len(ref)
  /\ \A i \in 1 .. Len(ref) : c.slots[i - 1] = ref[i]
  /\ Len(ref) <= c.peak /\ c.peak <= VectorSize
=============================================================================
