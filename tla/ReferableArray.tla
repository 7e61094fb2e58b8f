--------------------------- MODULE ReferableArray ---------------------------
(***************************************************************************)
(* The array whose elements keep their index (container/referable_array.h) *)
(* and the copies of it.  An unused slot holds the index of the next one.  *)
(***************************************************************************)
EXTENDS Integers, Sequences, SequencesExt, FiniteSets

CONSTANTS
  ArrayValues,
  SlotCount   \* N

VARIABLES
  c,    \* two arrays
  ref   \* the element that should be at each index in use, for each

npos == -1
Index == 0 .. SlotCount - 1
Empty == [i \in {} |-> npos]

\* __init
InitArray ==
  [used |-> [i \in Index |-> FALSE],
   data |-> [i \in Index |-> IF i = SlotCount - 1 THEN npos ELSE i + 1],
   used_count |-> 0, free_head |-> 0]

Init == c = [a \in 1 .. 2 |-> InitArray] /\ ref = [a \in 1 .. 2 |-> Empty]

full(a) == a.used_count >= SlotCount
empty(a) == a.used_count <= 0

\* at(): what is at an index, if anything
at(a, i) == IF a.used[i] THEN {a.data[i]} ELSE {}

add_free(a, i) ==
  [a EXCEPT !.used[i] = FALSE, !.data[i] = a.free_head, !.free_head = i, !.used_count = @ - 1]

\* __add_used, and the free list without the slot
add_used(a, v) ==
  [a EXCEPT !.used[a.free_head] = TRUE, !.used_count = @ + 1,
            !.free_head = a.data[a.free_head], !.data[a.free_head] = v]

\* __copy: used slots and free links stay at their index.
CopyOf(a) ==
  [used |-> [i \in Index |-> a.used[i]],
   data |-> [i \in Index |-> a.data[i]],
   used_count |-> a.used_count, free_head |-> a.free_head]

emplace(a, v) ==
  /\ ~full(c[a])
  /\ c' = [c EXCEPT ![a] = add_used(@, v)]
  /\ ref' = [ref EXCEPT ![a] = [i \in DOMAIN @ \cup {c[a].free_head} |-> IF i \in DOMAIN @ THEN @[i] ELSE v]]

erase(a, i) ==
  /\ c[a].used[i]
  /\ c' = [c EXCEPT ![a] = add_free(@, i)]
  /\ ref' = [ref EXCEPT ![a] = [j \in DOMAIN @ \ {i} |-> @[j]]]

\* Every slot in use is freed, from the first on.
Cleared(a) ==
  FoldLeft(LAMBDA b, i : IF b.used[i] THEN add_free(b, i) ELSE b, a, SetToSortSeq(Index, <))

clear(a) == c' = [c EXCEPT ![a] = Cleared(@)] /\ ref' = [ref EXCEPT ![a] = Empty]

\* The assignment operator; what clear() leaves is overwritten altogether.
assign(a, b) ==
  a # b /\ c' = [c EXCEPT ![a] = CopyOf(c[b])] /\ ref' = [ref EXCEPT ![a] = ref[b]]

Next ==
  \E a \in 1 .. 2 :
    \/ \E v \in ArrayValues : emplace(a, v)
    \/ \E i \in Index : erase(a, i)
    \/ clear(a)
    \/ \E b \in 1 .. 2 : assign(a, b)
------------------------------------------------------------------------------
RECURSIVE FreeList(_, _, _)
FreeList(a, i, fuel) ==
  IF fuel = 0 \/ i = npos THEN <<>> ELSE <<i>> \o FreeList(a, a.data[i], fuel - 1)

\* Each array has its elements at the indices emplace() returned, also after
\* it has been copied, and links exactly its other slots; it is full, and
\* empty, when full() and empty() assert it is.
ArraySound ==
  \A x \in 1 .. 2 :
    LET a == c[x]
        free == FreeList(a, a.free_head, SlotCount + 1)
    IN  /\ {i \in Index : a.used[i]} = DOMAIN ref[x]
        /\ \A i \in Index : at(a, i) = IF i \in DOMAIN ref[x] THEN {ref[x][i]} ELSE {}
        /\ Len(free) = SlotCount - Cardinality(DOMAIN ref[x])
        /\ ToSet(free) = Index \ DOMAIN ref[x]
        /\ a.used_count = Cardinality(DOMAIN ref[x])
        /\ (full(a) => a.free_head = npos) /\ (empty(a) => a.free_head # npos)
=============================================================================
