-------------------------------- MODULE List --------------------------------
(***************************************************************************)
(* The doubly linked list behind fixed_list and shm_list                   *)
(* (container/detail/list.h), with the pool of nodes of a fixed_list       *)
(* (container/detail/fixed_allocator.h).  A freed node is a link of the    *)
(* pool's free list: the pointer to the next free node is written over the *)
(* beginning of the node, which is where its prev pointer was.             *)
(***************************************************************************)
EXTENDS Integers, Sequences, SequencesExt, FiniteSets

CONSTANTS
  Values,
  PoolSize,  \* N, the nodes of the pool
  Assigned   \* sequences of values that are assigned to the list

VARIABLES
  c,    \* the list and its pool
  ref   \* the values that should be in it

Sentinel == 0
Null == -1
Slot == 1 .. PoolSize
NodeOrDummy == Slot \cup {Sentinel}
NoValue == "none"

Init ==
  /\ c = [next |-> [n \in NodeOrDummy |-> Sentinel], prev |-> [n \in NodeOrDummy |-> Sentinel],
          value |-> [n \in Slot |-> NoValue],
          head |-> Null, fresh |-> 1, size |-> 0, peak |-> 0]
  /\ ref = <<>>
------------------------------------------------------------------------------
(* The pool *)

Counted(l) == [l EXCEPT !.size = @ + 1, !.peak = IF l.size + 1 > @ THEN l.size + 1 ELSE @]

\* The node allocate() returns, and the list without it in the pool.
Allocated(l) == IF l.head # Null THEN l.head ELSE IF l.fresh <= PoolSize THEN l.fresh ELSE Null

Allocate(l) ==
  Counted(IF l.head # Null THEN [l EXCEPT !.head = l.prev[l.head]] ELSE [l EXCEPT !.fresh = @ + 1])

Deallocate(l, n) == [l EXCEPT !.size = @ - 1, !.prev[n] = l.head, !.head = n]

full(l) == l.size >= PoolSize
empty(l) == l.size <= 0
------------------------------------------------------------------------------
(* The list *)

Link(l, n, next) ==
  LET before == l.prev[next] IN
  [l EXCEPT !.next = [@ EXCEPT ![n] = next, ![before] = n],
            !.prev = [@ EXCEPT ![n] = before, ![next] = n]]

Unlink(l, n) == [l EXCEPT !.prev[l.next[n]] = l.prev[n], !.next[l.prev[n]] = l.next[n]]

\* construct() and link(): a full pool leaves the list as it is.
Insert(l, v, pos) ==
  LET n == Allocated(l) IN
  IF n = Null THEN l ELSE Link([Allocate(l) EXCEPT !.value[n] = v], n, pos)

\* unlink() and destruct()
RemoveNode(l, n) == Deallocate(Unlink(l, n), n)

emplace_front(l, v) == Insert(l, v, l.next[Sentinel])

\* value() of a node; the sentinel has none.
ValueOf(l, n) == IF n = Sentinel THEN NoValue ELSE l.value[n]
front(l) == IF empty(l) THEN NoValue ELSE ValueOf(l, l.next[Sentinel])
back(l) == IF empty(l) THEN NoValue ELSE ValueOf(l, l.prev[Sentinel])

RECURSIVE RemoveFrom(_, _)
\* erase() up to the end; clear(), when it begins at the first node.
RemoveFrom(l, n) == IF n = Sentinel THEN l ELSE RemoveFrom(RemoveNode(l, n), l.next[n])

RECURSIVE Assign(_, _, _)
\* assign(): from pos on the values are overwritten, then the rest of the
\* values is appended or the rest of the list is erased.
Assign(l, pos, values) ==
  CASE pos = Sentinel -> FoldLeft(LAMBDA m, v : Insert(m, v, Sentinel), l, values)
    [] pos # Sentinel /\ values = <<>> -> RemoveFrom(l, pos)
    [] OTHER -> Assign([l EXCEPT !.value[pos] = Head(values)], l.next[pos], Tail(values))

RECURSIVE Walk(_, _, _)
\* The nodes from n on, to the sentinel; no more than the pool has.
Walk(link, n, fuel) ==
  IF fuel = 0 \/ n \in {Sentinel, Null} THEN <<>> ELSE <<n>> \o Walk(link, link[n], fuel - 1)

Nodes(l) == Walk(l.next, l.next[Sentinel], PoolSize + 1)

push_back(v) ==
  c' = Insert(c, v, Sentinel) /\ ref' = IF full(c) THEN ref ELSE Append(ref, v)

push_front(v) ==
  c' = emplace_front(c, v) /\ ref' = IF full(c) THEN ref ELSE <<v>> \o ref

\* insert() and erase() at an iterator: the i-th node; insert also at the end.
insert(i, v) ==
  /\ c' = Insert(c, v, IF i > Len(ref) THEN Sentinel ELSE Nodes(c)[i])
  /\ ref' = IF full(c) THEN ref ELSE InsertAt(ref, i, v)

erase(i) == c' = RemoveNode(c, Nodes(c)[i]) /\ ref' = RemoveAt(ref, i)

pop_back == ~empty(c) /\ c' = RemoveNode(c, c.prev[Sentinel]) /\ ref' = Front(ref)
pop_front == ~empty(c) /\ c' = RemoveNode(c, c.next[Sentinel]) /\ ref' = Tail(ref)
clear == c' = RemoveFrom(c, c.next[Sentinel]) /\ ref' = <<>>
assign(values) == c' = Assign(c, c.next[Sentinel], values) /\ ref' = values

Next ==
  \/ \E v \in Values : push_back(v) \/ push_front(v) \/ \E i \in 1 .. Len(ref) + 1 : insert(i, v)
  \/ \E i \in 1 .. Len(ref) : erase(i)
  \/ pop_back \/ pop_front \/ clear
  \/ \E values \in Assigned : assign(values)
------------------------------------------------------------------------------
\* Forwards and backwards the list is what the calls made of it, and each
\* node of the pool is in the list, in the free list or still fresh, once.
ListSound ==
  LET nodes == Nodes(c)
      free == Walk(c.prev, c.head, PoolSize + 1)
      fresh == c.fresh .. PoolSize
  IN  /\ [i \in DOMAIN nodes |-> c.value[nodes[i]]] = ref
      /\ ref # <<>> => front(c) = Head(ref) /\ back(c) = Last(ref)
      /\ Walk(c.prev, c.prev[Sentinel], PoolSize + 1) = Reverse(nodes)
      /\ ToSet(nodes) \cup ToSet(free) \cup fresh = Slot
      /\ Len(nodes) + Len(free) + Cardinality(fresh) = PoolSize
      /\ c.size = Len(ref) /\ c.peak + 1 = c.fresh
=============================================================================
