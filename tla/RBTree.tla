------------------------------- MODULE RBTree -------------------------------
(***************************************************************************)
(* The red-black tree behind fixed_set, fixed_map, shm_set and shm_map     *)
(* (container/detail/rbtree.h).  Nodes are linked by pointers; a sentinel  *)
(* holds the root and the leftmost and rightmost node.  A call is an       *)
(* operator on the whole tree t.                                           *)
(*                                                                         *)
(* A node is named by the key it holds: keys are unique, a node keeps its  *)
(* key as long as it lives, and no behaviour depends on where a node is.   *)
(* The values that go with the keys of a map are left out, and what the    *)
(* source writes out for left and for right is written once, for a side.   *)
(***************************************************************************)
EXTENDS Integers, Sequences, SequencesExt, FiniteSets

CONSTANTS
  Keys,      \* keys used, compared by <
  Capacity   \* nodes the allocator has

VARIABLES
  c,    \* the tree
  ref   \* the keys that should be in it

Sentinel == 0
Null == -1
Node == Keys \cup {Sentinel}
Other(side) == IF side = "left" THEN "right" ELSE "left"

\* reset_sentinel(); the fields of nodes that are not in the tree are not read.
EmptyTree ==
  [child  |-> [side \in {"left", "right"} |-> [n \in Node |-> IF n = Sentinel THEN Sentinel ELSE Null]],
   parent |-> [n \in Node |-> Null],
   red    |-> [n \in Node |-> n = Sentinel],
   used   |-> {}]

Root(t) == t.parent[Sentinel]
Size(t) == Cardinality(t.used)
Begin(t) == t.child.left[Sentinel]
is_red(t, n) == n # Null /\ t.red[n]

\* The side on which n hangs below its parent.
SideOf(t, n) == IF n = t.child.left[t.parent[n]] THEN "left" ELSE "right"

Repaint(t, n, red) == [t EXCEPT !.red[n] = red]
------------------------------------------------------------------------------
(* Walking *)

RECURSIVE Furthest(_, _, _)
\* min_child and max_child
Furthest(t, n, side) ==
  IF t.child[side][n] = Null THEN n ELSE Furthest(t, t.child[side][n], side)

RECURSIVE Climb(_, _, _)
\* Up, as long as n is the child of its parent on this side.
Climb(t, n, side) ==
  IF n = t.child[side][t.parent[n]] THEN Climb(t, t.parent[n], side) ELSE n

increment(t, n) ==
  IF t.child.right[n] # Null THEN Furthest(t, t.child.right[n], "left")
  ELSE LET m == Climb(t, n, "right")
       IN  IF t.child.right[m] # t.parent[m] THEN t.parent[m] ELSE m

decrement(t, n) ==
  IF t.parent[t.parent[n]] = n /\ is_red(t, n) THEN t.child.right[n]
  ELSE IF t.child.left[n] # Null THEN Furthest(t, t.child.left[n], "right")
  ELSE t.parent[Climb(t, n, "left")]
------------------------------------------------------------------------------
(* Inserting *)

\* rotate_left and rotate_right: n goes down on this side.
rotate(t, n, side) ==
  LET o == Other(side)
      p == t.parent[n]
      r == t.child[o][n]
      inner == t.child[side][r]
      u == [t EXCEPT !.child[o][n] = inner, !.child[side][r] = n, !.parent[r] = p, !.parent[n] = r]
      v == IF inner = Null THEN u ELSE [u EXCEPT !.parent[inner] = n]
  IN  IF n = Root(t) THEN [v EXCEPT !.parent[Sentinel] = r]
      ELSE [v EXCEPT !.child[SideOf(t, n)][p] = r]

RECURSIVE InsertFix(_, _)
InsertFix(t, n) ==
  IF n = Root(t) \/ ~is_red(t, t.parent[n]) THEN t
  ELSE LET p == t.parent[n]
           pp == t.parent[p]
           side == SideOf(t, p)
           uncle == t.child[Other(side)][pp]
           inner == SideOf(t, n) = Other(side)
           u == IF inner THEN rotate(t, p, side) ELSE t
           m == IF inner THEN p ELSE n
       IN  IF is_red(t, uncle)
           THEN InsertFix(Repaint(Repaint(Repaint(t, p, FALSE), uncle, FALSE), pp, TRUE), pp)
           ELSE InsertFix(rotate(Repaint(Repaint(u, u.parent[m], FALSE), pp, TRUE), pp, Other(side)), m)

construct(t, n) == [t EXCEPT !.used = @ \cup {n}]

\* The new node below p, and the sentinel's three pointers.
Attach(t, n, p, side) ==
  LET u == [t EXCEPT !.parent[n] = p, !.child.left[n] = Null, !.child.right[n] = Null, !.red[n] = TRUE]
      v == [u EXCEPT !.child[side][p] = n]
  IN  CASE p = Sentinel -> [v EXCEPT !.parent[p] = n, !.child.right[p] = n]
        [] p # Sentinel /\ p = u.child[side][Sentinel] -> [v EXCEPT !.child[side][Sentinel] = n]
        [] OTHER -> v

\* rbtree_algorithm::insert
InsertNode(t, n, p, side) ==
  LET u == InsertFix(Attach(t, n, p, side), n) IN Repaint(u, Root(u), FALSE)

RECURSIVE Descend(_, _, _, _)
\* The last node on the way to where key would be.
Descend(t, key, n, l) ==
  IF n = Null THEN l
  ELSE Descend(t, key, IF key < n THEN t.child.left[n] ELSE t.child.right[n], n)

\* Where to insert key, or the node that has it.
search_position(t, key) ==
  LET l == Descend(t, key, Root(t), Sentinel)
      lt == l = Sentinel \/ key < l
      pred == IF lt THEN decrement(t, l) ELSE l
  IN  IF lt /\ l = t.child.left[Sentinel] THEN [node |-> l, exists |-> FALSE]
      ELSE IF pred < key THEN [node |-> l, exists |-> FALSE]
      ELSE [node |-> pred, exists |-> TRUE]

insert_child(t, p, key) ==
  InsertNode(construct(t, key), key, p, IF p = Sentinel \/ key < p THEN "left" ELSE "right")
------------------------------------------------------------------------------
(* Erasing *)

\* Mutant: the sibling keeps its colour when the parent moves down.
EraseRotateForgets(t, p, side) ==
  LET o == Other(side)
      r0 == t.child[o][p]
      near == ~is_red(t, t.child[o][r0])
      u == IF near THEN rotate(Repaint(Repaint(t, t.child[side][r0], FALSE), r0, TRUE), r0, o) ELSE t
  IN  rotate(Repaint(u, p, FALSE), p, side)

\* The end of the repair: a red child of the sibling makes up for the black
\* node that is gone.
EraseRotate(t, p, side) ==
  LET o == Other(side)
      r0 == t.child[o][p]
      near == ~is_red(t, t.child[o][r0])
      u == IF near THEN rotate(Repaint(Repaint(t, t.child[side][r0], FALSE), r0, TRUE), r0, o) ELSE t
      r == u.child[o][p]
      v == Repaint(Repaint(u, r, u.red[p]), p, FALSE)
      far == v.child[o][r]
  IN  rotate(IF far # Null THEN Repaint(v, far, FALSE) ELSE v, p, side)

Blacken(t, n) == IF n = Null THEN t ELSE Repaint(t, n, FALSE)

RECURSIVE EraseFix(_, _, _)
\* x, below p, is one black node short.
EraseFix(t, x, p) ==
  IF x = Root(t) \/ is_red(t, x) THEN Blacken(t, x)
  ELSE LET side == IF x = t.child.left[p] THEN "left" ELSE "right"
           o == Other(side)
           r0 == t.child[o][p]
           u == IF is_red(t, r0) THEN rotate(Repaint(Repaint(t, r0, FALSE), p, TRUE), p, side) ELSE t
           r == u.child[o][p]
       IN  IF ~is_red(u, u.child.left[r]) /\ ~is_red(u, u.child.right[r])
           THEN EraseFix(Repaint(u, r, TRUE), p, u.parent[p])
           ELSE Blacken(EraseRotate(u, p, side), x)

\* n has at most one child, x, which takes its place.
DetachSingle(t, n, x) ==
  LET p == t.parent[n]
      u == IF x = Null THEN t ELSE [t EXCEPT !.parent[x] = p]
      v == IF n = Root(t) THEN [u EXCEPT !.parent[Sentinel] = x]
           ELSE [u EXCEPT !.child[SideOf(t, n)][p] = x]
      extreme(side) ==
        IF n # t.child[side][Sentinel] THEN t.child[side][Sentinel]
        ELSE IF t.child[Other(side)][n] # Null THEN Furthest(v, x, side) ELSE p
  IN  [v EXCEPT !.child.left[Sentinel] = extreme("left"), !.child.right[Sentinel] = extreme("right")]

\* n has two children: y, the next node, takes its place and its colour.
DetachDouble(t, n, y) ==
  LET x == t.child.right[y]
      q == t.parent[y]
      t1 == [t EXCEPT !.parent[t.child.left[n]] = y, !.child.left[y] = t.child.left[n]]
      t2 == IF y = t.child.right[n] THEN t1
            ELSE [(IF x = Null THEN t1 ELSE [t1 EXCEPT !.parent[x] = q])
                    EXCEPT !.child.left[q] = x, !.child.right[y] = t.child.right[n],
                           !.parent[t.child.right[n]] = y]
      t3 == IF n = Root(t) THEN [t2 EXCEPT !.parent[Sentinel] = y]
            ELSE [t2 EXCEPT !.child[SideOf(t, n)][t.parent[n]] = y]
  IN  [t3 EXCEPT !.parent[y] = t.parent[n], !.red[y] = t.red[n], !.red[n] = t.red[y]]

\* rbtree_algorithm::erase
EraseNode(t, n) ==
  LET two == t.child.left[n] # Null /\ t.child.right[n] # Null
      y == IF two THEN Furthest(t, t.child.right[n], "left") ELSE n
      x == IF t.child.left[y] = Null THEN t.child.right[y] ELSE t.child.left[y]
      p == IF two /\ y = t.child.right[n] THEN y ELSE t.parent[y]
      u == IF two THEN DetachDouble(t, n, y) ELSE DetachSingle(t, n, x)
  IN  IF is_red(u, n) THEN u ELSE EraseFix(u, x, p)

\* What is left in a destroyed node is not read; it is set to what it was first.
destruct(t, n) ==
  [t EXCEPT !.used = @ \ {n}, !.child.left[n] = Null, !.child.right[n] = Null,
            !.parent[n] = Null, !.red[n] = FALSE]

erase_node(t, n) == destruct(EraseNode(t, n), n)

RECURSIVE FindFrom(_, _, _, _)
FindFrom(t, key, n, e) ==
  IF n = Null THEN IF e # Sentinel /\ ~(key < e) THEN e ELSE Sentinel
  ELSE IF ~(n < key) THEN FindFrom(t, key, t.child.left[n], n)
  ELSE FindFrom(t, key, t.child.right[n], e)

find(t, key) == FindFrom(t, key, Root(t), Sentinel)
------------------------------------------------------------------------------
Init == c = EmptyTree /\ ref = {}

\* insert() and emplace(): nothing happens to a key that is there, and
\* nothing to one that is not when the allocator is full.
insert(key) ==
  /\ \E pos \in {search_position(c, key)} :
       c' = IF pos.exists \/ Size(c) >= Capacity THEN c ELSE insert_child(c, pos.node, key)
  /\ ref' = IF Cardinality(ref) < Capacity THEN ref \cup {key} ELSE ref

erase(key) ==
  /\ \E n \in {find(c, key)} : c' = IF n = Sentinel THEN c ELSE erase_node(c, n)
  /\ ref' = ref \ {key}

clear == c # EmptyTree /\ c' = EmptyTree /\ ref' = {}

Next == (\E key \in Keys : insert(key) \/ erase(key)) \/ clear
------------------------------------------------------------------------------
RECURSIVE Walk(_, _, _, _)
\* The nodes an iterator meets from n on; it gives up after more than there are.
Walk(t, forwards, n, left) ==
  IF n = Sentinel \/ left = 0 THEN <<>>
  ELSE <<n>> \o Walk(t, forwards, IF forwards THEN increment(t, n) ELSE decrement(t, n), left - 1)

RECURSIVE black_count(_, _, _)
black_count(t, top, bottom) ==
  IF bottom = Null THEN 0
  ELSE (IF is_red(t, bottom) THEN 0 ELSE 1) + IF bottom = top THEN 0 ELSE black_count(t, top, t.parent[bottom])

\* The assertions after every change, in a debug build
verify_properties(t) ==
  /\ ~is_red(t, Root(t))
  /\ IF Size(t) = 0 THEN \A side \in {"left", "right"} : t.child[side][Sentinel] = Sentinel
     ELSE LET nodes == Walk(t, TRUE, Begin(t), Size(t) + 1) IN
          /\ \A side \in {"left", "right"} : t.child[side][Sentinel] = Furthest(t, Root(t), side)
          /\ Len(nodes) = Size(t)
          /\ \A n \in ToSet(nodes) : LET l == t.child.left[n]
                                     r == t.child.right[n] IN
               /\ (r # Null => ~(r < n)) /\ (l # Null => ~(n < l))
               /\ is_red(t, n) => ~is_red(t, l) /\ ~is_red(t, r)
               /\ l = Null /\ r = Null => black_count(t, Root(t), n) = black_count(t, Root(t), Begin(t))

RECURSIVE BlackHeights(_, _)
\* The numbers of black nodes on the ways from n down to a missing child.
BlackHeights(t, n) ==
  IF n = Null THEN {0}
  ELSE {h + IF t.red[n] THEN 0 ELSE 1 :
          h \in BlackHeights(t, t.child.left[n]) \cup BlackHeights(t, t.child.right[n])}

\* The keys in order, as they should be.
Sorted == [i \in 1 .. Cardinality(ref) |-> CHOOSE k \in ref : Cardinality({j \in ref : j < k}) = i - 1]

\* The assertions of verify_properties() hold; all ways down to a missing child
\* have the same number of black nodes, where the code looks at leaves only;
\* lookups and iterators, forwards and backwards, see exactly the keys that
\* should be there.
TreeSound ==
  /\ c.used = ref
  /\ verify_properties(c)
  /\ Cardinality(BlackHeights(c, Root(c))) = 1
  /\ Walk(c, TRUE, Begin(c), Cardinality(ref) + 1) = Sorted
  /\ ref # {} => Walk(c, FALSE, decrement(c, Sentinel), Cardinality(ref)) = Reverse(Sorted)
  /\ \A key \in Keys : find(c, key) = IF key \in ref THEN key ELSE Sentinel
=============================================================================
