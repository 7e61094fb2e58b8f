------------------------------- MODULE ShmHash -------------------------------
(***************************************************************************)
(* The hash table in shared memory (container/shm_hash.h): an array of     *)
(* buckets, each a chain of nodes, the latest first.  Nodes come from the  *)
(* shared memory allocator, which may have none.                           *)
(***************************************************************************)
EXTENDS Integers, Sequences, SequencesExt, FiniteSets

CONSTANTS
  HashKeys,        \* keys: signed integers
  SIZE_T,          \* 2^64, the width of a hash code
  HashValues,
  max_node_count   \* total_node_count

VARIABLES
  c,    \* the table: its buckets and used_node_count
  ref   \* what it should hold: the value of each key

\* The beginning of the table of primes.
hash_size(n) ==
  LET sizes == <<3, 13, 23, 53, 97, 193, 389, 769>>
      fit == SelectSeq(sizes, LAMBDA s : n < s)
  IN  IF fit = <<>> THEN Last(sizes) ELSE Head(fit)

bucket_size == hash_size(max_node_count)
Bucket == 0 .. bucket_size - 1
hashfunc(k) == k % SIZE_T
BucketOf(k) == hashfunc(k) % bucket_size
Nothing == [x \in {} |-> 0]

Init ==
  /\ c = [buckets |-> [i \in Bucket |-> <<>>], used |-> 0]
  /\ ref = Nothing

HashNode(k, v) == [key |-> k, value |-> v]

full(h) == h.used >= max_node_count

\* The place of a key in a chain; 0: it is not there.
PlaceIn(chain, k) == SelectInSeq(chain, LAMBDA node : node.key = k)

\* __search
Search(h, k) ==
  IF h.used <= 0 THEN 0 ELSE PlaceIn(h.buckets[BucketOf(k)], k)

\* find: the value, if there is one
Find(h, k) ==
  LET i == Search(h, k) IN IF i = 0 THEN {} ELSE {h.buckets[BucketOf(k)][i].value}

\* insert(): a full table refuses also to change the value of a key it has.
insert(k, v, allocated) ==
  LET i == Search(c, k)
      b == BucketOf(k)
  IN  /\ ~full(c)
      /\ i # 0 => allocated
      /\ c' = CASE i # 0 -> [c EXCEPT !.buckets[b][i].value = v]
                [] i = 0 /\ ~allocated -> c
                [] OTHER -> [c EXCEPT !.buckets[b] = <<HashNode(k, v)>> \o @, !.used = @ + 1]
      /\ ref' = IF i = 0 /\ ~allocated THEN ref
                ELSE [x \in DOMAIN ref \cup {k} |-> IF x = k THEN v ELSE ref[x]]

\* Mutant: the chain is cut off at the erased node.
WithoutTail(chain, i) == SubSeq(chain, 1, i - 1)

Without(chain, i) == RemoveAt(chain, i)

erase(k) ==
  LET i == PlaceIn(c.buckets[BucketOf(k)], k) IN
  /\ c.used > 0
  /\ c' = IF i = 0 THEN c ELSE [c EXCEPT !.buckets[BucketOf(k)] = Without(@, i), !.used = @ - 1]
  /\ ref' = [x \in DOMAIN ref \ {k} |-> ref[x]]

clear == c.used > 0 /\ c' = [buckets |-> [i \in Bucket |-> <<>>], used |-> 0] /\ ref' = Nothing

Next ==
  \/ \E k \in HashKeys, v \in HashValues, allocated \in BOOLEAN : insert(k, v, allocated)
  \/ \E k \in HashKeys : erase(k)
  \/ clear
------------------------------------------------------------------------------
NoNode == <<>>

\* The first node of the first bucket from i on that has one.
FirstFrom(h, i) ==
  LET some == {b \in Bucket : b >= i /\ h.buckets[b] # <<>>} IN
  IF some = {} THEN NoNode ELSE <<Min(some), 1>>

\* The last node of the last bucket before i that has one.
LastBefore(h, i) ==
  LET some == {b \in Bucket : b < i /\ h.buckets[b] # <<>>} IN
  IF some = {} THEN NoNode ELSE <<Max(some), Len(h.buckets[Max(some)])>>

\* Iterators: a node is its bucket and its place in the chain.
Begin(h) == FirstFrom(h, 0)
NextNode(h, n) == IF n[2] < Len(h.buckets[n[1]]) THEN <<n[1], n[2] + 1>> ELSE FirstFrom(h, n[1] + 1)
PrevNode(h, n) == IF n[2] > 1 THEN <<n[1], n[2] - 1>> ELSE LastBefore(h, n[1])

RECURSIVE Visited(_, _)
Visited(h, n) == IF n = NoNode THEN <<>> ELSE <<n>> \o Visited(h, NextNode(h, n))

\* The table holds what the calls put into it, each key once and in the
\* bucket where it is looked for; an iterator meets each node once, and finds
\* its way back.
HashSound ==
  LET nodes == Visited(c, Begin(c))
      key(n) == c.buckets[n[1]][n[2]].key
  IN  /\ \A k \in HashKeys : Find(c, k) = IF k \in DOMAIN ref THEN {ref[k]} ELSE {}
      /\ c.used = Cardinality(DOMAIN ref) /\ c.used <= max_node_count
      /\ Len(nodes) = c.used /\ {key(n) : n \in ToSet(nodes)} = DOMAIN ref
      /\ \A i \in 1 .. Len(nodes) :
           PrevNode(c, nodes[i]) = IF i = 1 THEN NoNode ELSE nodes[i - 1]
=============================================================================
