--------------------------- MODULE ExtensibleHash ---------------------------
(***************************************************************************)
(* The hash table in a block of memory given by the caller                 *)
(* (container/extensible_hash.h): nodes are linked by their indices, into  *)
(* the chain of a bucket or into the list of free nodes.  A key may be     *)
(* there several times if D allows it.                                     *)
(***************************************************************************)
EXTENDS Integers, Sequences, SequencesExt, FiniteSets

CONSTANTS
  ExtKeys,
  ExtValues,
  total_node_count,
  given_bucket_size   \* 0: hash_size() says how many

VARIABLES
  c,    \* the table
  ref   \* the pairs it should hold, the latest first

npos == -1

\* The beginning of the table of primes.
hash_size(n) ==
  LET sizes == <<3, 13, 23, 53, 97, 193, 389, 769>>
      fit == SelectSeq(sizes, LAMBDA s : n < s)
  IN  IF fit = <<>> THEN Last(sizes) ELSE Head(fit)

ext_bucket_size == IF given_bucket_size = 0 THEN hash_size(total_node_count) ELSE given_bucket_size
NodeIdx == 0 .. total_node_count - 1
BucketIdx == 0 .. ext_bucket_size - 1
BucketIdxOf(k) == k % ext_bucket_size   \* hashcode()
NoPair == <<npos, npos>>

\* create(), for a table of either kind.
Init ==
  \E dup \in BOOLEAN :
    /\ c = [dup |-> dup, used |-> 0, free |-> 0,
            next |-> [i \in NodeIdx |-> IF i = total_node_count - 1 THEN npos ELSE i + 1],
            pair |-> [i \in NodeIdx |-> NoPair],
            buckets |-> [b \in BucketIdx |-> npos]]
    /\ ref = <<>>

RECURSIVE Chain(_, _)
\* The nodes linked from idx on.
Chain(h, idx) == IF idx = npos THEN <<>> ELSE <<idx>> \o Chain(h, h.next[idx])

ChainOf(h, k) == Chain(h, h.buckets[BucketIdxOf(k)])

\* __search and the loops of erase(): the first node with the
\* key and one of the values.
FirstMatch(h, k, values) ==
  LET chain == ChainOf(h, k)
      i == SelectInSeq(chain, LAMBDA n : h.pair[n][1] = k /\ h.pair[n][2] \in values)
  IN  IF i = 0 THEN npos ELSE chain[i]

SearchNode(h, k) == IF h.used <= 0 THEN npos ELSE FirstMatch(h, k, ExtValues)

\* The first free node becomes the first of its bucket.
TakeNode(h, k, v) ==
  [h EXCEPT !.pair[h.free] = <<k, v>>, !.next[h.free] = h.buckets[BucketIdxOf(k)],
            !.buckets[BucketIdxOf(k)] = h.free, !.free = h.next[h.free], !.used = @ + 1]

\* insert(): a full table refuses also to change the value of a key it has.
insert(k, v) ==
  LET n == SearchNode(c, k)
      i == SelectInSeq(ref, LAMBDA p : p[1] = k)
  IN  /\ c.used < total_node_count
      /\ c' = IF ~c.dup /\ n # npos THEN [c EXCEPT !.pair[n][2] = v] ELSE TakeNode(c, k, v)
      /\ ref' = IF ~c.dup /\ i # 0 THEN [ref EXCEPT ![i] = <<k, v>>] ELSE <<<<k, v>>>> \o ref

\* A node leaves its chain and becomes the first free one.
ReleaseNode(h, k, n) ==
  LET b == BucketIdxOf(k)
      chain == ChainOf(h, k)
      prev == IF chain[1] = n THEN npos ELSE chain[SelectInSeq(chain, LAMBDA m : m = n) - 1]
      u == IF prev = npos THEN [h EXCEPT !.buckets[b] = h.next[n]]
           ELSE [h EXCEPT !.next[prev] = h.next[n]]
  IN  [u EXCEPT !.pair[n] = NoPair, !.next[n] = h.free, !.free = n, !.used = @ - 1]

Drop(k, values) ==
  LET i == SelectInSeq(ref, LAMBDA p : p[1] = k /\ p[2] \in values) IN ref' = IF i = 0 THEN ref ELSE RemoveAt(ref, i)

\* erase(k): the first node with the key.
erase(k) ==
  /\ c.used > 0
  /\ \E n \in {FirstMatch(c, k, ExtValues)} : c' = IF n = npos THEN c ELSE ReleaseNode(c, k, n)
  /\ Drop(k, ExtValues)

\* erase(k, v): without duplicates the value does not matter.
erase_pair(k, v) ==
  /\ c.used > 0
  /\ \E n \in {FirstMatch(c, k, IF c.dup THEN {v} ELSE ExtValues)} :
       c' = IF n = npos THEN c ELSE ReleaseNode(c, k, n)
  /\ Drop(k, IF c.dup THEN {v} ELSE ExtValues)

Next ==
  \E k \in ExtKeys : erase(k) \/ \E v \in ExtValues : insert(k, v) \/ erase_pair(k, v)
------------------------------------------------------------------------------
\* Every node is in one chain or in the free list, and in that once; the
\* chains hold the pairs that should be there, those of one key in the order
\* of their insertion, so that the latest is found.
ExtHashSound ==
  LET free == Chain(c, c.free)
      chains == FlattenSeq([b \in 1 .. ext_bucket_size |-> Chain(c, c.buckets[b - 1])])
      values(k) == LET mine == SelectSeq(ChainOf(c, k), LAMBDA n : c.pair[n][1] = k)
                   IN  [i \in DOMAIN mine |-> c.pair[mine[i]][2]]
      wanted(k) == LET mine == SelectSeq(ref, LAMBDA p : p[1] = k)
                   IN  [i \in DOMAIN mine |-> mine[i][2]]
  IN  /\ Len(free) + Len(chains) = total_node_count /\ ToSet(free) \cup ToSet(chains) = NodeIdx
      /\ c.used = Len(chains) /\ Len(ref) = c.used
      /\ \A k \in ExtKeys : values(k) = wanted(k)
=============================================================================
