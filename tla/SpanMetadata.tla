---------------------------- MODULE SpanMetadata ----------------------------
(***************************************************************************)
(* What the page heap keeps its spans in, both in memory that is never     *)
(* given back and may not come.                                            *)
(*                                                                         *)
(* The radix tree of three levels (shm/detail/radix_tree.h) in which the   *)
(* page heap finds the span of a page; the nodes of the two lower levels   *)
(* are metadata.                                                           *)
(*                                                                         *)
(* The allocator of span structures (shm/detail/metadata_allocator.h).  A  *)
(* cell that is free holds the address of the next one; its user writes    *)
(* over that.  Memory comes in pieces that need not be a multiple of a     *)
(* cell.                                                                   *)
(***************************************************************************)
EXTENDS Integers, Sequences, FiniteSets

CONSTANTS
  BITS0, BITS1, BITS2,
  RadixValues,
  NodeCount,    \* nodes shm_allocate_metadata() can still provide
  CellSize,     \* sizeof(T)
  Pieces,       \* sizes shm_allocate_metadata() returns for ALLOCATION_SIZE
  MemorySize    \* of the block

VARIABLES
  c,    \* the tree: lv0_, the nodes of both kinds, and how many are allocated;
        \* or the allocator: free_list_, the links in memory, stat_, and where
        \* the block ends
  ref   \* the values that were set, or the cells in use
------------------------------------------------------------------------------
(* The radix tree *)

NoAddr == 0
NoValue == "none"   \* V()
NullPtr == "null"
Size == 2 ^ (BITS0 + BITS1 + BITS2)

i0(key) == key \div 2 ^ (BITS1 + BITS2)
i1(key) == (key \div 2 ^ BITS2) % 2 ^ BITS1
i2(key) == key % 2 ^ BITS2

NewV1 == [k \in 0 .. 2 ^ BITS1 - 1 |-> NoAddr]
NewV2 == [k \in 0 .. 2 ^ BITS2 - 1 |-> NoValue]

RadixInit ==
  /\ c = [lv0 |-> [k \in 0 .. 2 ^ BITS0 - 1 |-> NoAddr], v1 |-> [n \in 1 .. NodeCount |-> NewV1],
          v2 |-> [n \in 1 .. NodeCount |-> NewV2], used |-> 0]
  /\ ref = [key \in 0 .. Size - 1 |-> NoValue]

\* shm_allocate_metadata() for an entry that is NoAddr: the address, or NoAddr
Address(t) == IF t.used < NodeCount THEN t.used + 1 ELSE NoAddr
Counted(t) == IF t.used < NodeCount THEN t.used + 1 ELSE t.used

\* The node of the second level, and then of the third, if they are not there
WithV1(t, key) ==
  IF t.lv0[i0(key)] # NoAddr THEN t
  ELSE [t EXCEPT !.lv0[i0(key)] = Address(t), !.used = Counted(t)]
WithV2(t, key) ==
  LET n == t.lv0[i0(key)]
  IN  IF n = NoAddr \/ t.v1[n][i1(key)] # NoAddr THEN t
      ELSE [t EXCEPT !.v1[n][i1(key)] = Address(t), !.used = Counted(t)]
Leaf(t, key) == IF t.lv0[i0(key)] = NoAddr THEN NoAddr ELSE t.v1[t.lv0[i0(key)]][i1(key)]

\* set() of a key that fits; another fails the assertion and changes nothing.
set(key, v) ==
  \E t \in {WithV2(WithV1(c, key), key)} :
    IF Leaf(t, key) = NoAddr THEN c' = t /\ UNCHANGED ref
    ELSE c' = [t EXCEPT !.v2[Leaf(t, key)][i2(key)] = v] /\ ref' = [ref EXCEPT ![key] = v]

get(key) == IF Leaf(c, key) = NoAddr THEN NullPtr ELSE c.v2[Leaf(c, key)][i2(key)]

RadixNext == \E key \in 0 .. Size - 1, v \in RadixValues : set(key, v)
Addresses == {c.lv0[k] : k \in DOMAIN c.lv0} \cup UNION {{c.v1[n][k] : k \in DOMAIN c.v1[n]} : n \in DOMAIN c.v1}

\* Every key has the value that was set last, and one that was never set, or
\* for which there was no node, has none; no node is lost, also when set()
\* finds memory for the second level and none for the third.
RadixSound ==
  /\ \A key \in 0 .. Size - 1 :
       IF ref[key] = NoValue THEN get(key) \in {NullPtr, NoValue} ELSE get(key) = ref[key]
  /\ Addresses \ {NoAddr} = 1 .. c.used
------------------------------------------------------------------------------
(* The allocator *)

NoCell == -1
UserData == -2

\* stat_.alloc_count - stat_.free_count is live.
AllocatorInit ==
  /\ c = [free_list |-> NoCell, link |-> [a \in 0 .. MemorySize - 1 |-> UserData],
          total_size |-> 0, waste_size |-> 0, live |-> 0, end |-> 0]
  /\ ref = {}

\* The loop over a piece of memory, which links every cell that fits.
CellsIn(ptr, size) == {ptr + k * CellSize : k \in 0 .. size \div CellSize - 1}
Carved(m, ptr, size) ==
  LET cells == CellsIn(ptr, size)
  IN  [m EXCEPT !.link = [a \in DOMAIN @ |-> IF a \notin cells THEN @[a]
                                             ELSE IF a = ptr THEN m.free_list ELSE a - CellSize],
                !.free_list = IF cells = {} THEN @ ELSE ptr + (size \div CellSize - 1) * CellSize,
                !.total_size = @ + size,
                !.waste_size = @ + (size % CellSize),
                !.end = ptr + size]

\* The first cell of the free list is taken, and its user writes to it.
Take(m) ==
  /\ c' = [m EXCEPT !.free_list = m.link[m.free_list], !.link[m.free_list] = UserData, !.live = @ + 1]
  /\ ref' = ref \cup {m.free_list}

\* allocate(); when the free list is empty and no memory comes it fails.
allocate ==
  IF c.free_list # NoCell THEN Take(c)
  ELSE \E size \in Pieces :
         /\ c.end + size <= MemorySize
         /\ \E m \in {Carved(c, c.end, size)} : Take(m)

deallocate(a) ==
  /\ a \in ref /\ ref' = ref \ {a}
  /\ c' = [c EXCEPT !.link[a] = c.free_list, !.free_list = a, !.live = @ - 1]

AllocatorNext == allocate \/ \E a \in 0 .. MemorySize - 1 : deallocate(a)
RECURSIVE FreeFrom(_, _)
\* The cells of the free list from a on, at most n
FreeFrom(a, n) == IF a = NoCell \/ n = 0 THEN <<>> ELSE <<a>> \o FreeFrom(c.link[a], n - 1)

\* Cells do not overlap; each is in use or in the free list, once, whatever its
\* user wrote to it, and what the statistics say was wasted is all that is
\* neither.
AllocatorSound ==
  LET chain == FreeFrom(c.free_list, MemorySize)
      free == {chain[k] : k \in DOMAIN chain}
  IN  /\ Len(chain) = Cardinality(free) /\ free \cap ref = {}
      /\ \A a, b \in free \cup ref : a < b => a + CellSize <= b
      /\ \A a \in free \cup ref : a >= 0 /\ a + CellSize <= c.end
      /\ c.total_size = c.end /\ c.total_size = Cardinality(free \cup ref) * CellSize + c.waste_size
      /\ c.live = Cardinality(ref)
=============================================================================
