--------------------------- MODULE ShmAllocProofs ---------------------------
(***************************************************************************)
(* Proofs about the shared memory allocator, for any table of size classes *)
(* and any sequence of malloc(), free() and singletons, on the proofs of   *)
(* the page heap.                                                          *)
(*                                                                         *)
(* The chunk cache is followed through the operators a call is composed of *)
(* as a predicate, Books, on the heap h, the cuts C of the spans, the      *)
(* caches K of the classes and the set B of the units where live objects   *)
(* begin.  What a pointer leads to is then a matter of the objects alone:  *)
(* the serial numbers go round in turn (InTurn), and a live object has its *)
(* own in front of it (LiveKept).                                          *)
(***************************************************************************)
EXTENDS ShmAlloc, PageHeapProofs

-----------------------------------------------------------------------------
(* The invariant *)

Cuts == [cls : Nat, used : Int, chunks : Seq(Nat)]
CacheRecords == [list : Seq(SpanId), count : Int, used : Int, total : Int]

\* The units of a span, and where its chunks of class c begin.
Zone(h, s) == {u \in Unit : Start(h, s) * PAGE_SIZE <= u /\ u < End(h, s) * PAGE_SIZE}
Grid(h, s, c) == ToSet(partition(h.spans[s], c).chunks)

\* A span that is cut is held, and in the map with all its pages; each of its
\* chunks is in its list, or an object begins there.
CutSound(h, s, k, B) ==
  /\ k.cls \in DOMAIN Classes
  /\ s \in Held(h) /\ h.spans[s].cached /\ h.spans[s].count = Classes[k.cls].pages
  /\ Once(k.chunks) /\ ToSet(k.chunks) \cap (B \cap Zone(h, s)) = {}
  /\ (B \cap Zone(h, s)) \cup ToSet(k.chunks) = Grid(h, s, k.cls)
  /\ k.used = Cardinality(B \cap Zone(h, s))

\* Objects begin in spans somebody has; in one that is not cut, at its start.
BasesHeld(h, C, B) ==
  /\ B \subseteq Unit
  /\ \A u \in B : \E s \in Held(h) :
       u \in Zone(h, s) /\ (C[s].cls = NoClass => u = Start(h, s) * PAGE_SIZE)

CutInto(C, c) == {s \in SpanId : C[s].cls = c}
InClass(h, C, B, c) == {u \in B : \E s \in CutInto(C, c) : u \in Zone(h, s)}
InUseOf(h, C, B, c) == Classes[c].size * Cardinality(InClass(h, C, B, c))
PagesOf(h, C, c) == {p \in Page : \E s \in CutInto(C, c) : Start(h, s) <= p /\ p < End(h, s)}

\* The cache of class c.
CacheSound(h, C, k, B, c) ==
  /\ Once(k.list) /\ k.count = Cardinality(ToSet(k.list))
  /\ ToSet(k.list) = {s \in CutInto(C, c) : C[s].chunks # <<>>}
  /\ \A s, t \in CutInto(C, c) : C[s].used = 0 /\ C[t].used = 0 => s = t
  /\ k.used = InUseOf(h, C, B, c)
  /\ k.total = Cardinality(PagesOf(h, C, c))

Books(h, C, K, B) ==
  /\ Good(h) /\ C \in [SpanId -> Cuts] /\ K \in [DOMAIN Classes -> CacheRecords]
  /\ \A s \in SpanId : C[s] = Whole \/ CutSound(h, s, C[s], B)
  /\ BasesHeld(h, C, B)
  /\ \A c \in DOMAIN Classes : CacheSound(h, C, K[c], B, c)

With(f, a, b) == [f EXCEPT ![a] = b]

Base(o) == o.ptr.offset - Meta
Bases(l) == {Base(o) : o \in l}

\* There is room for n units at u.
Room(h, C, u, n) ==
  \E s \in Held(h) :
    /\ u \in Zone(h, s)
    /\ n <= IF C[s].cls = NoClass THEN h.spans[s].count * PAGE_SIZE ELSE Classes[C[s].cls].size

Period == MaxSerial - MIN_VALID_SERIAL_NUM + 1

\* How many serial numbers ago serial number a was, when the next one is b.
Ago(a, b) == IF a < b THEN b - a ELSE b - a + Period

Object == [ptr : [serial : MIN_VALID_SERIAL_NUM .. MaxSerial, offset : Nat], size : Nat, born : Nat]

\* Objects have serial numbers in turn; the next one is n.
InTurn(g, n) ==
  /\ \A o \in g : o.born \in 1 .. Cardinality(g)
  /\ \A o, p \in g : o.born = p.born => o = p
  /\ \A o, p \in g : o.ptr.serial = p.ptr.serial /\ p.born < o.born => o.born - p.born >= Period
  /\ \A o \in g : \/ Cardinality(g) + 1 - o.born >= Period
                  \/ Cardinality(g) + 1 - o.born = Ago(o.ptr.serial, n)

\* A live object is the only one that begins where it does, the last one that
\* did, and has its serial number there; elsewhere there is none.
LiveKept(M, g, l) ==
  /\ \A o, p \in l : Base(o) = Base(p) => o = p
  /\ \A o \in l, p \in g : Base(o) = Base(p) => p.born <= o.born
  /\ \A o \in l : M[Base(o)] = o.ptr.serial
  /\ \A u \in Unit \ Bases(l) : M[u] = 0

\* The memory, with the objects l in it, of all those g there ever were.
Accounted(h, C, K, M, g, l, n) ==
  /\ Books(h, C, K, Bases(l))
  /\ \A o \in l : Room(h, C, Base(o), o.size + Meta)
  /\ l \subseteq g /\ IsFiniteSet(g)
  /\ \A o \in g : o \in Object /\ Base(o) \in Unit
  /\ M \in [Unit -> Nat] /\ n \in MIN_VALID_SERIAL_NUM .. MaxSerial
  /\ InTurn(g, n) /\ LiveKept(M, g, l)

\* The inductive invariant.
AInv ==
  /\ Accounted(Heap, cut, caches, meta, given, live, serial)
  /\ singleton = NullPtr \/ \E o \in given : singleton = o.ptr
-----------------------------------------------------------------------------
(* Units, pages and chunks *)

LEMMA AllocConstants ==
  /\ PAGE_SIZE \in Nat \ {0} /\ MmapPages \in Nat \ {0} /\ MaxSerial \in Nat /\ Period \in Nat \ {0}
  /\ MmapPages * PAGE_SIZE \in Nat /\ Unit \subseteq Nat
  /\ \A c \in DOMAIN Classes : /\ c \in Nat /\ c # NoClass
                               /\ Classes[c].size \in Nat \ {0} /\ Classes[c].pages \in Nat \ {0}
                               /\ Classes[c].size <= Classes[c].pages * PAGE_SIZE
<1>1. PAGE_SIZE \in Nat \ {0} /\ MmapPages \in Nat \ {0} /\ MaxSerial \in Nat /\ MaxSerial >= MIN_VALID_SERIAL_NUM
  BY AllocAssumption, Constants
<1>2. MmapPages * PAGE_SIZE \in Nat
  BY <1>1
<1>3. ASSUME NEW c \in DOMAIN Classes
      PROVE  /\ c \in Nat /\ c # NoClass
             /\ Classes[c].size \in Nat \ {0} /\ Classes[c].pages \in Nat \ {0}
             /\ Classes[c].size <= Classes[c].pages * PAGE_SIZE
  <2> DEFINE T == [size : Nat, pages : Nat]
  <2>0. Classes \in Seq(T)
    BY AllocAssumption
  <2>1. c \in 1 .. Len(Classes) /\ Len(Classes) \in Nat /\ Classes[c] \in T
    <3> HIDE DEF T
    <3> QED  BY <2>0
  <2>2. Classes[c].size \in 1 .. Classes[c].pages * PAGE_SIZE
    BY AllocAssumption
  <2>3. Classes[c].size \in Nat /\ Classes[c].pages \in Nat
    BY <2>1
  <2>4. Classes[c].pages # 0
    <3>1. 0 * PAGE_SIZE = 0
      BY <1>1
    <3> QED  BY <2>2, <2>3, <3>1
  <2> QED  BY <1>1, <2>1, <2>2, <2>3, <2>4 DEF NoClass
<1> QED  BY <1>1, <1>2, <1>3 DEF Unit, Period, MIN_VALID_SERIAL_NUM

\* Multiplication keeps the order, and division finds the page of a unit.
LEMMA Times ==
  ASSUME NEW a \in Nat, NEW b \in Nat, NEW d \in Nat
  PROVE  /\ a * d \in Nat /\ (a <= b => a * d <= b * d) /\ (a + 1) * d = a * d + d
         /\ (a < b => a * d + d <= b * d)
<1>1. a * d \in Nat /\ b * d \in Nat /\ (a + 1) * d = a * d + d
  OBVIOUS
<1>2. ASSUME NEW x \in Nat, NEW y \in Nat, x <= y PROVE x * d <= y * d
  <2>1. PICK e \in Nat : y = x + e
    <3>1. y - x \in Nat /\ y = x + (y - x)
      BY <1>2
    <3> QED  BY <3>1
  <2>2. y * d = x * d + e * d /\ e * d \in Nat /\ x * d \in Nat
    BY <2>1
  <2> QED  BY <2>2
<1>3. ASSUME a < b PROVE a * d + d <= b * d
  <2>1. a + 1 \in Nat /\ a + 1 <= b
    BY <1>3
  <2> QED  BY <1>1, <1>2, <2>1
<1> QED  BY <1>1, <1>2, <1>3

LEMMA PageOf ==
  ASSUME NEW d \in Nat \ {0}, NEW u \in Nat, NEW a \in Nat, NEW b \in Nat, a * d <= u, u < b * d
  PROVE  u \div d \in Nat /\ a <= u \div d /\ u \div d < b
<1> DEFINE q == u \div d
<1>1. q \in Nat /\ d * q <= u /\ u < d * q + d
  OBVIOUS
<1> HIDE DEF q
<1>2. q * d <= u /\ u < q * d + d /\ q * d \in Nat /\ a * d \in Nat /\ b * d \in Nat
  BY <1>1
<1>3. a <= q
  <2> SUFFICES ASSUME q < a PROVE FALSE
    BY <1>1
  <2>1. q * d + d <= a * d
    BY <1>1, Times
  <2> QED  BY <1>2, <2>1
<1>4. q < b
  <2> SUFFICES ASSUME b <= q PROVE FALSE
    BY <1>1
  <2>1. b * d <= q * d
    BY <1>1, Times
  <2> QED  BY <1>2, <2>1
<1> QED  BY <1>1, <1>3, <1>4 DEF q

\* The spans somebody has, and their units.
LEMMA HeldIs ==
  ASSUME NEW h, Good(h), NEW s \in Held(h)
  PROVE  /\ s \in SpanId /\ s # Null /\ Start(h, s) \in Nat /\ End(h, s) \in Nat
         /\ Start(h, s) < End(h, s) /\ End(h, s) <= MmapPages /\ h.spans[s].count = End(h, s) - Start(h, s)
         /\ h.spans[s] \in Span /\ h.spans[s].in_use /\ Start(h, s) \in Page
         /\ h.map[Start(h, s)] = s
         /\ h.spans[s].cached => \A p \in Page : Start(h, s) <= p /\ p < End(h, s) => h.map[p] = s
<1>1. Shape(h) /\ Mapped(h) /\ s \in LiveIn(h) /\ h.spans[s].in_use
  BY DEF Good, Sound, Loose, Held
<1>2. /\ h \in Heaps /\ h.brk \in Nat /\ h.brk <= MmapPages /\ s \in SpanId /\ s # Null
      /\ Start(h, s) \in Nat /\ End(h, s) \in Nat /\ h.spans[s].count = End(h, s) - Start(h, s)
      /\ Start(h, s) < End(h, s) /\ End(h, s) <= h.brk /\ Start(h, s) \in Page
  BY <1>1, Bounds
<1>3. h.spans[s] \in Span
  BY <1>2, SpanTypes
<1> QED  BY <1>1, <1>2, <1>3, Constants DEF Mapped

LEMMA ZoneIs ==
  ASSUME NEW h, Good(h), NEW s \in Held(h)
  PROVE  /\ Start(h, s) * PAGE_SIZE \in Nat /\ End(h, s) * PAGE_SIZE \in Nat
         /\ Start(h, s) * PAGE_SIZE + h.spans[s].count * PAGE_SIZE = End(h, s) * PAGE_SIZE
         /\ h.spans[s].count * PAGE_SIZE \in Nat \ {0}
         /\ End(h, s) * PAGE_SIZE <= MmapPages * PAGE_SIZE
         /\ \A u \in Nat : u \in Zone(h, s) <=> Start(h, s) * PAGE_SIZE <= u /\ u < End(h, s) * PAGE_SIZE
         /\ Start(h, s) * PAGE_SIZE \in Zone(h, s)
<1> DEFINE a == Start(h, s)
           b == End(h, s)
           n == h.spans[s].count
<1>1. a \in Nat /\ b \in Nat /\ a < b /\ b <= MmapPages /\ n = b - a /\ PAGE_SIZE \in Nat \ {0} /\ MmapPages \in Nat
  BY HeldIs, AllocConstants
<1>2. Zone(h, s) = {u \in Unit : a * PAGE_SIZE <= u /\ u < b * PAGE_SIZE}
  BY DEF Zone
<1> HIDE DEF a, b, n
<1>3. a * PAGE_SIZE \in Nat /\ b * PAGE_SIZE \in Nat /\ b * PAGE_SIZE <= MmapPages * PAGE_SIZE
  BY <1>1, Times
<1>4. a * PAGE_SIZE + n * PAGE_SIZE = b * PAGE_SIZE
  <2>1. b = a + n /\ n \in Nat
    BY <1>1
  <2> QED  BY <1>1, <2>1
<1>5. n * PAGE_SIZE \in Nat \ {0} /\ a * PAGE_SIZE < b * PAGE_SIZE
  <2>1. a * PAGE_SIZE + PAGE_SIZE <= b * PAGE_SIZE
    BY <1>1, Times
  <2>2. n \in Nat /\ n * PAGE_SIZE \in Nat
    BY <1>1
  <2> QED  BY <1>1, <1>3, <1>4, <2>1, <2>2
<1>6. MmapPages * PAGE_SIZE \in Nat
  BY AllocConstants
<1>7. \A u \in Nat : u \in Zone(h, s) <=> a * PAGE_SIZE <= u /\ u < b * PAGE_SIZE
  <2> TAKE u \in Nat
  <2>1. u < b * PAGE_SIZE => u \in Unit
    BY <1>3, <1>6 DEF Unit
  <2> QED  BY <1>2, <2>1
<1>8. a * PAGE_SIZE \in Zone(h, s)
  BY <1>3, <1>5, <1>7
<1> QED  BY <1>3, <1>4, <1>5, <1>7, <1>8 DEF a, b, n

LEMMA ZonesApart ==
  ASSUME NEW h, Good(h), NEW s \in Held(h), NEW t \in Held(h), s # t
  PROVE  /\ Zone(h, s) \cap Zone(h, t) = {}
         /\ End(h, s) * PAGE_SIZE <= Start(h, t) * PAGE_SIZE \/ End(h, t) * PAGE_SIZE <= Start(h, s) * PAGE_SIZE
<1>1. End(h, s) <= Start(h, t) \/ End(h, t) <= Start(h, s)
  BY DEF Good, Sound, Loose, Apart, Held
<1>2. Start(h, s) \in Nat /\ End(h, s) \in Nat /\ Start(h, t) \in Nat /\ End(h, t) \in Nat /\ PAGE_SIZE \in Nat
  BY HeldIs, AllocConstants
<1>3. End(h, s) * PAGE_SIZE <= Start(h, t) * PAGE_SIZE \/ End(h, t) * PAGE_SIZE <= Start(h, s) * PAGE_SIZE
  BY <1>1, <1>2, Times
<1>4. /\ Start(h, s) * PAGE_SIZE \in Nat /\ End(h, s) * PAGE_SIZE \in Nat
      /\ Start(h, t) * PAGE_SIZE \in Nat /\ End(h, t) * PAGE_SIZE \in Nat
  BY <1>2, Times
<1>5. ASSUME NEW u \in Zone(h, s), u \in Zone(h, t) PROVE FALSE
  <2>1. u \in Nat /\ Start(h, s) * PAGE_SIZE <= u /\ u < End(h, s) * PAGE_SIZE
                  /\ Start(h, t) * PAGE_SIZE <= u /\ u < End(h, t) * PAGE_SIZE
    BY <1>5, AllocConstants DEF Zone
  <2> QED  BY <1>3, <1>4, <2>1
<1> QED  BY <1>3, <1>5

\* free() finds the span of an object in the map.
LEMMA HomeIs ==
  ASSUME NEW h, Good(h), NEW s \in Held(h), NEW u \in Zone(h, s),
         h.spans[s].cached \/ u = Start(h, s) * PAGE_SIZE
  PROVE  u \div PAGE_SIZE \in Page /\ h.map[u \div PAGE_SIZE] = s
<1>1. /\ Start(h, s) \in Nat /\ End(h, s) \in Nat /\ End(h, s) <= MmapPages /\ PAGE_SIZE \in Nat \ {0}
      /\ u \in Nat /\ Start(h, s) * PAGE_SIZE <= u /\ u < End(h, s) * PAGE_SIZE /\ MmapPages \in Nat
  BY HeldIs, AllocConstants DEF Zone
<1> DEFINE p == u \div PAGE_SIZE
<1>2. p \in Nat /\ Start(h, s) <= p /\ p < End(h, s)
  BY <1>1, PageOf
<1>3. p \in Page
  BY <1>1, <1>2 DEF Page
<1>4. CASE h.spans[s].cached
  BY <1>2, <1>3, <1>4, HeldIs
<1>5. CASE u = Start(h, s) * PAGE_SIZE
  <2>1. u < (Start(h, s) + 1) * PAGE_SIZE /\ Start(h, s) + 1 \in Nat
    BY <1>1, <1>5, Times
  <2>2. p < Start(h, s) + 1
    BY <1>1, <2>1, PageOf
  <2>3. p = Start(h, s)
    BY <1>1, <1>2, <2>2
  <2> QED  BY <1>3, <2>3, HeldIs
<1> QED  BY <1>3, <1>4, <1>5

\* The chunks of a span lie in it side by side, as large as their class says.
LEMMA GridIs ==
  ASSUME NEW h, Good(h), NEW s \in Held(h), NEW c \in DOMAIN Classes, h.spans[s].count = Classes[c].pages,
         NEW k, k = partition(h.spans[s], c)
  PROVE  /\ k \in Cuts /\ k.cls = c /\ k.used = 0 /\ k.chunks # <<>> /\ Once(k.chunks)
         /\ ToSet(k.chunks) = Grid(h, s, c) /\ Grid(h, s, c) \subseteq Zone(h, s) /\ Grid(h, s, c) # {}
         /\ \A u \in Grid(h, s, c) : u \in Nat /\ u + Classes[c].size <= End(h, s) * PAGE_SIZE
         /\ \A u, v \in Grid(h, s, c) : u < v => u + Classes[c].size <= v
<1> DEFINE b == Start(h, s) * PAGE_SIZE
           z == Classes[c].size
           w == h.spans[s].count * PAGE_SIZE
           n == w \div z
           f == [i \in 1 .. n |-> b + (i - 1) * z]
<1>1. k = [cls |-> c, used |-> 0, chunks |-> f]
  BY DEF partition, Start
<1>2. z \in Nat \ {0} /\ w \in Nat /\ z <= w /\ b \in Nat /\ b + w = End(h, s) * PAGE_SIZE
      /\ c \in Nat
  BY ZoneIs, AllocConstants
<1> DEFINE e == End(h, s) * PAGE_SIZE
<1>2a. Grid(h, s, c) = ToSet(k.chunks)
  BY DEF Grid
<1>2b. \A u \in Nat : u \in Zone(h, s) <=> b <= u /\ u < e
  BY ZoneIs
<1> HIDE DEF b, z, w, e
<1>3. n \in Nat /\ n * z <= w /\ n >= 1
  <2>1. n \in Nat /\ z * n <= w /\ w < z * n + z
    BY <1>2
  <2> HIDE DEF n
  <2>2. n # 0
    BY <1>2, <2>1
  <2> QED  BY <1>2, <2>1, <2>2
<1> HIDE DEF n
<1>4. \A i \in 1 .. n : i - 1 \in Nat /\ (i - 1) * z \in Nat /\ f[i] = b + (i - 1) * z /\ f[i] \in Nat
  BY <1>2, <1>3
<1>5. f \in Seq(Nat) /\ DOMAIN f = 1 .. n /\ Len(f) = n
  BY <1>3, <1>4
<1> HIDE DEF f
<1>6. \A i, j \in 1 .. n : i < j => f[i] + z <= f[j]
  <2> TAKE i, j \in 1 .. n
  <2> HAVE i < j
  <2>1. i - 1 \in Nat /\ j - 1 \in Nat /\ i - 1 < j - 1
    BY <1>3
  <2>2. (i - 1) * z + z <= (j - 1) * z
    BY <1>2, <2>1, Times
  <2> QED  BY <1>2, <1>4, <2>2
<1>7. \A i \in 1 .. n : f[i] + z <= e /\ b <= f[i]
  <2> TAKE i \in 1 .. n
  <2>1. i - 1 \in Nat /\ i - 1 < n
    BY <1>3
  <2>2. (i - 1) * z + z <= n * z /\ n * z \in Nat
    BY <1>2, <1>3, <2>1, Times
  <2> QED  BY <1>2, <1>3, <1>4, <2>2 DEF e
<1>8. Once(f)
  <2> SUFFICES ASSUME NEW i \in 1 .. n, NEW j \in 1 .. n, f[i] = f[j] PROVE i = j
    BY <1>5 DEF Once
  <2>1. f[i] \in Nat /\ f[j] \in Nat
    BY <1>4
  <2>2. ~(i < j)
    BY <1>2, <1>6, <2>1
  <2>3. ~(j < i)
    BY <1>2, <1>6, <2>1
  <2> QED  BY <1>3, <2>2, <2>3
<1>9. ToSet(f) = {f[i] : i \in 1 .. n}
  BY <1>5 DEF ToSet
<1>10. k \in Cuts /\ k.cls = c /\ k.used = 0 /\ k.chunks = f /\ f # <<>>
  BY <1>1, <1>2, <1>3, <1>5 DEF Cuts
<1>11. \A u \in ToSet(f) : u \in Nat /\ u + z <= e /\ u \in Zone(h, s)
  <2> SUFFICES ASSUME NEW i \in 1 .. n PROVE f[i] \in Nat /\ f[i] + z <= e /\ f[i] \in Zone(h, s)
    BY <1>9
  <2>1. f[i] \in Nat /\ b <= f[i] /\ f[i] + z <= e
    BY <1>4, <1>7
  <2>2. f[i] < e
    BY <1>2, <2>1 DEF e
  <2> QED  BY <1>2b, <2>1, <2>2
<1>12. \A u, v \in ToSet(f) : u < v => u + z <= v
  <2> SUFFICES ASSUME NEW i \in 1 .. n, NEW j \in 1 .. n, f[i] < f[j] PROVE f[i] + z <= f[j]
    BY <1>9
  <2>1. CASE i < j
    BY <1>6, <2>1
  <2>2. CASE j < i
    BY <1>2, <1>4, <1>6, <2>2
  <2>3. CASE i = j
    BY <1>4, <2>3
  <2> QED  BY <1>3, <2>1, <2>2, <2>3
<1>13. ToSet(f) # {}
  <2>1. 1 \in 1 .. n
    BY <1>3
  <2> QED  BY <1>9, <2>1
<1> QED  BY <1>2a, <1>8, <1>10, <1>11, <1>12, <1>13 DEF z, e
-----------------------------------------------------------------------------
(* The books, when one span changes *)

LEMMA FiniteUnits ==
  ASSUME NEW B, B \subseteq Unit
  PROVE  /\ IsFiniteSet(B) /\ Cardinality(B) \in Nat
         /\ \A S : IsFiniteSet(B \cap S) /\ Cardinality(B \cap S) \in Nat
<1>1. IsFiniteSet(Unit)
  <2>1. 0 \in Int /\ MmapPages * PAGE_SIZE - 1 \in Int
    BY AllocConstants
  <2> QED  BY <2>1, FS_Interval DEF Unit
<1>2. \A S : S \subseteq B => IsFiniteSet(S) /\ Cardinality(S) \in Nat
  BY <1>1, FS_Subset, FS_CardinalityType
<1> QED  BY <1>2

LEMMA OneMore ==
  ASSUME NEW S, IsFiniteSet(S), NEW x, x \notin S, NEW T, T = S \cup {x}
  PROVE  IsFiniteSet(T) /\ Cardinality(T) = Cardinality(S) + 1 /\ Cardinality(S) \in Nat
  BY FS_AddElement, FS_CardinalityType

LEMMA OneLess ==
  ASSUME NEW S, IsFiniteSet(S), NEW x \in S, NEW T, T = S \ {x}
  PROVE  IsFiniteSet(T) /\ Cardinality(T) = Cardinality(S) - 1 /\ Cardinality(S) \in Nat \ {0}
<1>1. IsFiniteSet(T) /\ Cardinality(T) = Cardinality(S) - 1 /\ Cardinality(S) \in Nat
  BY FS_RemoveElement, FS_CardinalityType
<1>2. Cardinality(S) # 0
  BY FS_EmptySet
<1> QED  BY <1>1, <1>2

LEMMA FiniteSpans ==
  ASSUME NEW S, S \subseteq SpanId
  PROVE  IsFiniteSet(S) /\ Cardinality(S) \in Nat
<1>1. IsFiniteSet(SpanId)
  BY Constants, FS_Interval DEF SpanId
<1> QED  BY <1>1, FS_Subset, FS_CardinalityType

\* A span whose structure is the same has the same units and chunks.
LEMMA AlikeIs ==
  ASSUME NEW h, NEW k, NEW s, k.spans[s] = h.spans[s]
  PROVE  /\ Start(k, s) = Start(h, s) /\ End(k, s) = End(h, s) /\ Zone(k, s) = Zone(h, s)
         /\ \A c : Grid(k, s, c) = Grid(h, s, c)
  BY DEF Start, End, Zone, Grid

LEMMA CutFrame ==
  ASSUME NEW h, NEW k, NEW s \in Held(k), k.spans[s] = h.spans[s], NEW x, NEW B, NEW B2,
         CutSound(h, s, x, B), B2 \cap Zone(h, s) = B \cap Zone(h, s)
  PROVE  CutSound(k, s, x, B2)
  BY AlikeIs DEF CutSound

\* Only spans that are cut have a class.
LEMMA Classed ==
  ASSUME NEW h, NEW C, NEW K, NEW B, Books(h, C, K, B), NEW s \in SpanId
  PROVE  /\ C[s].cls \in DOMAIN Classes \/ C[s].cls = NoClass
         /\ C[s].cls \in DOMAIN Classes => CutSound(h, s, C[s], B) /\ s \in Held(h)
         /\ C[s].cls = NoClass => C[s] = Whole
         /\ C[s] \in Cuts
<1>1. Whole.cls = NoClass
  BY DEF Whole
<1>2. NoClass \notin DOMAIN Classes
  BY AllocConstants
<1> QED  BY <1>1, <1>2 DEF Books, CutSound

\* A span without objects has chunks.
LEMMA EmptyHasChunks ==
  ASSUME NEW h, Good(h), NEW s, NEW x, NEW B, B \subseteq Unit, CutSound(h, s, x, B), x.used = 0
  PROVE  x.chunks # <<>>
<1>1. IsFiniteSet(B \cap Zone(h, s)) /\ Cardinality(B \cap Zone(h, s)) = 0
  BY FiniteUnits DEF CutSound
<1>2. B \cap Zone(h, s) = {}
  BY <1>1, FS_EmptySet
<1>3. ToSet(x.chunks) = Grid(h, s, x.cls) /\ s \in Held(h) /\ x.cls \in DOMAIN Classes
      /\ h.spans[s].count = Classes[x.cls].pages
  BY <1>2 DEF CutSound
<1>4. ToSet(x.chunks) # {}
  BY <1>3, GridIs
<1>5. ToSet(<<>>) = {}
  BY DEF ToSet
<1> QED  BY <1>4, <1>5

\* All spans but s are as they were.
Aside(h, C, B, k, C2, B2, s) ==
  /\ \A t \in SpanId \ {s} : C2[t] = C[t]
  /\ \A t \in Held(h) \ {s} : k.spans[t] = h.spans[t] /\ B2 \cap Zone(h, t) = B \cap Zone(h, t)

\* The classes that have no part in a change of span s keep their books.
LEMMA CacheFrame ==
  ASSUME NEW h, NEW C, NEW K, NEW B, Books(h, C, K, B), NEW k, NEW C2, NEW B2, NEW s,
         Aside(h, C, B, k, C2, B2, s), NEW d \in DOMAIN Classes, s \in SpanId => C[s].cls # d /\ C2[s].cls # d
  PROVE  CacheSound(k, C2, K[d], B2, d)
<1>1. CutInto(C2, d) = CutInto(C, d) /\ s \notin CutInto(C, d)
  BY DEF CutInto, Aside
<1>2. \A t \in CutInto(C, d) : /\ C2[t] = C[t] /\ t \in Held(h) \ {s}
                               /\ Zone(k, t) = Zone(h, t) /\ B2 \cap Zone(h, t) = B \cap Zone(h, t)
                               /\ Start(k, t) = Start(h, t) /\ End(k, t) = End(h, t)
  <2> TAKE t \in CutInto(C, d)
  <2>1. t \in SpanId \ {s} /\ C[t].cls = d
    BY <1>1 DEF CutInto
  <2>2. t \in Held(h) \ {s}
    BY <2>1, Classed
  <2> QED  BY <2>1, <2>2, AlikeIs DEF Aside
<1>3. InClass(k, C2, B2, d) = InClass(h, C, B, d)
  BY <1>1, <1>2 DEF InClass
<1>4. PagesOf(k, C2, d) = PagesOf(h, C, d)
  BY <1>1, <1>2 DEF PagesOf
<1>5. {t \in CutInto(C2, d) : C2[t].chunks # <<>>} = {t \in CutInto(C, d) : C[t].chunks # <<>>}
  BY <1>1, <1>2
<1>6. CacheSound(h, C, K[d], B, d)
  BY DEF Books
<1> QED  BY <1>1, <1>2, <1>3, <1>4, <1>5, <1>6 DEF CacheSound, InUseOf

\* Span s and class c have changed, and their new books are right.
Changed(h, C, K, B, k, C2, K2, B2, s, c) ==
  /\ Good(k) /\ C2 \in [SpanId -> Cuts] /\ K2 \in [DOMAIN Classes -> CacheRecords]
  /\ s \in SpanId /\ \A t \in SpanId \ {s} : C2[t] = C[t]
  /\ \A t \in Held(h) \ {s} : t \in Held(k) /\ k.spans[t] = h.spans[t] /\ B2 \cap Zone(h, t) = B \cap Zone(h, t)
  /\ C2[s] = Whole \/ CutSound(k, s, C2[s], B2)
  /\ BasesHeld(k, C2, B2)
  /\ C[s].cls \in {NoClass, c} /\ C2[s].cls \in {NoClass, c}
  /\ \A d \in DOMAIN Classes \ {c} : K2[d] = K[d]
  /\ c \in DOMAIN Classes => CacheSound(k, C2, K2[c], B2, c)

LEMMA BooksStep ==
  ASSUME NEW h, NEW C, NEW K, NEW B, Books(h, C, K, B), NEW k, NEW C2, NEW K2, NEW B2, NEW s, NEW c,
         Changed(h, C, K, B, k, C2, K2, B2, s, c)
  PROVE  Books(k, C2, K2, B2)
<1> USE DEF Changed
<1>1. ASSUME NEW t \in SpanId PROVE C2[t] = Whole \/ CutSound(k, t, C2[t], B2)
  <2>1. CASE t = s
    BY <2>1
  <2>2. CASE t # s
    <3>1. C2[t] = C[t] /\ (C[t] = Whole \/ CutSound(h, t, C[t], B))
      BY <2>2 DEF Books
    <3>2. CutSound(h, t, C[t], B) => t \in Held(h) \ {s}
      BY <2>2 DEF CutSound
    <3> QED  BY <3>1, <3>2, CutFrame
  <2> QED  BY <2>1, <2>2
<1>2. ASSUME NEW d \in DOMAIN Classes PROVE CacheSound(k, C2, K2[d], B2, d)
  <2>1. CASE d = c
    BY <2>1
  <2>2. CASE d # c
    <3>1. s \in SpanId => C[s].cls # d /\ C2[s].cls # d
      BY <2>2, AllocConstants
    <3>2. Aside(h, C, B, k, C2, B2, s)
      BY DEF Aside
    <3>3. CacheSound(k, C2, K[d], B2, d)
      BY <3>1, <3>2, CacheFrame
    <3> QED  BY <2>2, <3>3
  <2> QED  BY <2>1, <2>2
<1> QED  BY <1>1, <1>2 DEF Books

\* Objects keep their room when their span keeps its place and its class.
LEMMA RoomStep ==
  ASSUME NEW h, NEW C, NEW u, NEW n, Room(h, C, u, n), NEW k, NEW C2,
         \A t \in Held(h) : u \in Zone(h, t) =>
            /\ t \in Held(k) /\ Start(k, t) = Start(h, t) /\ End(k, t) = End(h, t)
            /\ k.spans[t].count = h.spans[t].count /\ C2[t].cls = C[t].cls
  PROVE  Room(k, C2, u, n)
<1>1. PICK t \in Held(h) :
        /\ u \in Zone(h, t)
        /\ n <= IF C[t].cls = NoClass THEN h.spans[t].count * PAGE_SIZE ELSE Classes[C[t].cls].size
  BY DEF Room
<1>2. Zone(k, t) = Zone(h, t)
  BY <1>1 DEF Zone
<1> QED  BY <1>1, <1>2 DEF Room
-----------------------------------------------------------------------------
(* The books, call by call of the page heap *)

\* A heap that has handed nothing out and taken nothing back.
LEMMA KeepBooks ==
  ASSUME NEW h, NEW C, NEW K, NEW B, Books(h, C, K, B),
         NEW k, Good(k), Held(k) = Held(h), \A t \in Held(h) : k.spans[t] = h.spans[t]
  PROVE  Books(k, C, K, B)
<1>1. ASSUME NEW t \in SpanId PROVE C[t] = Whole \/ CutSound(k, t, C[t], B)
  <2>1. C[t] = Whole \/ CutSound(h, t, C[t], B)
    BY DEF Books
  <2>2. CutSound(h, t, C[t], B) => t \in Held(h)
    BY DEF CutSound
  <2> QED  BY <2>1, <2>2, CutFrame
<1>2. ASSUME NEW d \in DOMAIN Classes PROVE CacheSound(k, C, K[d], B, d)
  <2>1. Aside(h, C, B, k, C, B, Null) /\ Null \notin SpanId
    BY Constants DEF Aside
  <2> QED  BY <2>1, CacheFrame
<1>3. BasesHeld(k, C, B)
  <2>1. \A t \in Held(h) : Zone(k, t) = Zone(h, t) /\ Start(k, t) = Start(h, t)
    BY AlikeIs
  <2> QED  BY <2>1 DEF Books, BasesHeld
<1> QED  BY <1>1, <1>2, <1>3 DEF Books

\* A heap that has handed out span s: nobody has anything there yet.
GotSpan(h, k, s) ==
  /\ Good(k) /\ Held(k) = Held(h) \cup {s} /\ s \notin Held(h)
  /\ \A t \in Held(h) : k.spans[t] = h.spans[t]

LEMMA GotSpanIs ==
  ASSUME NEW h, NEW C, NEW K, NEW B, Books(h, C, K, B), NEW k, NEW s, GotSpan(h, k, s)
  PROVE  /\ s \in SpanId /\ s \in Held(k) /\ C[s] = Whole /\ Whole.cls = NoClass
         /\ \A t \in Held(h) : /\ t \in Held(k) /\ t # s /\ Zone(k, t) = Zone(h, t) /\ Start(k, t) = Start(h, t)
                               /\ Zone(h, t) \cap Zone(k, s) = {}
         /\ B \cap Zone(k, s) = {}
         /\ BasesHeld(k, C, B)
<1>1. s \in Held(k) /\ s \in SpanId
  BY HeldIs DEF GotSpan
<1>2. C[s] = Whole
  BY <1>1, Classed DEF GotSpan
<1>3. \A t \in Held(h) : /\ t \in Held(k) /\ t # s /\ Zone(k, t) = Zone(h, t) /\ Start(k, t) = Start(h, t)
                         /\ Zone(h, t) \cap Zone(k, s) = {}
  <2> TAKE t \in Held(h)
  <2>1. t \in Held(k) /\ t # s /\ Zone(k, t) = Zone(h, t) /\ Start(k, t) = Start(h, t)
    BY AlikeIs DEF GotSpan
  <2>2. Zone(k, t) \cap Zone(k, s) = {}
    BY <1>1, <2>1, ZonesApart DEF GotSpan
  <2> QED  BY <2>1, <2>2
<1>4. \A u \in B : \E t \in Held(h) : u \in Zone(h, t) /\ (C[t].cls = NoClass => u = Start(h, t) * PAGE_SIZE)
  BY DEF Books, BasesHeld
<1>5. B \cap Zone(k, s) = {}
  BY <1>3, <1>4
<1>6. BasesHeld(k, C, B)
  BY <1>3, <1>4 DEF Books, BasesHeld
<1> QED  BY <1>1, <1>2, <1>3, <1>5, <1>6 DEF Whole

\* A span for one object.
LEMMA WholeBooks ==
  ASSUME NEW h, NEW C, NEW K, NEW B, Books(h, C, K, B), NEW k, NEW s, GotSpan(h, k, s),
         NEW u, u = Start(k, s) * PAGE_SIZE
  PROVE  Books(k, C, K, B \cup {u}) /\ u \notin B /\ u \in Zone(k, s) /\ C[s].cls = NoClass
<1> DEFINE B2 == B \cup {u}
<1>1. /\ s \in SpanId /\ s \in Held(k) /\ C[s] = Whole /\ Whole.cls = NoClass /\ B \cap Zone(k, s) = {}
      /\ \A t \in Held(h) : t \in Held(k) /\ t # s /\ Zone(h, t) \cap Zone(k, s) = {}
      /\ BasesHeld(k, C, B)
  BY GotSpanIs
<1>2. Good(k) /\ \A t \in Held(h) : k.spans[t] = h.spans[t]
  BY DEF GotSpan
<1>3. u \in Zone(k, s) /\ u \notin B
  BY <1>1, <1>2, ZoneIs
<1>4. \A t \in Held(h) \ {s} : t \in Held(k) /\ k.spans[t] = h.spans[t] /\ B2 \cap Zone(h, t) = B \cap Zone(h, t)
  BY <1>1, <1>2, <1>3
<1>5. BasesHeld(k, C, B2)
  BY <1>1, <1>3 DEF BasesHeld, Zone
<1> HIDE DEF B2
<1>6. Books(k, C, K, B2)
  <2>1. /\ C \in [SpanId -> Cuts] /\ K \in [DOMAIN Classes -> CacheRecords] /\ NoClass \notin DOMAIN Classes
    BY AllocConstants DEF Books
  <2>2. Changed(h, C, K, B, k, C, K, B2, s, NoClass)
    BY <1>1, <1>2, <1>4, <1>5, <2>1 DEF Changed
  <2> QED  BY <2>2, BooksStep
<1> QED  BY <1>1, <1>3, <1>6 DEF B2

\* The span of an object is given back.
LEMMA FreeWholeBooks ==
  ASSUME NEW h, NEW C, NEW K, NEW B, Books(h, C, K, B), NEW s \in Held(h), C[s] = Whole,
         NEW k, Good(k), Held(k) = Held(h) \ {s}, \A t \in Held(k) : k.spans[t] = h.spans[t]
  PROVE  Books(k, C, K, B \ {Start(h, s) * PAGE_SIZE})
<1> DEFINE u == Start(h, s) * PAGE_SIZE
           B2 == B \ {u}
<1>1. Good(h) /\ s \in SpanId /\ u \in Zone(h, s) /\ Whole.cls = NoClass
  BY HeldIs, ZoneIs DEF Books, Whole
<1>2. \A t \in Held(h) \ {s} : /\ t \in Held(k) /\ k.spans[t] = h.spans[t] /\ Zone(k, t) = Zone(h, t)
                               /\ Start(k, t) = Start(h, t) /\ Zone(h, s) \cap Zone(h, t) = {}
  BY <1>1, AlikeIs, ZonesApart
<1>3. \A t \in Held(h) \ {s} : B2 \cap Zone(h, t) = B \cap Zone(h, t)
  BY <1>1, <1>2
<1>4. \A v \in B2 : \E t \in Held(h) \ {s} : v \in Zone(h, t) /\ (C[t].cls = NoClass => v = Start(h, t) * PAGE_SIZE)
  BY <1>1 DEF Books, BasesHeld
<1>5. BasesHeld(k, C, B2)
  <2>1. B2 \subseteq Unit
    BY DEF Books, BasesHeld
  <2> QED  BY <1>2, <1>4, <2>1 DEF BasesHeld
<1> HIDE DEF B2, u
<1>6. /\ C \in [SpanId -> Cuts] /\ K \in [DOMAIN Classes -> CacheRecords] /\ NoClass \notin DOMAIN Classes
  BY AllocConstants DEF Books
<1>7. Changed(h, C, K, B, k, C, K, B2, s, NoClass)
  BY <1>1, <1>2, <1>3, <1>5, <1>6 DEF Changed
<1>8. Books(k, C, K, B2)
  BY <1>7, BooksStep
<1> QED  BY <1>8 DEF B2, u

\* The pages of a class, when span s, of other pages, comes to it.
LEMMA PagesAdd ==
  ASSUME NEW k, Good(k), NEW s \in Held(k), NEW P, P \subseteq Page, P \cap PagesIn(k, s) = {}
  PROVE  /\ Cardinality(P \cup PagesIn(k, s)) = Cardinality(P) + k.spans[s].count
         /\ Cardinality(P) \in Nat /\ k.spans[s].count \in Nat
<1>1. Shape(k) /\ s \in LiveIn(k)
  BY DEF Good, Sound, Loose, Held
<1>2. IsFiniteSet(PagesIn(k, s)) /\ Cardinality(PagesIn(k, s)) = k.spans[s].count
  BY <1>1, Counted
<1>3. IsFiniteSet(P)
  <2>1. IsFiniteSet(Page)
    BY Constants, FS_Interval DEF Page
  <2> QED  BY <2>1, FS_Subset
<1>4. Cardinality(P) \in Nat /\ Cardinality(PagesIn(k, s)) \in Nat
  BY <1>2, <1>3, FS_CardinalityType
<1>5. Cardinality(P \cup PagesIn(k, s)) = Cardinality(P) + Cardinality(PagesIn(k, s)) - Cardinality(P \cap PagesIn(k, s))
  BY <1>2, <1>3, FS_Union
<1>6. Cardinality(P \cap PagesIn(k, s)) = 0
  BY FS_EmptySet
<1> QED  BY <1>2, <1>4, <1>5, <1>6

LEMMA PagesInApart ==
  ASSUME NEW k, Good(k), NEW s \in Held(k), NEW t \in Held(k), s # t
  PROVE  PagesIn(k, t) \cap PagesIn(k, s) = {}
<1>1. End(k, s) <= Start(k, t) \/ End(k, t) <= Start(k, s)
  BY DEF Good, Sound, Loose, Apart, Held
<1>2. /\ Start(k, s) \in Nat /\ End(k, s) \in Nat /\ Start(k, t) \in Nat /\ End(k, t) \in Nat
      /\ Page \subseteq Nat
  BY HeldIs, Constants
<1>3. ASSUME NEW p \in Page, Start(k, t) <= p, p < End(k, t), Start(k, s) <= p, p < End(k, s) PROVE FALSE
  BY <1>1, <1>2, <1>3
<1> QED  BY <1>3 DEF PagesIn

\* A span is cut for class c, which had no chunks left.
Adds(h, k, C, K, s, c, R) ==
  /\ GotSpan(h, k, s) /\ k.spans[s].cached /\ k.spans[s].count = Classes[c].pages
  /\ c \in DOMAIN Classes /\ K[c].list = <<>>
  /\ R \in CacheRecords /\ Once(R.list) /\ R.count = K[c].count + 1
  /\ \A t : t \in ToSet(R.list) <=> t = s \/ t \in ToSet(K[c].list)
  /\ R.used = K[c].used /\ R.total = K[c].total + Classes[c].pages

LEMMA AddBooks ==
  ASSUME NEW h, NEW C, NEW K, NEW B, Books(h, C, K, B), NEW k, NEW s, NEW c, NEW R, Adds(h, k, C, K, s, c, R),
         NEW C2, C2 = With(C, s, partition(k.spans[s], c)), NEW K2, K2 = With(K, c, R)
  PROVE  Books(k, C2, K2, B)
<1> USE DEF Adds
<1> DEFINE x == partition(k.spans[s], c)
<1>1. /\ s \in SpanId /\ s \in Held(k) /\ C[s] = Whole /\ Whole.cls = NoClass
      /\ \A t \in Held(h) : t \in Held(k) /\ t # s /\ Zone(k, t) = Zone(h, t) /\ Zone(h, t) \cap Zone(k, s) = {}
      /\ B \cap Zone(k, s) = {} /\ BasesHeld(k, C, B)
  BY GotSpanIs
<1>2. Good(k) /\ Good(h) /\ \A t \in Held(h) : k.spans[t] = h.spans[t]
  BY DEF GotSpan, Books
<1>3. /\ C \in [SpanId -> Cuts] /\ K \in [DOMAIN Classes -> CacheRecords] /\ NoClass \notin DOMAIN Classes
      /\ B \subseteq Unit /\ CacheSound(h, C, K[c], B, c)
  BY AllocConstants DEF Books, BasesHeld
<1>4. /\ x \in Cuts /\ x.cls = c /\ x.used = 0 /\ x.chunks # <<>> /\ Once(x.chunks)
      /\ ToSet(x.chunks) = Grid(k, s, c)
  BY <1>1, <1>2, GridIs
<1> HIDE DEF x
<1>5. /\ C2 \in [SpanId -> Cuts] /\ C2[s] = x /\ \A t \in SpanId \ {s} : C2[t] = C[t]
  BY <1>1, <1>3, <1>4 DEF x, With
<1>6. K2 \in [DOMAIN Classes -> CacheRecords] /\ K2[c] = R /\ \A d \in DOMAIN Classes \ {c} : K2[d] = K[d]
  BY <1>3 DEF With
<1>7. CutSound(k, s, x, B)
  <2>1. Cardinality(B \cap Zone(k, s)) = 0
    BY <1>1, FS_EmptySet
  <2> QED  BY <1>1, <1>4, <2>1 DEF CutSound
<1>8. BasesHeld(k, C2, B)
  <2> SUFFICES ASSUME NEW u \in B
               PROVE  \E t \in Held(k) : u \in Zone(k, t) /\ (C2[t].cls = NoClass => u = Start(k, t) * PAGE_SIZE)
    BY <1>3 DEF BasesHeld
  <2>1. PICK t \in Held(k) : u \in Zone(k, t) /\ (C[t].cls = NoClass => u = Start(k, t) * PAGE_SIZE)
    BY <1>1 DEF BasesHeld
  <2>2. t # s /\ t \in SpanId
    BY <1>1, <1>2, <2>1, HeldIs
  <2> QED  BY <1>5, <2>1, <2>2
<1>9. CutInto(C2, c) = CutInto(C, c) \cup {s} /\ s \notin CutInto(C, c)
  BY <1>1, <1>3, <1>4, <1>5 DEF CutInto
<1>10. ASSUME NEW t \in CutInto(C, c)
       PROVE  /\ t \in SpanId \ {s} /\ C2[t] = C[t] /\ t \in Held(h) /\ C[t].chunks = <<>> /\ C[t].used # 0
              /\ Zone(k, t) = Zone(h, t) /\ Start(k, t) = Start(h, t) /\ End(k, t) = End(h, t)
              /\ PagesIn(k, t) \cap PagesIn(k, s) = {}
  <2>1. t \in SpanId \ {s} /\ C[t].cls = c
    BY <1>9 DEF CutInto
  <2>2. CutSound(h, t, C[t], B) /\ t \in Held(h)
    BY <2>1, Classed
  <2>3. C[t].chunks = <<>>
    <3>1. ToSet(K[c].list) = {}
      BY DEF ToSet
    <3> QED  BY <1>3, <3>1 DEF CacheSound
  <2>4. C[t].used # 0
    BY <1>2, <1>3, <2>2, <2>3, EmptyHasChunks
  <2>5. Zone(k, t) = Zone(h, t) /\ Start(k, t) = Start(h, t) /\ End(k, t) = End(h, t)
    BY <1>2, <2>2, AlikeIs
  <2>6. PagesIn(k, t) \cap PagesIn(k, s) = {}
    BY <1>1, <1>2, <2>1, <2>2, PagesInApart
  <2> QED  BY <1>5, <2>1, <2>2, <2>3, <2>4, <2>5, <2>6
<1>11. InClass(k, C2, B, c) = InClass(h, C, B, c)
  BY <1>1, <1>9, <1>10 DEF InClass
<1>12. PagesOf(k, C2, c) = PagesOf(h, C, c) \cup PagesIn(k, s) /\ PagesOf(h, C, c) \cap PagesIn(k, s) = {}
  BY <1>9, <1>10 DEF PagesOf, PagesIn
<1>13. PagesOf(h, C, c) \subseteq Page
  BY DEF PagesOf
<1>14. Cardinality(PagesOf(k, C2, c)) = Cardinality(PagesOf(h, C, c)) + Classes[c].pages
  <2> DEFINE P == PagesOf(h, C, c)
  <2> HIDE DEF P
  <2>1. Cardinality(P \cup PagesIn(k, s)) = Cardinality(P) + k.spans[s].count
    BY <1>1, <1>2, <1>12, <1>13, PagesAdd DEF P
  <2> QED  BY <1>12, <2>1 DEF P
<1>15. CacheSound(k, C2, R, B, c)
  <2>0. ToSet(<<>>) = {}
    BY DEF ToSet
  <2> DEFINE S == ToSet(K[c].list)
  <2>1. S = {} /\ \A t : t \in ToSet(R.list) <=> t = s
    BY <2>0
  <2>2. R.count = Cardinality(ToSet(R.list))
    <3>1. IsFiniteSet(S) /\ s \notin S /\ K[c].count = Cardinality(S)
      BY <1>3, <2>1, FS_EmptySet DEF CacheSound
    <3>2. ToSet(R.list) = S \cup {s}
      OBVIOUS
    <3> QED  BY <3>1, <3>2, OneMore
  <2>3. ToSet(R.list) = {t \in CutInto(C2, c) : C2[t].chunks # <<>>}
    <3>1. \A t \in CutInto(C, c) : C2[t].chunks = <<>>
      BY <1>10
    <3>2. C2[s].chunks # <<>>
      BY <1>4, <1>5
    <3> QED  BY <1>9, <2>1, <3>1, <3>2
  <2>4. \A t, v \in CutInto(C2, c) : C2[t].used = 0 /\ C2[v].used = 0 => t = v
    BY <1>9, <1>10
  <2>5. R.used = InUseOf(k, C2, B, c)
    BY <1>3, <1>11 DEF CacheSound, InUseOf
  <2>6. R.total = Cardinality(PagesOf(k, C2, c))
    BY <1>3, <1>14 DEF CacheSound
  <2> QED  BY <2>1, <2>2, <2>3, <2>4, <2>5, <2>6 DEF CacheSound
<1>16. \A t \in Held(h) \ {s} : t \in Held(k) /\ k.spans[t] = h.spans[t] /\ B \cap Zone(h, t) = B \cap Zone(h, t)
  BY <1>1, <1>2
<1>17. C2[s] = Whole \/ CutSound(k, s, C2[s], B)
  BY <1>5, <1>7
<1>18. C[s].cls \in {NoClass, c} /\ C2[s].cls \in {NoClass, c} /\ (c \in DOMAIN Classes => CacheSound(k, C2, K2[c], B, c))
  BY <1>1, <1>4, <1>5, <1>6, <1>15
<1>19. Changed(h, C, K, B, k, C2, K2, B, s, c)
  BY <1>1, <1>2, <1>5, <1>6, <1>8, <1>16, <1>17, <1>18 DEF Changed
<1> QED  BY <1>19, BooksStep
-----------------------------------------------------------------------------
(* The books, chunk by chunk *)

LEMMA TailIs ==
  ASSUME NEW S, NEW l \in Seq(S), l # <<>>, Once(l)
  PROVE  /\ Tail(l) \in Seq(S) /\ Once(Tail(l)) /\ Head(l) \in ToSet(l) /\ Head(l) \in S
         /\ ToSet(Tail(l)) = ToSet(l) \ {Head(l)}
<1> DEFINE m == Tail(l)
<1>1. /\ Len(l) \in Nat \ {0} /\ m \in Seq(S) /\ Len(m) = Len(l) - 1 /\ Head(l) = l[1] /\ Head(l) \in S
      /\ \A i \in 1 .. Len(l) - 1 : m[i] = l[i + 1]
  OBVIOUS
<1>2. DOMAIN l = 1 .. Len(l) /\ DOMAIN m = 1 .. Len(l) - 1
  BY <1>1
<1> HIDE DEF m
<1>3. \A i, j \in 1 .. Len(l) : l[i] = l[j] => i = j
  BY <1>2 DEF Once
<1>4. Once(m)
  <2> SUFFICES ASSUME NEW i \in 1 .. Len(l) - 1, NEW j \in 1 .. Len(l) - 1, m[i] = m[j] PROVE i = j
    BY <1>2 DEF Once
  <2>1. i + 1 \in 1 .. Len(l) /\ j + 1 \in 1 .. Len(l) /\ l[i + 1] = l[j + 1]
    BY <1>1
  <2>2. i + 1 = j + 1
    BY <1>3, <2>1
  <2> QED  BY <2>2
<1>5. Head(l) \in ToSet(l)
  BY <1>1, <1>2 DEF ToSet
<1>6. ASSUME NEW x \in ToSet(m) PROVE x \in ToSet(l) \ {Head(l)}
  <2>1. PICK i \in 1 .. Len(l) - 1 : x = m[i]
    BY <1>2 DEF ToSet
  <2>2. i + 1 \in 1 .. Len(l) /\ 1 \in 1 .. Len(l) /\ i + 1 # 1 /\ x = l[i + 1]
    BY <1>1, <2>1
  <2>3. x # l[1]
    BY <1>3, <2>2
  <2> QED  BY <1>1, <1>2, <2>2, <2>3 DEF ToSet
<1>7. ASSUME NEW x \in ToSet(l), x # Head(l) PROVE x \in ToSet(m)
  <2>1. PICK i \in 1 .. Len(l) : x = l[i]
    BY <1>2 DEF ToSet
  <2>2. i # 1
    BY <1>1, <1>7, <2>1
  <2>3. i - 1 \in 1 .. Len(l) - 1 /\ (i - 1) + 1 = i
    BY <1>1, <2>2
  <2>4. m[i - 1] = x
    BY <1>1, <2>1, <2>3
  <2> QED  BY <1>2, <2>3, <2>4 DEF ToSet
<1> QED  BY <1>1, <1>4, <1>5, <1>6, <1>7 DEF m

\* The cut of a span s of class c becomes x, and the cache of the class R.
Rebooked(h, C, K, B, B2, s, c, x, R) ==
  /\ s \in SpanId /\ c \in DOMAIN Classes /\ C[s].cls = c /\ x \in Cuts /\ x.cls = c
  /\ CutSound(h, s, x, B2) /\ BasesHeld(h, C, B2)
  /\ \A t \in Held(h) \ {s} : B2 \cap Zone(h, t) = B \cap Zone(h, t)
  /\ R \in CacheRecords /\ Once(R.list) /\ R.count = Cardinality(ToSet(R.list))
  /\ \A t : t \in ToSet(R.list) <=> IF t = s THEN x.chunks # <<>> ELSE t \in ToSet(K[c].list)
  /\ x.used = 0 => \A t \in CutInto(C, c) \ {s} : C[t].used # 0
  /\ R.used = InUseOf(h, C, B2, c) /\ R.total = K[c].total

LEMMA ChunkBooks ==
  ASSUME NEW h, NEW C, NEW K, NEW B, Books(h, C, K, B), NEW B2, NEW s, NEW c, NEW x, NEW R,
         Rebooked(h, C, K, B, B2, s, c, x, R),
         NEW C2, C2 = With(C, s, x), NEW K2, K2 = With(K, c, R)
  PROVE  Books(h, C2, K2, B2)
<1> USE DEF Rebooked
<1>1. /\ C \in [SpanId -> Cuts] /\ K \in [DOMAIN Classes -> CacheRecords] /\ Good(h)
      /\ CacheSound(h, C, K[c], B, c)
  BY DEF Books
<1>2. C2 \in [SpanId -> Cuts] /\ C2[s] = x /\ \A t \in SpanId \ {s} : C2[t] = C[t]
  BY <1>1 DEF With
<1>3. K2 \in [DOMAIN Classes -> CacheRecords] /\ K2[c] = R /\ \A d \in DOMAIN Classes \ {c} : K2[d] = K[d]
  BY <1>1 DEF With
<1>4. \A t \in SpanId : C2[t].cls = C[t].cls
  BY <1>2
<1>5. CutInto(C2, c) = CutInto(C, c) /\ s \in CutInto(C, c)
  BY <1>4 DEF CutInto
<1>6. InClass(h, C2, B2, c) = InClass(h, C, B2, c) /\ PagesOf(h, C2, c) = PagesOf(h, C, c)
  BY <1>5 DEF InClass, PagesOf
<1>7. BasesHeld(h, C2, B2)
  <2>1. \A t \in Held(h) : t \in SpanId
    BY <1>1, HeldIs
  <2> QED  BY <1>4, <2>1 DEF BasesHeld
<1>8. \A t \in CutInto(C, c) \ {s} : C2[t] = C[t] /\ t \in SpanId
  BY <1>2 DEF CutInto
<1>9. ToSet(R.list) = {t \in CutInto(C2, c) : C2[t].chunks # <<>>}
  <2>1. \A t : t \in ToSet(K[c].list) <=> t \in CutInto(C, c) /\ C[t].chunks # <<>>
    BY <1>1 DEF CacheSound
  <2> QED  BY <1>2, <1>5, <1>8, <2>1
<1>10. \A t, v \in CutInto(C2, c) : C2[t].used = 0 /\ C2[v].used = 0 => t = v
  <2>1. \A t, v \in CutInto(C, c) : C[t].used = 0 /\ C[v].used = 0 => t = v
    BY <1>1 DEF CacheSound
  <2> QED  BY <1>2, <1>5, <1>8, <2>1
<1>11. CacheSound(h, C2, R, B2, c)
  BY <1>1, <1>6, <1>9, <1>10 DEF CacheSound, InUseOf
<1>12. Changed(h, C, K, B, h, C2, K2, B2, s, c)
  BY <1>1, <1>2, <1>3, <1>7, <1>11 DEF Changed
<1> QED  BY <1>12, BooksStep

\* An object begins at u, in span s of class c, and is the only one there.
Begins(h, C, B, B2, s, c, u) ==
  /\ c \in DOMAIN Classes /\ s \in CutInto(C, c) /\ u \in Zone(h, s)
  /\ B \subseteq Unit /\ u \notin B /\ \A v : v \in B2 <=> v \in B \/ v = u

\* What the class has in use then, and the span.
LEMMA Begun ==
  ASSUME NEW h, NEW C, NEW B, NEW B2, NEW s, NEW c, NEW u, Begins(h, C, B, B2, s, c, u)
  PROVE  /\ InUseOf(h, C, B2, c) = InUseOf(h, C, B, c) + Classes[c].size
         /\ InUseOf(h, C, B, c) \in Nat /\ Classes[c].size \in Nat
         /\ Cardinality(B2 \cap Zone(h, s)) = Cardinality(B \cap Zone(h, s)) + 1
         /\ Cardinality(B \cap Zone(h, s)) \in Nat
<1> USE DEF Begins
<1>1. InClass(h, C, B2, c) = InClass(h, C, B, c) \cup {u} /\ u \notin InClass(h, C, B, c)
  BY DEF InClass
<1>2. InClass(h, C, B, c) \subseteq Unit
  BY DEF InClass
<1>3. Cardinality(InClass(h, C, B2, c)) = Cardinality(InClass(h, C, B, c)) + 1 /\ Cardinality(InClass(h, C, B, c)) \in Nat
  BY <1>1, <1>2, FiniteUnits, OneMore
<1>4. B2 \cap Zone(h, s) = (B \cap Zone(h, s)) \cup {u} /\ u \notin B \cap Zone(h, s)
  OBVIOUS
<1>5. Cardinality(B2 \cap Zone(h, s)) = Cardinality(B \cap Zone(h, s)) + 1 /\ Cardinality(B \cap Zone(h, s)) \in Nat
  BY <1>4, FiniteUnits, OneMore
<1>6. Classes[c].size \in Nat
  BY AllocConstants
<1> DEFINE n == Cardinality(InClass(h, C, B, c))
           z == Classes[c].size
<1> HIDE DEF n, z
<1>7. n \in Nat /\ z \in Nat /\ InUseOf(h, C, B2, c) = z * (n + 1) /\ InUseOf(h, C, B, c) = z * n
  BY <1>3, <1>6 DEF n, z, InUseOf
<1>8. z * (n + 1) = z * n + z /\ z * n \in Nat
  BY <1>7
<1> QED  BY <1>5, <1>7, <1>8 DEF z

\* What the books say of a span with a class.
LEMMA CutIs ==
  ASSUME NEW h, NEW C, NEW K, NEW B, Books(h, C, K, B), NEW s \in SpanId, NEW c, C[s].cls = c, c # NoClass
  PROVE  /\ c \in DOMAIN Classes /\ s \in CutInto(C, c) /\ s \in Held(h) /\ CutSound(h, s, C[s], B)
         /\ C[s] \in Cuts /\ Good(h) /\ CacheSound(h, C, K[c], B, c) /\ B \subseteq Unit
         /\ Grid(h, s, c) \subseteq Zone(h, s) /\ Once(C[s].chunks) /\ C[s].chunks \in Seq(Nat)
         /\ h.spans[s].count = Classes[c].pages
<1>1. c \in DOMAIN Classes /\ CutSound(h, s, C[s], B) /\ s \in Held(h) /\ C[s] \in Cuts
  BY Classed
<1>2. Good(h) /\ CacheSound(h, C, K[c], B, c) /\ B \subseteq Unit
  BY <1>1 DEF Books, BasesHeld
<1>3. s \in CutInto(C, c)
  BY DEF CutInto
<1>4. h.spans[s].count = Classes[c].pages /\ Once(C[s].chunks) /\ C[s].chunks \in Seq(Nat)
  BY <1>1 DEF CutSound, Cuts
<1>5. Grid(h, s, c) \subseteq Zone(h, s)
  BY <1>1, <1>2, <1>4, GridIs
<1> QED  BY <1>1, <1>2, <1>3, <1>4, <1>5

\* A chunk u of span s is handed out: how its cut x and the cache R come about.
Takes(C, K, B, B2, s, c, u, x, R) ==
  /\ s \in SpanId /\ C[s].cls = c /\ c # NoClass /\ C[s].chunks # <<>> /\ Head(C[s].chunks) = u
  /\ x \in Cuts /\ x.cls = c /\ x.used = C[s].used + 1 /\ x.chunks = Tail(C[s].chunks)
  /\ R \in CacheRecords /\ Once(R.list) /\ R.count = Cardinality(ToSet(R.list))
  /\ \A t : t \in ToSet(R.list) <=> IF t = s THEN x.chunks # <<>> ELSE t \in ToSet(K[c].list)
  /\ R.used = K[c].used + Classes[c].size /\ R.total = K[c].total
  /\ \A v : v \in B2 <=> v \in B \/ v = u

LEMMA TakeBooks ==
  ASSUME NEW h, NEW C, NEW K, NEW B, Books(h, C, K, B), NEW B2, NEW s, NEW c, NEW u, NEW x, NEW R,
         Takes(C, K, B, B2, s, c, u, x, R),
         NEW C2, C2 = With(C, s, x), NEW K2, K2 = With(K, c, R)
  PROVE  Books(h, C2, K2, B2) /\ u \notin B /\ u \in Zone(h, s) /\ u \in Grid(h, s, c) /\ C2[s].cls = c
<1> USE DEF Takes
<1>1. /\ c \in DOMAIN Classes /\ s \in CutInto(C, c) /\ s \in Held(h) /\ CutSound(h, s, C[s], B)
      /\ C[s] \in Cuts /\ Good(h) /\ CacheSound(h, C, K[c], B, c) /\ B \subseteq Unit
      /\ Grid(h, s, c) \subseteq Zone(h, s) /\ Once(C[s].chunks) /\ C[s].chunks \in Seq(Nat)
  BY CutIs
<1>3. /\ Once(x.chunks) /\ u \in ToSet(C[s].chunks) /\ ToSet(x.chunks) = ToSet(C[s].chunks) \ {u}
  BY <1>1, TailIs
<1>4. /\ ToSet(C[s].chunks) \cap (B \cap Zone(h, s)) = {}
      /\ (B \cap Zone(h, s)) \cup ToSet(C[s].chunks) = Grid(h, s, c)
      /\ C[s].used = Cardinality(B \cap Zone(h, s))
  BY <1>1 DEF CutSound
<1>5. u \in Grid(h, s, c) /\ u \in Zone(h, s) /\ u \notin B /\ u \in Unit
  BY <1>1, <1>3, <1>4 DEF Zone
<1>6. Begins(h, C, B, B2, s, c, u)
  BY <1>1, <1>5 DEF Begins
<1>7. /\ InUseOf(h, C, B2, c) = InUseOf(h, C, B, c) + Classes[c].size
      /\ Cardinality(B2 \cap Zone(h, s)) = Cardinality(B \cap Zone(h, s)) + 1
      /\ Cardinality(B \cap Zone(h, s)) \in Nat
  BY <1>6, Begun
<1>8. CutSound(h, s, x, B2)
  <2>1. B2 \cap Zone(h, s) = (B \cap Zone(h, s)) \cup {u}
    BY <1>5
  <2>2. /\ ToSet(x.chunks) \cap (B2 \cap Zone(h, s)) = {}
        /\ (B2 \cap Zone(h, s)) \cup ToSet(x.chunks) = Grid(h, s, c)
    BY <1>3, <1>4, <1>5, <2>1
  <2>3. x.used = Cardinality(B2 \cap Zone(h, s))
    BY <1>4, <1>7
  <2> QED  BY <1>1, <1>3, <2>2, <2>3 DEF CutSound
<1>9. BasesHeld(h, C, B2)
  <2>1. \A v \in B : \E t \in Held(h) : v \in Zone(h, t) /\ (C[t].cls = NoClass => v = Start(h, t) * PAGE_SIZE)
    BY DEF Books, BasesHeld
  <2>2. \A v \in B2 : v \in B \/ v = u
    OBVIOUS
  <2>3. B2 \subseteq Unit
    BY <1>1, <1>5
  <2> QED  BY <1>1, <1>5, <2>1, <2>2, <2>3 DEF BasesHeld
<1>10. \A t \in Held(h) \ {s} : B2 \cap Zone(h, t) = B \cap Zone(h, t)
  <2> TAKE t \in Held(h) \ {s}
  <2>1. u \notin Zone(h, t)
    BY <1>1, <1>5, ZonesApart
  <2> QED  BY <2>1
<1>11. x.used # 0
  BY <1>4, <1>7
<1>12. R.used = InUseOf(h, C, B2, c)
  <2>1. K[c].used = InUseOf(h, C, B, c)
    BY <1>1 DEF CacheSound
  <2> QED  BY <1>7, <2>1
<1>13. Rebooked(h, C, K, B, B2, s, c, x, R)
  BY <1>1, <1>8, <1>9, <1>10, <1>11, <1>12 DEF Rebooked
<1>14. Books(h, C2, K2, B2)
  BY <1>13, ChunkBooks
<1>15. C2[s].cls = c
  <2>1. C \in [SpanId -> Cuts]
    BY DEF Books
  <2> QED  BY <2>1 DEF With
<1> QED  BY <1>5, <1>14, <1>15

\* A chunk u of span s comes back, and the span stays.
Puts(h, C, K, B, B2, s, c, u, x, R) ==
  /\ s \in SpanId /\ C[s].cls = c /\ c # NoClass /\ u \in B /\ u \in Zone(h, s)
  /\ x \in Cuts /\ x.cls = c /\ x.used = C[s].used - 1 /\ x.chunks = <<u>> \o C[s].chunks
  /\ x.used = 0 => \A t \in CutInto(C, c) \ {s} : C[t].used # 0
  /\ R \in CacheRecords /\ Once(R.list) /\ R.count = Cardinality(ToSet(R.list))
  /\ \A t : t \in ToSet(R.list) <=> t = s \/ t \in ToSet(K[c].list)
  /\ R.used = K[c].used - Classes[c].size /\ R.total = K[c].total
  /\ \A v : v \in B2 <=> v \in B /\ v # u

LEMMA PutBooks ==
  ASSUME NEW h, NEW C, NEW K, NEW B, Books(h, C, K, B), NEW B2, NEW s, NEW c, NEW u, NEW x, NEW R,
         Puts(h, C, K, B, B2, s, c, u, x, R),
         NEW C2, C2 = With(C, s, x), NEW K2, K2 = With(K, c, R)
  PROVE  Books(h, C2, K2, B2) /\ C2[s].cls = c
<1> USE DEF Puts
<1>1. /\ c \in DOMAIN Classes /\ s \in CutInto(C, c) /\ s \in Held(h) /\ CutSound(h, s, C[s], B)
      /\ C[s] \in Cuts /\ Good(h) /\ CacheSound(h, C, K[c], B, c) /\ B \subseteq Unit
      /\ Grid(h, s, c) \subseteq Zone(h, s) /\ Once(C[s].chunks) /\ C[s].chunks \in Seq(Nat)
  BY CutIs
<1>2. u \in Nat
  BY <1>1, AllocConstants
<1>3. /\ ToSet(C[s].chunks) \cap (B \cap Zone(h, s)) = {}
      /\ (B \cap Zone(h, s)) \cup ToSet(C[s].chunks) = Grid(h, s, c)
      /\ C[s].used = Cardinality(B \cap Zone(h, s))
  BY <1>1 DEF CutSound
<1>4. u \notin ToSet(C[s].chunks)
  BY <1>3
<1>5. LET l == <<u>> \o C[s].chunks IN l \in Seq(Nat) /\ Once(l) /\ ToSet(l) = ToSet(C[s].chunks) \cup {u}
  BY <1>1, <1>2, <1>4, Linked
<1>7. Begins(h, C, B2, B, s, c, u)
  BY <1>1 DEF Begins
<1>8. /\ InUseOf(h, C, B2, c) = InUseOf(h, C, B, c) - Classes[c].size
      /\ Cardinality(B2 \cap Zone(h, s)) = Cardinality(B \cap Zone(h, s)) - 1
  <2>1. /\ InUseOf(h, C, B, c) = InUseOf(h, C, B2, c) + Classes[c].size
        /\ InUseOf(h, C, B2, c) \in Nat /\ Classes[c].size \in Nat
        /\ Cardinality(B \cap Zone(h, s)) = Cardinality(B2 \cap Zone(h, s)) + 1
        /\ Cardinality(B2 \cap Zone(h, s)) \in Nat
    BY <1>7, Begun
  <2> QED  BY <2>1
<1>9. CutSound(h, s, x, B2)
  <2>1. B2 \cap Zone(h, s) = (B \cap Zone(h, s)) \ {u} /\ u \in B \cap Zone(h, s)
    OBVIOUS
  <2>2. /\ ToSet(x.chunks) \cap (B2 \cap Zone(h, s)) = {}
        /\ (B2 \cap Zone(h, s)) \cup ToSet(x.chunks) = Grid(h, s, c)
    BY <1>3, <1>5, <2>1
  <2>3. x.used = Cardinality(B2 \cap Zone(h, s))
    BY <1>3, <1>8
  <2> QED  BY <1>1, <1>5, <2>2, <2>3 DEF CutSound
<1>10. BasesHeld(h, C, B2)
  BY DEF Books, BasesHeld
<1>11. \A t \in Held(h) \ {s} : B2 \cap Zone(h, t) = B \cap Zone(h, t)
  <2> TAKE t \in Held(h) \ {s}
  <2>1. u \notin Zone(h, t)
    BY <1>1, ZonesApart
  <2> QED  BY <2>1
<1>12. R.used = InUseOf(h, C, B2, c)
  <2>1. K[c].used = InUseOf(h, C, B, c)
    BY <1>1 DEF CacheSound
  <2> QED  BY <1>8, <2>1
<1>13. x.chunks # <<>>
  BY <1>1, <1>2
<1>14. Rebooked(h, C, K, B, B2, s, c, x, R)
  BY <1>1, <1>9, <1>10, <1>11, <1>12, <1>13 DEF Rebooked
<1>15. Books(h, C2, K2, B2)
  BY <1>14, ChunkBooks
<1>16. C2[s].cls = c
  <2>1. C \in [SpanId -> Cuts]
    BY DEF Books
  <2> QED  BY <2>1 DEF With
<1> QED  BY <1>15, <1>16

\* The last chunk u of span s comes back, and the span is given back.
Returns(h, k, C, K, B, B2, s, c, u, R) ==
  /\ s \in SpanId /\ C[s].cls = c /\ c # NoClass /\ u \in B /\ u \in Zone(h, s) /\ C[s].used = 1
  /\ Good(k) /\ Held(k) = Held(h) \ {s} /\ \A t \in Held(k) : k.spans[t] = h.spans[t]
  /\ R \in CacheRecords /\ Once(R.list) /\ R.count = Cardinality(ToSet(R.list))
  /\ \A t : t \in ToSet(R.list) <=> t # s /\ t \in ToSet(K[c].list)
  /\ R.used = K[c].used - Classes[c].size /\ R.total = K[c].total - h.spans[s].count
  /\ \A v : v \in B2 <=> v \in B /\ v # u

LEMMA ReturnBooks ==
  ASSUME NEW h, NEW C, NEW K, NEW B, Books(h, C, K, B), NEW B2, NEW s, NEW c, NEW u, NEW R, NEW k,
         Returns(h, k, C, K, B, B2, s, c, u, R),
         NEW C2, C2 = With(C, s, Whole), NEW K2, K2 = With(K, c, R)
  PROVE  Books(k, C2, K2, B2)
<1> USE DEF Returns
<1>1. /\ c \in DOMAIN Classes /\ s \in CutInto(C, c) /\ s \in Held(h) /\ CutSound(h, s, C[s], B)
      /\ C[s] \in Cuts /\ Good(h) /\ CacheSound(h, C, K[c], B, c) /\ B \subseteq Unit
  BY CutIs
<1>2. Begins(h, C, B2, B, s, c, u)
  BY <1>1 DEF Begins
<1>3. /\ InUseOf(h, C, B2, c) = InUseOf(h, C, B, c) - Classes[c].size
      /\ Cardinality(B2 \cap Zone(h, s)) = Cardinality(B \cap Zone(h, s)) - 1
  <2>1. /\ InUseOf(h, C, B, c) = InUseOf(h, C, B2, c) + Classes[c].size
        /\ InUseOf(h, C, B2, c) \in Nat /\ Classes[c].size \in Nat
        /\ Cardinality(B \cap Zone(h, s)) = Cardinality(B2 \cap Zone(h, s)) + 1
        /\ Cardinality(B2 \cap Zone(h, s)) \in Nat
    BY <1>2, Begun
  <2> QED  BY <2>1
<1>4. B2 \cap Zone(h, s) = {} /\ B2 \subseteq Unit
  <2>1. Cardinality(B2 \cap Zone(h, s)) = 0
    BY <1>1, <1>3 DEF CutSound
  <2>2. B2 \subseteq Unit
    BY <1>1
  <2> QED  BY <2>1, <2>2, FiniteUnits, FS_EmptySet
<1>5. /\ C \in [SpanId -> Cuts] /\ K \in [DOMAIN Classes -> CacheRecords] /\ Whole \in Cuts /\ Whole.cls = NoClass
  BY DEF Books, Whole, Cuts, NoClass
<1>6. C2 \in [SpanId -> Cuts] /\ C2[s] = Whole /\ \A t \in SpanId \ {s} : C2[t] = C[t]
  BY <1>5 DEF With
<1>7. K2 \in [DOMAIN Classes -> CacheRecords] /\ K2[c] = R /\ \A d \in DOMAIN Classes \ {c} : K2[d] = K[d]
  BY <1>1, <1>5 DEF With
<1>8. ASSUME NEW t \in Held(h) \ {s}
      PROVE  /\ t \in Held(k) /\ k.spans[t] = h.spans[t] /\ B2 \cap Zone(h, t) = B \cap Zone(h, t)
             /\ Zone(k, t) = Zone(h, t) /\ Start(k, t) = Start(h, t) /\ End(k, t) = End(h, t)
             /\ PagesIn(h, t) \cap PagesIn(h, s) = {}
  <2>1. t \in Held(k) /\ k.spans[t] = h.spans[t]
    OBVIOUS
  <2>2. u \notin Zone(h, t)
    BY <1>1, ZonesApart
  <2>3. PagesIn(h, t) \cap PagesIn(h, s) = {}
    BY <1>1, PagesInApart
  <2> QED  BY <2>1, <2>2, <2>3, AlikeIs
<1>9. BasesHeld(k, C2, B2)
  <2> SUFFICES ASSUME NEW v \in B2
               PROVE  \E t \in Held(k) : v \in Zone(k, t) /\ (C2[t].cls = NoClass => v = Start(k, t) * PAGE_SIZE)
    BY <1>4 DEF BasesHeld
  <2>1. PICK t \in Held(h) : v \in Zone(h, t) /\ (C[t].cls = NoClass => v = Start(h, t) * PAGE_SIZE)
    BY DEF Books, BasesHeld
  <2>2. t # s /\ t \in SpanId
    BY <1>1, <1>4, <2>1, HeldIs
  <2> QED  BY <1>6, <1>8, <2>1, <2>2
<1>10. CutInto(C2, c) = CutInto(C, c) \ {s}
  BY <1>1, <1>5, <1>6, AllocConstants DEF CutInto
<1>11. \A t \in CutInto(C, c) \ {s} : t \in SpanId /\ t \in Held(h) \ {s} /\ C2[t] = C[t]
  <2> TAKE t \in CutInto(C, c) \ {s}
  <2>1. t \in SpanId \ {s} /\ C[t].cls = c
    BY DEF CutInto
  <2> QED  BY <1>1, <1>6, <2>1, Classed
<1>12. InClass(k, C2, B2, c) = InClass(h, C, B2, c)
  BY <1>4, <1>8, <1>10, <1>11 DEF InClass
<1>13. PagesOf(h, C, c) = PagesOf(k, C2, c) \cup PagesIn(h, s) /\ PagesOf(k, C2, c) \cap PagesIn(h, s) = {}
  BY <1>1, <1>8, <1>10, <1>11 DEF PagesOf, PagesIn
<1>14. PagesOf(k, C2, c) \subseteq Page
  BY DEF PagesOf
<1>15. /\ Cardinality(PagesOf(h, C, c)) = Cardinality(PagesOf(k, C2, c)) + h.spans[s].count
       /\ Cardinality(PagesOf(k, C2, c)) \in Nat /\ h.spans[s].count \in Nat
  <2> DEFINE P == PagesOf(k, C2, c)
  <2> HIDE DEF P
  <2>1. /\ Cardinality(P \cup PagesIn(h, s)) = Cardinality(P) + h.spans[s].count
        /\ Cardinality(P) \in Nat /\ h.spans[s].count \in Nat
    BY <1>1, <1>13, <1>14, PagesAdd DEF P
  <2> QED  BY <1>13, <2>1 DEF P
<1>16. CacheSound(k, C2, R, B2, c)
  <2>1. ToSet(R.list) = {t \in CutInto(C2, c) : C2[t].chunks # <<>>}
    <3>1. \A t : t \in ToSet(K[c].list) <=> t \in CutInto(C, c) /\ C[t].chunks # <<>>
      BY <1>1 DEF CacheSound
    <3>2. \A t : t \in ToSet(R.list) <=> t \in CutInto(C2, c) /\ C2[t].chunks # <<>>
      <4>1. \A t : t \in CutInto(C2, c) <=> t \in CutInto(C, c) /\ t # s
        BY <1>10
      <4> QED  BY <1>11, <3>1, <4>1
    <3> QED  BY <3>2
  <2>2. \A t, v \in CutInto(C2, c) : C2[t].used = 0 /\ C2[v].used = 0 => t = v
    <3>1. \A t, v \in CutInto(C, c) : C[t].used = 0 /\ C[v].used = 0 => t = v
      BY <1>1 DEF CacheSound
    <3> QED  BY <1>10, <1>11, <3>1
  <2>3. R.used = InUseOf(k, C2, B2, c)
    <3>1. K[c].used = InUseOf(h, C, B, c)
      BY <1>1 DEF CacheSound
    <3>2. InUseOf(k, C2, B2, c) = InUseOf(h, C, B2, c)
      BY <1>12 DEF InUseOf
    <3> QED  BY <1>3, <3>1, <3>2
  <2>4. R.total = Cardinality(PagesOf(k, C2, c))
    <3>1. K[c].total = Cardinality(PagesOf(h, C, c))
      BY <1>1 DEF CacheSound
    <3> QED  BY <1>15, <3>1
  <2> QED  BY <2>1, <2>2, <2>3, <2>4 DEF CacheSound
<1>17. Changed(h, C, K, B, k, C2, K2, B2, s, c)
  <2>1. C[s].cls \in {NoClass, c} /\ C2[s].cls \in {NoClass, c}
    BY <1>5, <1>6
  <2>2. c \in DOMAIN Classes => CacheSound(k, C2, K2[c], B2, c)
    BY <1>7, <1>16
  <2> QED  BY <1>6, <1>7, <1>8, <1>9, <2>1, <2>2 DEF Changed
<1> QED  BY <1>17, BooksStep

\* What a class counts is at least what one of its spans has.
LEMMA CountsEnough ==
  ASSUME NEW h, NEW C, NEW K, NEW B, Books(h, C, K, B), NEW s \in SpanId, NEW c, C[s].cls = c, c # NoClass,
         NEW u \in B, u \in Zone(h, s)
  PROVE  /\ K[c].used >= Classes[c].size /\ C[s].used \in Nat \ {0}
         /\ K[c].total >= h.spans[s].count
<1>1. /\ c \in DOMAIN Classes /\ s \in CutInto(C, c) /\ s \in Held(h) /\ CutSound(h, s, C[s], B)
      /\ Good(h) /\ CacheSound(h, C, K[c], B, c) /\ B \subseteq Unit
  BY CutIs
<1>2. PICK D : \A v : v \in D <=> v \in B /\ v # u
  <2>1. \A v : v \in B \ {u} <=> v \in B /\ v # u
    OBVIOUS
  <2> QED  BY <2>1
<1>3. Begins(h, C, D, B, s, c, u)
  BY <1>1, <1>2 DEF Begins
<1>4. K[c].used >= Classes[c].size /\ C[s].used \in Nat \ {0}
  <2>1. /\ InUseOf(h, C, B, c) = InUseOf(h, C, D, c) + Classes[c].size
        /\ InUseOf(h, C, D, c) \in Nat /\ Classes[c].size \in Nat
        /\ Cardinality(B \cap Zone(h, s)) = Cardinality(D \cap Zone(h, s)) + 1
        /\ Cardinality(D \cap Zone(h, s)) \in Nat
    BY <1>3, Begun
  <2>2. K[c].used = InUseOf(h, C, B, c) /\ C[s].used = Cardinality(B \cap Zone(h, s))
    BY <1>1 DEF CacheSound, CutSound
  <2> QED  BY <2>1, <2>2
<1>5. K[c].total >= h.spans[s].count
  <2> DEFINE P == PagesOf(h, C, c) \ PagesIn(h, s)
  <2>1. P \subseteq Page /\ P \cap PagesIn(h, s) = {}
    BY DEF PagesOf
  <2>2. P \cup PagesIn(h, s) = PagesOf(h, C, c)
    BY <1>1 DEF PagesOf, PagesIn
  <2> HIDE DEF P
  <2>3. /\ Cardinality(P \cup PagesIn(h, s)) = Cardinality(P) + h.spans[s].count
        /\ Cardinality(P) \in Nat /\ h.spans[s].count \in Nat
    BY <1>1, <2>1, PagesAdd
  <2>4. K[c].total = Cardinality(PagesOf(h, C, c))
    BY <1>1 DEF CacheSound
  <2>5. K[c].total = Cardinality(P) + h.spans[s].count
    BY <2>2, <2>3, <2>4
  <2> QED  BY <2>3, <2>5
<1> QED  BY <1>4, <1>5
-----------------------------------------------------------------------------
(* The cache of a class *)

\* A list without repetitions, and its length.
Counting(r) == r \in CacheRecords /\ Once(r.list) /\ r.count = Cardinality(ToSet(r.list))

LEMMA CountingIs ==
  ASSUME NEW r, Counting(r)
  PROVE  /\ r.list \in Seq(SpanId) /\ ToSet(r.list) \subseteq SpanId /\ IsFiniteSet(ToSet(r.list))
         /\ r.count \in Nat /\ r.used \in Int /\ r.total \in Int
<1>1. r.list \in Seq(SpanId) /\ r.used \in Int /\ r.total \in Int
  BY DEF Counting, CacheRecords
<1>2. ToSet(r.list) \subseteq SpanId
  BY <1>1 DEF ToSet
<1> QED  BY <1>1, <1>2, FiniteSpans DEF Counting

LEMMA UnlinkIs ==
  ASSUME NEW r, Counting(r), NEW s \in ToSet(r.list), NEW q, q = Unlink(r, s)
  PROVE  /\ Counting(q) /\ q.used = r.used /\ q.total = r.total
         /\ \A t : t \in ToSet(q.list) <=> t # s /\ t \in ToSet(r.list)
<1>1. r.list \in Seq(SpanId) /\ IsFiniteSet(ToSet(r.list)) /\ r.count \in Nat /\ r \in CacheRecords /\ Once(r.list)
      /\ r.count = Cardinality(ToSet(r.list))
  BY CountingIs DEF Counting
<1> DEFINE l == Unlinked(r.list, s)
           n == r.count - 1
<1>2. l \in Seq(SpanId) /\ Once(l) /\ ToSet(l) = ToSet(r.list) \ {s}
  BY <1>1, UnlinkedIs
<1>3. n = Cardinality(ToSet(l)) /\ n \in Int
  BY <1>1, <1>2, OneLess
<1>4. q = [[r EXCEPT !.list = l] EXCEPT !.count = n]
  BY <1>1 DEF Unlink, CacheRecords
<1> HIDE DEF l, n
<1>5. q \in CacheRecords /\ q.list = l /\ q.count = n /\ q.used = r.used /\ q.total = r.total
  BY <1>1, <1>2, <1>3, <1>4 DEF CacheRecords
<1> QED  BY <1>2, <1>3, <1>5 DEF Counting

LEMMA PrependIs ==
  ASSUME NEW r, Counting(r), NEW s \in SpanId, s \notin ToSet(r.list), NEW q, q = Prepend(r, s)
  PROVE  /\ Counting(q) /\ q.used = r.used /\ q.total = r.total /\ q.count = r.count + 1
         /\ \A t : t \in ToSet(q.list) <=> t = s \/ t \in ToSet(r.list)
         /\ Head(q.list) = s /\ q.list # <<>>
<1>1. r.list \in Seq(SpanId) /\ IsFiniteSet(ToSet(r.list)) /\ r.count \in Nat /\ r \in CacheRecords /\ Once(r.list)
      /\ r.count = Cardinality(ToSet(r.list))
  BY CountingIs DEF Counting
<1> DEFINE l == <<s>> \o r.list
           n == r.count + 1
<1>2. l \in Seq(SpanId) /\ Once(l) /\ ToSet(l) = ToSet(r.list) \cup {s}
  BY <1>1, Linked
<1>2a. Head(l) = s /\ l # <<>>
  BY <1>1
<1>3. n = Cardinality(ToSet(l)) /\ n \in Int
  BY <1>1, <1>2, OneMore
<1>4. q = [[r EXCEPT !.list = l] EXCEPT !.count = n]
  BY <1>1 DEF Prepend, CacheRecords
<1> HIDE DEF l, n
<1>5. q \in CacheRecords /\ q.list = l /\ q.count = n /\ q.used = r.used /\ q.total = r.total
  BY <1>1, <1>2, <1>3, <1>4 DEF CacheRecords
<1>6. Counting(q)
  BY <1>2, <1>3, <1>5 DEF Counting
<1>7. \A t : t \in ToSet(q.list) <=> t = s \/ t \in ToSet(r.list)
  BY <1>2, <1>5
<1> QED  BY <1>2a, <1>5, <1>6, <1>7 DEF n

LEMMA UsedIs ==
  ASSUME NEW r, Counting(r), NEW n \in Int, NEW q, q = [r EXCEPT !.used = n]
  PROVE  Counting(q) /\ q.list = r.list /\ q.count = r.count /\ q.used = n /\ q.total = r.total
<1>1. q \in CacheRecords /\ q.list = r.list /\ q.count = r.count /\ q.used = n /\ q.total = r.total
  BY DEF CacheRecords, Counting
<1> QED  BY <1>1 DEF Counting

LEMMA TotalIs ==
  ASSUME NEW r, Counting(r), NEW n \in Int, NEW q, q = [r EXCEPT !.total = n]
  PROVE  Counting(q) /\ q.list = r.list /\ q.count = r.count /\ q.used = r.used /\ q.total = n
<1>1. q \in CacheRecords /\ q.list = r.list /\ q.count = r.count /\ q.used = r.used /\ q.total = n
  BY DEF CacheRecords, Counting
<1> QED  BY <1>1 DEF Counting
-----------------------------------------------------------------------------
(* The memory as a value *)

Memory(h, C, K, M) == [heap |-> h, cut |-> C, caches |-> K, meta |-> M]

SetHeap(m, k) == [m EXCEPT !.heap = k]
SetCut(m, s, x) == [m EXCEPT !.cut[s] = x]
SetCache(m, c, x) == [m EXCEPT !.caches[c] = x]
SetMeta(m, x) == [m EXCEPT !.meta = x]
SetMetaAt(m, u, x) == [m EXCEPT !.meta[u] = x]

LEMMA MemoryIs ==
  ASSUME NEW h, NEW C, NEW K, NEW M, NEW m, m = Memory(h, C, K, M)
  PROVE  m.heap = h /\ m.cut = C /\ m.caches = K /\ m.meta = M
  BY DEF Memory

LEMMA HeapSet ==
  ASSUME NEW h, NEW C, NEW K, NEW M, NEW x
  PROVE  SetHeap(Memory(h, C, K, M), x) = Memory(x, C, K, M)
  BY DEF Memory, SetHeap

LEMMA CutSet ==
  ASSUME NEW h, NEW C, NEW K, NEW M, NEW s, NEW x
  PROVE  SetCut(Memory(h, C, K, M), s, x) = Memory(h, With(C, s, x), K, M)
  BY DEF Memory, SetCut, With

LEMMA CacheSet ==
  ASSUME NEW h, NEW C, NEW K, NEW M, NEW c, NEW x
  PROVE  SetCache(Memory(h, C, K, M), c, x) = Memory(h, C, With(K, c, x), M)
  BY DEF Memory, SetCache, With

LEMMA MetaSet ==
  ASSUME NEW h, NEW C, NEW K, NEW M, NEW x
  PROVE  SetMeta(Memory(h, C, K, M), x) = Memory(h, C, K, x)
  BY DEF Memory, SetMeta

LEMMA MetaAtSet ==
  ASSUME NEW h, NEW C, NEW K, NEW M, NEW u, NEW x
  PROVE  SetMetaAt(Memory(h, C, K, M), u, x) = Memory(h, C, K, With(M, u, x))
  BY DEF Memory, SetMetaAt, With

\* An assertion that holds changes nothing.
LEMMA Asserted ==
  ASSUME NEW h, Good(h), NEW C, NEW K, NEW M, NEW ok, ok = TRUE
  PROVE  MemCheck(Memory(h, C, K, M), ok) = Memory(h, C, K, M)
<1>1. Check(h, ok) = h
  BY CheckTrue DEF Good, Sound, Loose, Shape
<1> DEFINE m == Memory(h, C, K, M)
<1>2. m.heap = h
  BY MemoryIs
<1>3. SetHeap(m, h) = m
  BY HeapSet
<1> HIDE DEF m
<1>4. MemCheck(m, ok) = SetHeap(m, Check(m.heap, ok))
  BY DEF MemCheck, SetHeap
<1> QED  BY <1>1, <1>2, <1>3, <1>4 DEF m

Cleared(M, us) == [u \in Unit |-> IF u \in us THEN 0 ELSE M[u]]

LEMMA UnmetaIs ==
  ASSUME NEW h, NEW C, NEW K, NEW M, NEW us
  PROVE  Unmeta(Memory(h, C, K, M), us) = Memory(h, C, K, Cleared(M, us))
<1> DEFINE m == Memory(h, C, K, M)
<1>1. m.meta = M
  BY MemoryIs
<1>2. SetMeta(m, Cleared(M, us)) = Memory(h, C, K, Cleared(M, us))
  BY MetaSet
<1> HIDE DEF m
<1>3. Unmeta(m, us) = SetMeta(m, Cleared(m.meta, us))
  BY DEF Unmeta, SetMeta, Cleared
<1> QED  BY <1>1, <1>2, <1>3 DEF m

\* What is left at the units of live objects B, and elsewhere.
MetaKept(M, M2, B) ==
  /\ M2 \in [Unit -> Nat]
  /\ \A v \in B : M2[v] = M[v]
  /\ \A v \in Unit : M2[v] \in {0, M[v]}

RoomKept(h, C, k, C2, B) == \A v \in B, i \in Nat : Room(h, C, v, i) => Room(k, C2, v, i)

\* A call has found n units at u, or nothing.
Found(h, C, M, B, g, n) ==
  \E k, C2, K2, M2 :
    /\ g.mem = Memory(k, C2, K2, M2)
    /\ MetaKept(M, M2, B) /\ RoomKept(h, C, k, C2, B)
    /\ \/ g.units = {} /\ Books(k, C2, K2, B)
       \/ \E u \in Unit \ B : g.units = {u} /\ Books(k, C2, K2, B \cup {u}) /\ Room(k, C2, u, n)

LEMMA TakeFound ==
  ASSUME NEW h, NEW C, NEW K, NEW B, Books(h, C, K, B), NEW M \in [Unit -> Nat],
         NEW c \in DOMAIN Classes, K[c].list # <<>>, NEW n \in Nat, n <= Classes[c].size,
         NEW g, g = TakeChunk(Memory(h, C, K, M), c)
  PROVE  Found(h, C, M, B, g, n)
<1> DEFINE r == K[c]
           s == Head(r.list)
           x == fetch(C[s])
           u == Head(C[s].chunks)
           q == IF x.chunks = <<>> THEN Unlink(r, s) ELSE r
           R == [q EXCEPT !.used = q.used + Classes[c].size]
           C2 == With(C, s, x)
           K2 == With(K, c, R)
           B2 == B \cup {u}
<1>1. Counting(r) /\ CacheSound(h, C, r, B, c) /\ C \in [SpanId -> Cuts] /\ K \in [DOMAIN Classes -> CacheRecords] /\ Good(h)
  BY DEF Books, CacheSound, Counting
<1>2. r.list \in Seq(SpanId) /\ r.used \in Int /\ Once(r.list)
  BY <1>1, CountingIs DEF Counting
<1>3. s \in ToSet(r.list) /\ s \in SpanId
  BY <1>2, TailIs
<1>4. s \in CutInto(C, c) /\ C[s].cls = c /\ C[s].chunks # <<>> /\ c # NoClass
  BY <1>1, <1>3, AllocConstants DEF CacheSound, CutInto
<1>5. /\ C[s] \in Cuts /\ Once(C[s].chunks) /\ C[s].chunks \in Seq(Nat) /\ s \in Held(h)
  BY <1>3, <1>4, CutIs
<1>6. x \in Cuts /\ x.cls = c /\ x.used = C[s].used + 1 /\ x.chunks = Tail(C[s].chunks)
  <2> DEFINE y == C[s]
  <2>1. Tail(y.chunks) \in Seq(Nat) /\ y.used + 1 \in Int /\ y \in Cuts /\ y.cls = c
    BY <1>4, <1>5, TailIs DEF Cuts
  <2>2. x = [[y EXCEPT !.used = y.used + 1] EXCEPT !.chunks = Tail(y.chunks)]
    BY <2>1 DEF fetch, Cuts
  <2> HIDE DEF y, x
  <2> QED  BY <2>1, <2>2 DEF Cuts, y
<1>7. /\ Counting(q) /\ q.used = r.used /\ q.total = r.total
      /\ \A t : t \in ToSet(q.list) <=> IF t = s THEN x.chunks # <<>> ELSE t \in ToSet(r.list)
  <2>1. CASE x.chunks = <<>>
    <3>1. q = Unlink(r, s)
      BY <2>1
    <3> HIDE DEF q, s, r, x
    <3> QED  BY <1>1, <1>3, <2>1, <3>1, UnlinkIs
  <2>2. CASE x.chunks # <<>>
    BY <1>1, <1>3, <2>2
  <2> QED  BY <2>1, <2>2
<1>8. r.used + Classes[c].size \in Int
  BY <1>2, AllocConstants
<1> DEFINE nu == r.used + Classes[c].size
<1>9. R = [q EXCEPT !.used = q.used + Classes[c].size]
  OBVIOUS
<1> HIDE DEF q, R, x, s, u, r, C2, K2, B2, nu
<1>10. /\ Counting(R) /\ R.list = q.list /\ R.used = nu /\ R.total = q.total
  BY <1>7, <1>8, <1>9, UsedIs DEF nu
<1>11. Head(C[s].chunks) = u /\ s = Head(r.list) /\ C2 = With(C, s, x) /\ K2 = With(K, c, R) /\ \A v : v \in B2 <=> v \in B \/ v = u
  BY DEF u, s, C2, K2, B2
<1>12. /\ R \in CacheRecords /\ Once(R.list) /\ R.count = Cardinality(ToSet(R.list))
       /\ \A t : t \in ToSet(R.list) <=> IF t = s THEN x.chunks # <<>> ELSE t \in ToSet(K[c].list)
       /\ R.used = K[c].used + Classes[c].size /\ R.total = K[c].total
  BY <1>7, <1>10 DEF Counting, nu, r
<1>13. Books(h, C2, K2, B2) /\ u \notin B /\ u \in Zone(h, s) /\ C2[s].cls = c
  <2>1. Takes(C, K, B, B2, s, c, u, x, R)
    BY <1>3, <1>4, <1>6, <1>11, <1>12 DEF Takes
  <2> QED  BY <1>11, <2>1, TakeBooks
<1>14. g.mem = Memory(h, C2, K2, M) /\ g.units = {u}
  <2> DEFINE m == Memory(h, C, K, M)
  <2>1. m.cut = C /\ m.caches = K
    BY MemoryIs
  <2>2. SetCache(SetCut(m, s, x), c, R) = Memory(h, C2, K2, M)
    BY <1>11, CutSet, CacheSet
  <2>3. g = TakeChunk(m, c)
    OBVIOUS
  <2> HIDE DEF m
  <2>4. g = [mem |-> SetCache(SetCut(m, s, x), c, R), units |-> {u}]
    BY <2>1, <2>3 DEF TakeChunk, SetCache, SetCut, R, q, x, u, s, r
  <2> QED  BY <2>2, <2>4
<1>15. MetaKept(M, M, B)
  <2>1. B \subseteq Unit
    BY DEF Books, BasesHeld
  <2> QED  BY <2>1 DEF MetaKept
<1>16. RoomKept(h, C, h, C2, B)
  <2> SUFFICES ASSUME NEW v \in B, NEW i \in Nat, Room(h, C, v, i) PROVE Room(h, C2, v, i)
    BY DEF RoomKept
  <2>1. \A t \in Held(h) : C2[t].cls = C[t].cls
    BY <1>1, <1>3, <1>4, <1>6, <1>11, HeldIs DEF With
  <2> QED  BY <2>1, RoomStep
<1>17. Room(h, C2, u, n)
  BY <1>4, <1>5, <1>13 DEF Room
<1>18. u \in Unit
  BY <1>13 DEF Zone
<1> QED  BY <1>13, <1>14, <1>15, <1>16, <1>17, <1>18 DEF Found, B2

LEMMA FoundAfter ==
  ASSUME NEW h, NEW C, NEW M, NEW B, NEW k, NEW C2, NEW M2, NEW g, NEW n,
         MetaKept(M, M2, B), RoomKept(h, C, k, C2, B), Found(k, C2, M2, B, g, n)
  PROVE  Found(h, C, M, B, g, n)
<1>1. PICK k3, C3, K3, M3 :
        /\ g.mem = Memory(k3, C3, K3, M3)
        /\ MetaKept(M2, M3, B) /\ RoomKept(k, C2, k3, C3, B)
        /\ \/ g.units = {} /\ Books(k3, C3, K3, B)
           \/ \E u \in Unit \ B : g.units = {u} /\ Books(k3, C3, K3, B \cup {u}) /\ Room(k3, C3, u, n)
  BY DEF Found
<1>2. MetaKept(M, M3, B)
  BY <1>1 DEF MetaKept
<1>3. RoomKept(h, C, k3, C3, B)
  BY <1>1 DEF RoomKept
<1> QED  BY <1>1, <1>2, <1>3 DEF Found

\* The page heap has handed out a span, and those of others are as they were.
LEMMA SpanGot ==
  ASSUME NEW h, NEW k, Good(h), Good(k), \A t \in Held(h) : k.spans[t] = h.spans[t],
         NEW s, NEW n \in Nat, Gains(h, k, s, n)
  PROVE  GotSpan(h, k, s) /\ s \in Held(k) /\ k.spans[s].count = n
<1>1. GotSpan(h, k, s) /\ s \in Held(k)
  BY DEF GotSpan, Gains
<1>2. End(k, s) = Start(k, s) + n /\ k.spans[s].count = End(k, s) - Start(k, s) /\ Start(k, s) \in Nat
  BY <1>1, HeldIs DEF Gains
<1> QED  BY <1>1, <1>2

\* Other spans keep what they have when span s is handed out, and cut or not.
LEMMA RoomsKept ==
  ASSUME NEW h, NEW C, NEW K, NEW B, Books(h, C, K, B), NEW k, NEW s, GotSpan(h, k, s),
         NEW C2, \A t \in SpanId \ {s} : C2[t] = C[t]
  PROVE  RoomKept(h, C, k, C2, B)
<1> SUFFICES ASSUME NEW v \in B, NEW i \in Nat, Room(h, C, v, i) PROVE Room(k, C2, v, i)
  BY DEF RoomKept
<1>1. \A t \in Held(h) : t \in SpanId \ {s} /\ t \in Held(k) /\ k.spans[t] = h.spans[t]
  BY HeldIs DEF GotSpan, Books
<1>2. \A t \in Held(h) : /\ t \in Held(k) /\ Start(k, t) = Start(h, t) /\ End(k, t) = End(h, t)
                         /\ k.spans[t].count = h.spans[t].count /\ C2[t].cls = C[t].cls
  BY <1>1, AlikeIs
<1> QED  BY <1>2, RoomStep

LEMMA AddSpanIs ==
  ASSUME NEW h, NEW C, NEW K, NEW B, Books(h, C, K, B), NEW M \in [Unit -> Nat],
         NEW c \in DOMAIN Classes, K[c].list = <<>>, NEW a, Good(a.heap),
         \A t \in Held(h) : a.heap.spans[t] = h.spans[t], Gains(h, a.heap, a.span, Classes[c].pages)
  PROVE  \E k, C2, K2, M2 :
           /\ AddSpan(Memory(h, C, K, M), a, c) = Memory(k, C2, K2, M2)
           /\ Books(k, C2, K2, B) /\ K2[c].list # <<>> /\ M2 \in [Unit -> Nat]
           /\ MetaKept(M, M2, B) /\ RoomKept(h, C, k, C2, B)
<1> DEFINE s == a.span
           f == a.heap
           k == register_span_in(f, s)
           x == partition(f.spans[s], c)
           q == Prepend(K[c], s)
           R == [q EXCEPT !.total = q.total + Classes[c].pages]
           C2 == With(C, s, x)
           K2 == With(K, c, R)
           M2 == Cleared(M, ToSet(x.chunks))
<1>1. /\ Good(h) /\ C \in [SpanId -> Cuts] /\ K \in [DOMAIN Classes -> CacheRecords] /\ Counting(K[c])
      /\ B \subseteq Unit /\ Classes[c].pages \in Nat
  BY AllocConstants DEF Books, CacheSound, Counting, BasesHeld
<1>2. GotSpan(h, f, s) /\ s \in Held(f) /\ f.spans[s].count = Classes[c].pages
  BY <1>1, SpanGot
<1>3. k = register_span_in(f, s)
  OBVIOUS
<1>4. /\ C2 = With(C, s, x) /\ K2 = With(K, c, R) /\ x = partition(f.spans[s], c) /\ q = Prepend(K[c], s)
      /\ R = [q EXCEPT !.total = q.total + Classes[c].pages] /\ M2 = Cleared(M, ToSet(x.chunks))
  OBVIOUS
<1>5. s \in SpanId /\ C[s] = Whole
  BY <1>2, GotSpanIs
<1> HIDE DEF s, f, k, x, q, R, C2, K2, M2
<1>6. /\ Good(k) /\ Keeps(f, k) /\ k.spans[s].cached /\ k.spans[s].count = f.spans[s].count
      /\ \A u \in SpanId \ {s} : k.spans[u] = f.spans[u]
  BY <1>2, <1>3, RegisterKeeps DEF f
<1>7. GotSpan(h, k, s)
  <2>1. \A t \in Held(h) : t \in SpanId \ {s}
    BY <1>1, <1>2, HeldIs DEF GotSpan
  <2> QED  BY <1>2, <1>6, <2>1 DEF GotSpan, Keeps
<1>8. x = partition(k.spans[s], c)
  <2>1. k.spans[s].start = f.spans[s].start /\ k.spans[s].count = f.spans[s].count
    BY <1>2, <1>6 DEF Keeps, Start
  <2> QED  BY <1>4, <2>1 DEF partition
<1>9. /\ Counting(q) /\ q.used = K[c].used /\ q.total = K[c].total /\ q.count = K[c].count + 1
      /\ \A t : t \in ToSet(q.list) <=> t = s \/ t \in ToSet(K[c].list)
      /\ q.list # <<>>
  <2> DEFINE r == K[c]
  <2>1. Counting(r) /\ s \notin ToSet(r.list) /\ q = Prepend(r, s)
    BY <1>1, <1>4 DEF ToSet
  <2> HIDE DEF r
  <2>2. /\ Counting(q) /\ q.used = r.used /\ q.total = r.total /\ q.count = r.count + 1
        /\ \A t : t \in ToSet(q.list) <=> t = s \/ t \in ToSet(r.list)
        /\ q.list # <<>>
    BY <1>5, <2>1, PrependIs
  <2> QED  BY <2>2 DEF r
<1>10. /\ Counting(R) /\ R.list = q.list /\ R.count = q.count /\ R.used = q.used
       /\ R.total = q.total + Classes[c].pages
  <2>1. q.total + Classes[c].pages \in Int
    BY <1>1, <1>9, CountingIs
  <2> QED  BY <1>4, <1>9, <2>1, TotalIs
<1>11. Adds(h, k, C, K, s, c, R)
  BY <1>2, <1>6, <1>7, <1>9, <1>10 DEF Adds, Counting
<1>12. Books(k, C2, K2, B)
  BY <1>4, <1>8, <1>11, AddBooks
<1>13. K2[c].list # <<>>
  BY <1>1, <1>4, <1>9, <1>10 DEF With
<1>14. MetaKept(M, M2, B) /\ M2 \in [Unit -> Nat]
  <2>1. s \in Held(k) /\ B \cap Zone(k, s) = {}
    BY <1>7, GotSpanIs
  <2>2. ToSet(x.chunks) \subseteq Zone(k, s)
    BY <1>2, <1>6, <1>8, <2>1, GridIs
  <2>3. M2 = [u \in Unit |-> IF u \in ToSet(x.chunks) THEN 0 ELSE M[u]]
    BY <1>4 DEF Cleared
  <2>4. M2 \in [Unit -> Nat]
    BY <2>3
  <2>5. ASSUME NEW v \in B PROVE M2[v] = M[v]
    BY <1>1, <2>1, <2>2, <2>3
  <2>6. ASSUME NEW v \in Unit PROVE M2[v] \in {0, M[v]}
    BY <2>3
  <2> QED  BY <2>4, <2>5, <2>6 DEF MetaKept
<1>15. RoomKept(h, C, k, C2, B)
  <2>1. \A t \in SpanId \ {s} : C2[t] = C[t]
    BY <1>1, <1>4 DEF With
  <2> QED  BY <1>7, <2>1, RoomsKept
<1>16. AddSpan(Memory(h, C, K, M), a, c) = Memory(k, C2, K2, M2)
  <2> DEFINE m == Memory(h, C, K, M)
             g == SetCache(SetCut(SetHeap(m, k), s, x), c, R)
  <2>1. m.cut = C /\ m.caches = K
    BY MemoryIs
  <2>2. g = Memory(k, C2, K2, M)
    BY <1>4, HeapSet, CutSet, CacheSet
  <2>3. SetHeap(m, k).caches = K /\ SetCut(SetHeap(m, k), s, x).caches = K
    BY HeapSet, CutSet, MemoryIs
  <2>4. AddSpan(m, a, c) = Unmeta(MemCheck(g, C[s] = Whole), ToSet(x.chunks))
    <3> HIDE DEF m
    <3> QED  BY <2>1, <2>3 DEF AddSpan, SetCache, SetCut, SetHeap, s, f, k, x, q, R
  <2> HIDE DEF m, g
  <2>5. MemCheck(g, C[s] = Whole) = Memory(k, C2, K2, M)
    <3> DEFINE ok == C[s] = Whole
    <3>1. ok = TRUE
      BY <1>5
    <3> HIDE DEF ok
    <3>2. MemCheck(g, ok) = Memory(k, C2, K2, M)
      BY <1>6, <2>2, <3>1, Asserted
    <3> QED  BY <3>2 DEF ok
  <2> QED  BY <1>4, <2>4, <2>5, UnmetaIs DEF m
<1> QED  BY <1>12, <1>13, <1>14, <1>15, <1>16

LEMMA FoundNone ==
  ASSUME NEW h, NEW C, NEW K, NEW B, Books(h, C, K, B), NEW M \in [Unit -> Nat], NEW n, NEW k, Good(k),
         \A t \in Held(h) : k.spans[t] = h.spans[t], Keeps(h, k),
         NEW g, g.mem = Memory(k, C, K, M), g.units = {}
  PROVE  Found(h, C, M, B, g, n)
<1>1. Books(k, C, K, B)
  BY KeepBooks DEF Keeps
<1>2. MetaKept(M, M, B)
  <2>1. B \subseteq Unit
    BY DEF Books, BasesHeld
  <2> QED  BY <2>1 DEF MetaKept
<1>3. RoomKept(h, C, k, C, B)
  <2> SUFFICES ASSUME NEW v \in B, NEW i \in Nat, Room(h, C, v, i) PROVE Room(k, C, v, i)
    BY DEF RoomKept
  <2>1. \A t \in Held(h) : /\ t \in Held(k) /\ Start(k, t) = Start(h, t) /\ End(k, t) = End(h, t)
                           /\ k.spans[t].count = h.spans[t].count
    BY DEF Keeps
  <2> QED  BY <2>1, RoomStep
<1> QED  BY <1>1, <1>2, <1>3 DEF Found

\* allocate_chunk() finds a chunk, or the heap has no span left for one.
LEMMA ChunkFound ==
  ASSUME SpanPool >= MmapPages, NEW h, NEW C, NEW K, NEW B, Books(h, C, K, B), NEW M \in [Unit -> Nat],
         NEW c \in DOMAIN Classes, NEW n \in Nat, n <= Classes[c].size,
         NEW g, g = allocate_chunk(Memory(h, C, K, M), c)
  PROVE  Found(h, C, M, B, g, n)
<1> DEFINE m == Memory(h, C, K, M)
<1>1. m.heap = h /\ m.caches = K
  BY MemoryIs
<1>2. Good(h) /\ Counting(K[c]) /\ Classes[c].pages \in Nat \ {0}
  BY AllocConstants DEF Books, CacheSound, Counting
<1>3. g = allocate_chunk(m, c)
  OBVIOUS
<1>4. CASE K[c].list # <<>>
  <2> DEFINE ok == K[c].count > 0
  <2>1. ok = TRUE
    <3> DEFINE r == K[c]
    <3>1. Counting(r) /\ r.list # <<>>
      BY <1>2, <1>4
    <3> HIDE DEF r
    <3>2. r.list \in Seq(SpanId) /\ Once(r.list) /\ IsFiniteSet(ToSet(r.list)) /\ r.count = Cardinality(ToSet(r.list))
      BY <3>1, CountingIs DEF Counting
    <3>3. Head(r.list) \in ToSet(r.list)
      BY <3>1, <3>2, TailIs
    <3>4. Cardinality(ToSet(r.list)) \in Nat \ {0}
      <4> DEFINE T == ToSet(r.list) \ {Head(r.list)}
      <4>1. T = ToSet(r.list) \ {Head(r.list)}
        OBVIOUS
      <4> HIDE DEF T
      <4> QED  BY <3>2, <3>3, <4>1, OneLess
    <3> QED  BY <3>2, <3>4 DEF r
  <2> HIDE DEF ok
  <2>2. MemCheck(m, ok) = m
    BY <1>2, <2>1, Asserted
  <2>3. g = TakeChunk(m, c)
    <3> HIDE DEF m
    <3>1. g = TakeChunk(MemCheck(m, ok), c)
      BY <1>1, <1>3, <1>4 DEF allocate_chunk, ok
    <3> QED  BY <2>2, <3>1
  <2> QED  BY <1>4, <2>3, TakeFound
<1>5. CASE K[c].list = <<>>
  <2> DEFINE a == allocate_span_in(h, Classes[c].pages)
  <2>1. a = allocate_span_in(h, Classes[c].pages)
    OBVIOUS
  <2>2. g = Refill(m, a, c)
    <3> HIDE DEF m
    <3> QED  BY <1>1, <1>3, <1>5 DEF allocate_chunk
  <2> HIDE DEF a
  <2>3. /\ Good(a.heap) /\ \A u \in Held(h) : a.heap.spans[u] = h.spans[u]
        /\ \/ a.span = Null /\ Keeps(h, a.heap)
           \/ a.span # Null /\ Gains(h, a.heap, a.span, Classes[c].pages)
    BY <1>2, <2>1, AllocKeeps
  <2>4. CASE a.span = Null
    <3>1. g = [mem |-> SetHeap(m, a.heap), units |-> {}]
      <4> HIDE DEF m
      <4> QED  BY <2>2, <2>4 DEF Refill, SetHeap
    <3>2. SetHeap(m, a.heap) = Memory(a.heap, C, K, M)
      BY HeapSet
    <3>3. g.mem = Memory(a.heap, C, K, M) /\ g.units = {}
      <4> HIDE DEF m
      <4> QED  BY <3>1, <3>2
    <3>4. Keeps(h, a.heap)
      BY <2>3, <2>4
    <3> QED  BY <2>3, <3>3, <3>4, FoundNone
  <2>5. CASE a.span # Null
    <3>1. g = TakeChunk(AddSpan(m, a, c), c)
      <4> HIDE DEF m
      <4> QED  BY <2>2, <2>5 DEF Refill
    <3>2. Gains(h, a.heap, a.span, Classes[c].pages)
      BY <2>3, <2>5
    <3>3. PICK k, C2, K2, M2 :
            /\ AddSpan(m, a, c) = Memory(k, C2, K2, M2)
            /\ Books(k, C2, K2, B) /\ K2[c].list # <<>> /\ M2 \in [Unit -> Nat]
            /\ MetaKept(M, M2, B) /\ RoomKept(h, C, k, C2, B)
      BY <1>5, <2>3, <3>2, AddSpanIs
    <3> HIDE DEF m
    <3>4. g = TakeChunk(Memory(k, C2, K2, M2), c)
      BY <3>1, <3>3
    <3>5. Found(k, C2, M2, B, g, n)
      BY <3>3, <3>4, TakeFound
    <3> QED  BY <3>3, <3>5, FoundAfter
  <2> QED  BY <2>4, <2>5
<1> QED  BY <1>4, <1>5

\* Pages for one object.
LEMMA WholeFound ==
  ASSUME SpanPool >= MmapPages, NEW h, NEW C, NEW K, NEW B, Books(h, C, K, B), NEW M \in [Unit -> Nat],
         NEW p \in Nat \ {0}, NEW n \in Nat, n <= p * PAGE_SIZE,
         NEW a, a = allocate_span_in(h, p), NEW g, g = WholeSpan(Memory(h, C, K, M), a)
  PROVE  Found(h, C, M, B, g, n)
<1> DEFINE m == Memory(h, C, K, M)
           k == a.heap
           s == a.span
           u == Start(k, s) * PAGE_SIZE
<1>1. Good(h)
  BY DEF Books
<1>2. /\ Good(k) /\ \A t \in Held(h) : k.spans[t] = h.spans[t]
      /\ \/ s = Null /\ Keeps(h, k)
         \/ s # Null /\ Gains(h, k, s, p)
  BY <1>1, AllocKeeps
<1>3. SetHeap(m, k) = Memory(k, C, K, M)
  BY HeapSet
<1>4. g = WholeSpan(m, a)
  OBVIOUS
<1>5. g = [mem |-> SetHeap(m, k), units |-> IF s = Null THEN {} ELSE {u}]
  <2> HIDE DEF m
  <2> QED  BY <1>4 DEF WholeSpan, SetHeap, Start
<1>6. g.mem = Memory(k, C, K, M) /\ g.units = IF s = Null THEN {} ELSE {u}
  <2> HIDE DEF m, u
  <2> QED  BY <1>3, <1>5
<1>7. CASE s = Null
  <2>1. Keeps(h, k) /\ g.units = {}
    BY <1>2, <1>6, <1>7
  <2> HIDE DEF k, s
  <2> QED  BY <1>2, <1>6, <2>1, FoundNone
<1>8. CASE s # Null
  <2>1. Gains(h, k, s, p) /\ g.units = {u}
    BY <1>2, <1>6, <1>8
  <2>1a. u = Start(k, s) * PAGE_SIZE
    OBVIOUS
  <2> HIDE DEF k, s, u
  <2>2. GotSpan(h, k, s) /\ s \in Held(k) /\ k.spans[s].count = p
    BY <1>1, <1>2, <2>1, SpanGot
  <2>3. Books(k, C, K, B \cup {u}) /\ u \notin B /\ u \in Zone(k, s) /\ C[s].cls = NoClass
    BY <2>1a, <2>2, WholeBooks
  <2>4. Room(k, C, u, n)
    BY <2>2, <2>3 DEF Room
  <2>5. MetaKept(M, M, B)
    <3>1. B \subseteq Unit
      BY DEF Books, BasesHeld
    <3> QED  BY <3>1 DEF MetaKept
  <2>6. RoomKept(h, C, k, C, B)
    BY <2>2, RoomsKept
  <2>7. u \in Unit \ B
    BY <2>3 DEF Zone
  <2> QED  BY <1>6, <2>1, <2>3, <2>4, <2>5, <2>6, <2>7 DEF Found
<1> QED  BY <1>7, <1>8

\* The pages for n units are enough, and no page is asked for in vain.
LEMMA PagesEnough ==
  ASSUME NEW n \in Nat \ {0}, NEW p, p = (n + PAGE_SIZE - 1) \div PAGE_SIZE
  PROVE  p \in Nat \ {0} /\ n <= p * PAGE_SIZE
<1>1. PAGE_SIZE \in Nat \ {0}
  BY AllocConstants
<1> DEFINE d == PAGE_SIZE
           w == n + d - 1
<1>2. w \in Nat /\ w >= d /\ d \in Nat \ {0} /\ p = w \div d
  BY <1>1
<1> HIDE DEF d
<1>3. p \in Nat /\ d * p <= w /\ w < d * p + d
  <2> HIDE DEF w
  <2> QED  BY <1>2
<1>4. n <= d * p
  BY <1>2, <1>3
<1>5. d * p = p * d
  BY <1>2, <1>3
<1>6. p # 0
  <2>1. n >= 1
    OBVIOUS
  <2>2. d * 0 = 0
    BY <1>2
  <2> QED  BY <1>4, <2>1, <2>2
<1> QED  BY <1>3, <1>4, <1>5, <1>6 DEF d

LEMMA ObtainFound ==
  ASSUME SpanPool >= MmapPages, NEW h, NEW C, NEW K, NEW B, Books(h, C, K, B), NEW M \in [Unit -> Nat],
         NEW n \in Nat \ {0}, NEW g, g = Obtain(Memory(h, C, K, M), n)
  PROVE  Found(h, C, M, B, g, n)
<1> DEFINE m == Memory(h, C, K, M)
           c == size2class(n)
<1>1. m.heap = h
  BY MemoryIs
<1>2. g = Obtain(m, n)
  OBVIOUS
<1>3. CASE c # NoClass
  <2>1. g = allocate_chunk(m, c)
    <3> HIDE DEF m, c
    <3> QED  BY <1>2, <1>3 DEF Obtain, c
  <2>2. c \in DOMAIN Classes /\ n <= Classes[c].size
    <3> DEFINE fit == {d \in DOMAIN Classes : Classes[d].size >= n}
    <3>1. fit # {}
      BY <1>3 DEF size2class
    <3>2. \E d \in fit : \A e \in fit : Classes[d].size <= Classes[e].size
      <4> DEFINE Z == {Classes[d].size : d \in fit}
      <4>1. Z \subseteq Nat /\ Z # {}
        BY <3>1, AllocConstants
      <4>2. PICK z \in Z : \A y \in Z : z <= y
        BY <4>1, Smallest
      <4> QED  BY <4>2
    <3>3. c = CHOOSE d \in fit : \A e \in fit : Classes[d].size <= Classes[e].size
      BY <3>1 DEF size2class
    <3>4. c \in fit
      <4> HIDE DEF c, fit
      <4> QED  BY <3>2, <3>3
    <3>5. c \in DOMAIN Classes /\ Classes[c].size >= n
      <4> HIDE DEF c
      <4> QED  BY <3>4
    <3> HIDE DEF c
    <3> QED  BY <3>5, AllocConstants
  <2> HIDE DEF c
  <2> QED  BY <2>1, <2>2, ChunkFound
<1>4. CASE c = NoClass
  <2> DEFINE p == (n + PAGE_SIZE - 1) \div PAGE_SIZE
             a == allocate_span_in(h, p)
  <2>1. p \in Nat \ {0} /\ n <= p * PAGE_SIZE
    BY PagesEnough
  <2>2. a = allocate_span_in(h, p)
    OBVIOUS
  <2> HIDE DEF p
  <2>3. g = WholeSpan(m, a)
    <3> HIDE DEF m, c
    <3> QED  BY <1>1, <1>2, <1>4 DEF Obtain, c, p
  <2> HIDE DEF a
  <2> QED  BY <2>1, <2>2, <2>3, WholeFound
<1> QED  BY <1>3, <1>4
-----------------------------------------------------------------------------
(* The memory, when an object is freed *)

\* Span s of class c is where it belongs, and all that is left is to count
\* the chunk, of an object at u, out.
Replaced(h, C, K, B2, M, c, r) ==
  \E k, C2, R0 :
    /\ r = Memory(k, C2, With(K, c, R0), M)
    /\ Good(k) /\ Counting(R0) /\ R0.used = K[c].used
    /\ \A R : Counting(R) /\ R.list = R0.list /\ R.total = R0.total /\ R.used = K[c].used - Classes[c].size =>
         Books(k, C2, With(K, c, R), B2)
    /\ RoomKept(h, C, k, C2, B2)

\* An object begins at u in span s, of class c.
Inside(h, C, B, B2, s, c, u) ==
  /\ s \in SpanId /\ C[s].cls = c /\ c # NoClass /\ u \in B /\ u \in Zone(h, s)
  /\ \A v : v \in B2 <=> v \in B /\ v # u

LEMMA ReturnReplaced ==
  ASSUME NEW h, NEW C, NEW K, NEW B, Books(h, C, K, B), NEW B2, NEW s, NEW c, NEW u, Inside(h, C, B, B2, s, c, u),
         C[s].used = 1, NEW M, NEW r, r = ReturnSpan(Memory(h, C, K, M), s, c)
  PROVE  Replaced(h, C, K, B2, M, c, r)
<1> DEFINE k == deallocate_span_in(h, s)
           n == h.spans[s].count
           q == IF C[s].chunks = <<>> THEN K[c] ELSE Unlink(K[c], s)
           R0 == [q EXCEPT !.total = q.total - n]
           C2 == With(C, s, Whole)
           m == Memory(h, C, K, M)
           ok == q.total >= n
<1>1. /\ s \in SpanId /\ C[s].cls = c /\ c # NoClass /\ u \in B /\ u \in Zone(h, s)
      /\ \A v : v \in B2 <=> v \in B /\ v # u
  BY DEF Inside
<1>2. /\ c \in DOMAIN Classes /\ s \in CutInto(C, c) /\ s \in Held(h) /\ Good(h) /\ CacheSound(h, C, K[c], B, c)
  BY <1>1, CutIs
<1>3. C \in [SpanId -> Cuts] /\ K \in [DOMAIN Classes -> CacheRecords] /\ Counting(K[c])
  BY <1>2 DEF Books, CacheSound, Counting
<1>4. K[c].total >= n
  BY <1>1, CountsEnough
<1>5. /\ Good(k) /\ Held(k) = Held(h) \ {s} /\ \A t \in Held(k) : k.spans[t] = h.spans[t]
  BY <1>2, DeallocKeeps
<1>6. s \in ToSet(K[c].list) <=> C[s].chunks # <<>>
  BY <1>2 DEF CacheSound
<1>7. /\ Counting(q) /\ q.used = K[c].used /\ q.total = K[c].total
      /\ \A t : t \in ToSet(q.list) <=> t # s /\ t \in ToSet(K[c].list)
  <2> DEFINE y == K[c]
  <2>1. CASE C[s].chunks = <<>>
    <3>1. q = K[c] /\ s \notin ToSet(K[c].list)
      BY <1>6, <2>1
    <3> HIDE DEF q
    <3> QED  BY <1>3, <3>1
  <2>2. CASE C[s].chunks # <<>>
    <3>1. q = Unlink(y, s) /\ s \in ToSet(y.list) /\ Counting(y)
      BY <1>3, <1>6, <2>2
    <3> HIDE DEF q, y
    <3>2. /\ Counting(q) /\ q.used = y.used /\ q.total = y.total
          /\ \A t : t \in ToSet(q.list) <=> t # s /\ t \in ToSet(y.list)
      BY <3>1, UnlinkIs
    <3> QED  BY <3>2 DEF y
  <2> QED  BY <2>1, <2>2
<1>8. n \in Nat
  BY <1>2, HeldIs DEF Span
<1>9. R0 = [q EXCEPT !.total = q.total - n] /\ C2 = With(C, s, Whole)
  OBVIOUS
<1> HIDE DEF q, R0, C2
<1>10. Counting(R0) /\ R0.list = q.list /\ R0.used = q.used /\ R0.total = q.total - n
  <2>1. q.total - n \in Int
    BY <1>7, <1>8, CountingIs
  <2> HIDE DEF n
  <2> QED  BY <1>7, <1>9, <2>1, TotalIs
<1>11. m.heap = h /\ m.cut = C /\ m.caches = K
  BY MemoryIs
<1>12. ok = TRUE
  BY <1>4, <1>7
<1>13. r = MemCheck(SetHeap(SetCut(SetCache(m, c, R0), s, Whole), k), ok)
  <2>1. SetCut(SetCache(m, c, R0), s, Whole).heap = h
    <3>1. SetCut(SetCache(m, c, R0), s, Whole) = Memory(h, With(C, s, Whole), With(K, c, R0), M)
      BY CacheSet, CutSet
    <3> QED  BY <3>1, MemoryIs
  <2>2. r = ReturnSpan(m, s, c)
    OBVIOUS
  <2> HIDE DEF m
  <2> QED  BY <1>11, <2>1, <2>2 DEF ReturnSpan, SetHeap, SetCut, SetCache, R0, q
<1>14. SetHeap(SetCut(SetCache(m, c, R0), s, Whole), k) = Memory(k, C2, With(K, c, R0), M)
  BY <1>9, CacheSet, CutSet, HeapSet
<1> HIDE DEF m, ok, k, n
<1>15. r = Memory(k, C2, With(K, c, R0), M)
  BY <1>5, <1>12, <1>13, <1>14, Asserted
<1>16. ASSUME NEW R, Counting(R), R.list = R0.list, R.total = R0.total, R.used = K[c].used - Classes[c].size
       PROVE  Books(k, C2, With(K, c, R), B2)
  <2>1. Returns(h, k, C, K, B, B2, s, c, u, R)
    BY <1>1, <1>5, <1>7, <1>10, <1>16 DEF Returns, Counting, n
  <2> QED  BY <1>9, <2>1, ReturnBooks
<1>17. RoomKept(h, C, k, C2, B2)
  <2> SUFFICES ASSUME NEW v \in B2, NEW i \in Nat, Room(h, C, v, i) PROVE Room(k, C2, v, i)
    BY DEF RoomKept
  <2>1. B2 \cap Zone(h, s) = {}
    <3>1. Begins(h, C, B2, B, s, c, u)
      <4>1. B \subseteq Unit
        BY DEF Books, BasesHeld
      <4> QED  BY <1>1, <1>2, <4>1 DEF Begins
    <3>2. Cardinality(B \cap Zone(h, s)) = Cardinality(B2 \cap Zone(h, s)) + 1 /\ Cardinality(B2 \cap Zone(h, s)) \in Nat
      BY <3>1, Begun
    <3>3. Cardinality(B \cap Zone(h, s)) = 1
      BY <1>1, CutIs DEF CutSound
    <3>4. IsFiniteSet(B2 \cap Zone(h, s))
      <4>1. B2 \subseteq Unit
        BY <3>1 DEF Begins
      <4> QED  BY <4>1, FiniteUnits
    <3>5. Cardinality(B2 \cap Zone(h, s)) = 0
      BY <3>2, <3>3
    <3> QED  BY <3>4, <3>5, FS_EmptySet
  <2>2. \A t \in Held(h) : v \in Zone(h, t) => t \in SpanId \ {s} /\ t \in Held(k) /\ k.spans[t] = h.spans[t]
    BY <1>2, <1>5, <2>1, HeldIs
  <2>3. \A t \in Held(h) : v \in Zone(h, t) =>
          /\ t \in Held(k) /\ Start(k, t) = Start(h, t) /\ End(k, t) = End(h, t)
          /\ k.spans[t].count = h.spans[t].count /\ C2[t].cls = C[t].cls
    BY <1>3, <1>9, <2>2, AlikeIs DEF With
  <2> QED  BY <2>3, RoomStep
<1> QED  BY <1>5, <1>7, <1>10, <1>15, <1>16, <1>17 DEF Replaced

\* A span that is not given back is the only empty one of its class.
LEMMA OnlyEmpty ==
  ASSUME NEW h, NEW C, NEW K, NEW B, Books(h, C, K, B), NEW s \in SpanId, NEW c, C[s].cls = c, c # NoClass,
         ~(K[c].count > IF C[s].chunks = <<>> THEN 0 ELSE 1)
  PROVE  \A t \in CutInto(C, c) \ {s} : C[t].used # 0
<1>1. /\ c \in DOMAIN Classes /\ s \in CutInto(C, c) /\ Good(h) /\ CacheSound(h, C, K[c], B, c) /\ B \subseteq Unit
  BY CutIs
<1> SUFFICES ASSUME NEW t \in CutInto(C, c) \ {s}, C[t].used = 0 PROVE FALSE
  OBVIOUS
<1>2. t \in SpanId /\ C[t].cls = c
  BY DEF CutInto
<1>3. CutSound(h, t, C[t], B)
  BY <1>2, CutIs
<1>4. C[t].chunks # <<>>
  BY <1>1, <1>3, EmptyHasChunks
<1> DEFINE S == ToSet(K[c].list)
<1>5. t \in S /\ (C[s].chunks # <<>> => s \in S)
  BY <1>1, <1>4 DEF CacheSound
<1>6. Counting(K[c])
  BY <1>1 DEF Books, CacheSound, Counting
<1>7. IsFiniteSet(S) /\ K[c].count = Cardinality(S)
  BY <1>6, CountingIs DEF Counting
<1> DEFINE T == S \ {t}
<1>8. T = S \ {t}
  OBVIOUS
<1> HIDE DEF S, T
<1>9. IsFiniteSet(T) /\ Cardinality(T) = Cardinality(S) - 1 /\ Cardinality(S) \in Nat \ {0}
  BY <1>5, <1>7, <1>8, OneLess
<1>10. CASE C[s].chunks = <<>>
  BY <1>7, <1>9, <1>10
<1>11. CASE C[s].chunks # <<>>
  <2>1. s \in T
    BY <1>5, <1>8, <1>11
  <2>2. Cardinality(T) \in Nat \ {0}
    <3> DEFINE U == T \ {s}
    <3>1. U = T \ {s}
      OBVIOUS
    <3> HIDE DEF U
    <3> QED  BY <1>9, <2>1, <3>1, OneLess
  <2> QED  BY <1>7, <1>9, <1>11, <2>2
<1> QED  BY <1>10, <1>11

\* The chunk goes back to a span that stays.
LEMMA StayReplaced ==
  ASSUME NEW h, NEW C, NEW K, NEW B, Books(h, C, K, B), NEW B2, NEW s, NEW c, NEW u, Inside(h, C, B, B2, s, c, u),
         NEW x, x = recycle(C[s], u), x.used = 0 => \A t \in CutInto(C, c) \ {s} : C[t].used # 0,
         NEW R0, Counting(R0), R0.used = K[c].used, R0.total = K[c].total,
         \A t : t \in ToSet(R0.list) <=> t = s \/ t \in ToSet(K[c].list),
         NEW M, NEW r, r = Memory(h, With(C, s, x), With(K, c, R0), M)
  PROVE  Replaced(h, C, K, B2, M, c, r)
<1>1. /\ s \in SpanId /\ C[s].cls = c /\ c # NoClass /\ u \in B /\ u \in Zone(h, s)
      /\ \A v : v \in B2 <=> v \in B /\ v # u
  BY DEF Inside
<1>2. /\ c \in DOMAIN Classes /\ s \in Held(h) /\ Good(h) /\ C[s] \in Cuts /\ C[s].chunks \in Seq(Nat)
      /\ C \in [SpanId -> Cuts]
  BY <1>1, CutIs DEF Books
<1>3. x \in Cuts /\ x.cls = c /\ x.used = C[s].used - 1 /\ x.chunks = <<u>> \o C[s].chunks
  <2> DEFINE y == C[s]
             l == <<u>> \o y.chunks
             i == y.used - 1
  <2>1. u \in Nat /\ y \in Cuts /\ y.cls = c
    BY <1>1, <1>2, AllocConstants DEF Zone
  <2>2. l \in Seq(Nat) /\ i \in Int
    BY <1>2, <2>1 DEF Cuts
  <2>3. x = [[y EXCEPT !.used = i] EXCEPT !.chunks = l]
    BY <2>1 DEF recycle, Cuts
  <2> HIDE DEF y, l, i
  <2>4. x \in Cuts /\ x.cls = c /\ x.used = i /\ x.chunks = l
    BY <2>1, <2>2, <2>3 DEF Cuts
  <2> QED  BY <2>4 DEF y, l, i
<1>4. ASSUME NEW R, Counting(R), R.list = R0.list, R.total = R0.total, R.used = K[c].used - Classes[c].size
      PROVE  Books(h, With(C, s, x), With(K, c, R), B2)
  <2>1. Puts(h, C, K, B, B2, s, c, u, x, R)
    BY <1>1, <1>3, <1>4 DEF Puts, Counting
  <2> QED  BY <2>1, PutBooks
<1>5. RoomKept(h, C, h, With(C, s, x), B2)
  <2> SUFFICES ASSUME NEW v \in B2, NEW i \in Nat, Room(h, C, v, i) PROVE Room(h, With(C, s, x), v, i)
    BY DEF RoomKept
  <2>1. \A t \in Held(h) : With(C, s, x)[t].cls = C[t].cls
    BY <1>1, <1>2, <1>3, HeldIs DEF With
  <2> QED  BY <2>1, RoomStep
<1> QED  BY <1>2, <1>4, <1>5 DEF Replaced

LEMMA ReplaceReplaced ==
  ASSUME NEW h, NEW C, NEW K, NEW B, Books(h, C, K, B), NEW B2, NEW s, NEW c, NEW u, Inside(h, C, B, B2, s, c, u),
         NEW x, x = recycle(C[s], u), NEW M, NEW r, r = Replace(Memory(h, C, K, M), s, c, x)
  PROVE  Replaced(h, C, K, B2, M, c, r)
<1> DEFINE m == Memory(h, C, K, M)
<1>1. /\ s \in SpanId /\ C[s].cls = c /\ c # NoClass /\ u \in B /\ u \in Zone(h, s)
      /\ \A v : v \in B2 <=> v \in B /\ v # u
  BY DEF Inside
<1>2. /\ c \in DOMAIN Classes /\ s \in CutInto(C, c) /\ s \in Held(h) /\ Good(h) /\ CacheSound(h, C, K[c], B, c)
      /\ C[s] \in Cuts
  BY <1>1, CutIs
<1>3. C \in [SpanId -> Cuts] /\ K \in [DOMAIN Classes -> CacheRecords] /\ Counting(K[c])
  BY <1>2 DEF Books, CacheSound, Counting
<1>4. C[s].used \in Nat \ {0} /\ x.used = C[s].used - 1
  <2>1. C[s].used \in Nat \ {0}
    BY <1>1, CountsEnough
  <2>2. x.used = C[s].used - 1
    BY <1>2 DEF recycle, Cuts
  <2> QED  BY <2>1, <2>2
<1>5. s \in ToSet(K[c].list) <=> C[s].chunks # <<>>
  BY <1>2 DEF CacheSound
<1>6. m.heap = h /\ m.cut = C /\ m.caches = K
  BY MemoryIs
<1> DEFINE spare == K[c].count > IF C[s].chunks = <<>> THEN 0 ELSE 1
<1>7. Spareable(m, s, c) <=> spare
  <2> HIDE DEF m
  <2> QED  BY <1>6 DEF Spareable
<1>8. r = Replace(m, s, c, x)
  OBVIOUS
<1>9. CASE x.used <= 0 /\ spare
  <2>1. r = ReturnSpan(m, s, c)
    <3> HIDE DEF m, spare
    <3> QED  BY <1>7, <1>8, <1>9 DEF Replace
  <2>2. C[s].used = 1
    BY <1>4, <1>9
  <2> QED  BY <2>1, <2>2, ReturnReplaced
<1>10. ~(x.used <= 0 /\ spare) => (x.used = 0 => \A t \in CutInto(C, c) \ {s} : C[t].used # 0)
  <2> SUFFICES ASSUME ~spare PROVE \A t \in CutInto(C, c) \ {s} : C[t].used # 0
    BY <1>4
  <2> QED  BY <1>1, OnlyEmpty
<1>11. CASE C[s].chunks = <<>> /\ ~(x.used <= 0 /\ spare)
  <2> DEFINE R0 == Prepend(K[c], s)
             ok == s \notin ToSet(K[c].list)
  <2>1. r = MemCheck(SetCache(SetCut(m, s, x), c, R0), ok)
    <3>1. SetCut(m, s, x).caches = K
      BY CutSet, MemoryIs
    <3> HIDE DEF m, spare
    <3> QED  BY <1>6, <1>7, <1>8, <1>11, <3>1 DEF Replace, SetCut, SetCache
  <2>2. ok = TRUE
    BY <1>5, <1>11
  <2>3. R0 = Prepend(K[c], s)
    OBVIOUS
  <2> HIDE DEF R0
  <2>4. SetCache(SetCut(m, s, x), c, R0) = Memory(h, With(C, s, x), With(K, c, R0), M)
    BY CutSet, CacheSet
  <2>5. r = Memory(h, With(C, s, x), With(K, c, R0), M)
    <3> HIDE DEF ok, m
    <3> QED  BY <1>2, <2>1, <2>2, <2>4, Asserted
  <2>6. /\ Counting(R0) /\ R0.used = K[c].used /\ R0.total = K[c].total
        /\ \A t : t \in ToSet(R0.list) <=> t = s \/ t \in ToSet(K[c].list)
    <3> DEFINE y == K[c]
    <3>1. Counting(y) /\ s \notin ToSet(y.list) /\ R0 = Prepend(y, s)
      BY <1>3, <2>2, <2>3
    <3> HIDE DEF y
    <3>2. /\ Counting(R0) /\ R0.used = y.used /\ R0.total = y.total
          /\ \A t : t \in ToSet(R0.list) <=> t = s \/ t \in ToSet(y.list)
      BY <1>1, <3>1, PrependIs
    <3> QED  BY <3>2 DEF y
  <2>7. x.used = 0 => \A t \in CutInto(C, c) \ {s} : C[t].used # 0
    BY <1>10, <1>11
  <2> HIDE DEF m, ok
  <2> QED  BY <2>5, <2>6, <2>7, StayReplaced
<1>12. CASE C[s].chunks # <<>> /\ ~(x.used <= 0 /\ spare)
  <2>1. r = SetCut(m, s, x)
    <3> HIDE DEF m, spare
    <3> QED  BY <1>6, <1>7, <1>8, <1>12 DEF Replace, SetCut
  <2>2. SetCut(m, s, x) = Memory(h, With(C, s, x), K, M)
    BY CutSet
  <2>3. With(K, c, K[c]) = K
    BY <1>2, <1>3 DEF With
  <2>4. r = Memory(h, With(C, s, x), With(K, c, K[c]), M)
    <3> HIDE DEF m
    <3> QED  BY <2>1, <2>2, <2>3
  <2>5. \A t : t \in ToSet(K[c].list) <=> t = s \/ t \in ToSet(K[c].list)
    BY <1>5, <1>12
  <2>6. x.used = 0 => \A t \in CutInto(C, c) \ {s} : C[t].used # 0
    BY <1>10, <1>12
  <2> DEFINE R0 == K[c]
  <2>7. /\ r = Memory(h, With(C, s, x), With(K, c, R0), M) /\ Counting(R0) /\ R0.used = K[c].used /\ R0.total = K[c].total
        /\ \A t : t \in ToSet(R0.list) <=> t = s \/ t \in ToSet(K[c].list)
    BY <1>3, <2>4, <2>5
  <2> HIDE DEF m, R0
  <2> QED  BY <2>6, <2>7, StayReplaced
<1> QED  BY <1>9, <1>11, <1>12

\* The object at u is gone and the others, at B2, are as they were.
Freed(h, C, M, B2, u, r) ==
  \E k, C2, K2, M2 :
    /\ r = Memory(k, C2, K2, M2) /\ Books(k, C2, K2, B2) /\ RoomKept(h, C, k, C2, B2)
    /\ M2 \in [Unit -> Nat] /\ M2[u] = 0 /\ \A v \in Unit \ {u} : M2[v] = M[v]

LEMMA Uncounted ==
  ASSUME NEW k, Good(k), NEW C, NEW K, NEW M, NEW c, c \in DOMAIN K, NEW R0, Counting(R0), NEW n \in Nat, R0.used >= n,
         n = Classes[c].size, NEW r, r = Uncount(Memory(k, C, With(K, c, R0), M), c)
  PROVE  \E R : /\ Counting(R) /\ R.list = R0.list /\ R.total = R0.total /\ R.used = R0.used - n
                /\ r = Memory(k, C, With(K, c, R), M)
<1> DEFINE m == Memory(k, C, With(K, c, R0), M)
           R == [R0 EXCEPT !.used = R0.used - n]
           ok == R0.used >= n
<1>1. Counting(R) /\ R.list = R0.list /\ R.used = R0.used - n /\ R.total = R0.total
  <2>1. R0.used - n \in Int
    BY CountingIs
  <2> DEFINE x == R0.used - n
  <2>2. R = [R0 EXCEPT !.used = x] /\ x \in Int
    BY <2>1
  <2> HIDE DEF x, R
  <2>3. Counting(R) /\ R.list = R0.list /\ R.used = x /\ R.total = R0.total
    BY <2>2, UsedIs
  <2> QED  BY <2>3 DEF x
<1>2. m.caches = With(K, c, R0)
  BY MemoryIs
<1>3. With(K, c, R0)[c] = R0
  BY DEF With
<1>4. r = MemCheck(SetCache(m, c, R), ok)
  <2>1. r = Uncount(m, c)
    OBVIOUS
  <2>2. m.caches[c] = R0
    BY <1>2, <1>3
  <2> HIDE DEF m
  <2> QED  BY <2>1, <2>2 DEF Uncount, SetCache
<1>5. SetCache(m, c, R) = Memory(k, C, With(With(K, c, R0), c, R), M)
  <2> HIDE DEF R
  <2> QED  BY CacheSet
<1>6. With(With(K, c, R0), c, R) = With(K, c, R)
  <2> HIDE DEF R
  <2> QED  BY DEF With
<1>7. ok = TRUE
  OBVIOUS
<1> HIDE DEF ok, R, m
<1>8. r = Memory(k, C, With(K, c, R), M)
  BY <1>4, <1>5, <1>6, <1>7, Asserted
<1> QED  BY <1>1, <1>8

\* deallocate_chunk() frees the object of a chunk.
LEMMA ChunkFreed ==
  ASSUME NEW h, NEW C, NEW K, NEW B, Books(h, C, K, B), NEW B2, NEW s, NEW c, NEW u, Inside(h, C, B, B2, s, c, u),
         NEW M \in [Unit -> Nat], NEW r, r = deallocate_chunk(Memory(h, C, K, M), u, s)
  PROVE  Freed(h, C, M, B2, u, r)
<1> DEFINE m == Memory(h, C, K, M)
           ok == C[s].used > 0
           M2 == Cleared(M, {u})
           x == recycle(C[s], u)
           g == Memory(h, C, K, M2)
           q == Replace(g, s, c, x)
<1>1. /\ s \in SpanId /\ C[s].cls = c /\ c # NoClass /\ u \in B /\ u \in Zone(h, s)
  BY DEF Inside
<1>2. c \in DOMAIN Classes /\ Good(h) /\ K \in [DOMAIN Classes -> CacheRecords]
  <2>1. c \in DOMAIN Classes
    BY <1>1, CutIs
  <2> QED  BY <2>1 DEF Books
<1>3. K[c].used >= Classes[c].size /\ C[s].used \in Nat \ {0}
  BY <1>1, CountsEnough
<1>4. ok = TRUE
  BY <1>3
<1>5. m.cut = C
  BY MemoryIs
<1>6. r = Uncount(Replace(Unmeta(MemCheck(m, ok), {u}), s, c, x), c)
  <2>1. r = deallocate_chunk(m, u, s)
    OBVIOUS
  <2> HIDE DEF m
  <2> QED  BY <1>1, <1>5, <2>1 DEF deallocate_chunk
<1>7. Unmeta(MemCheck(m, ok), {u}) = g
  <2>1. Unmeta(m, {u}) = g
    BY UnmetaIs
  <2>2. MemCheck(m, ok) = m
    <3> HIDE DEF ok
    <3> QED  BY <1>2, <1>4, Asserted
  <2> HIDE DEF ok, m, g
  <2> QED  BY <2>1, <2>2
<1>8. r = Uncount(q, c)
  BY <1>6, <1>7
<1>9. Replaced(h, C, K, B2, M2, c, q)
  <2>1. x = recycle(C[s], u) /\ q = Replace(Memory(h, C, K, M2), s, c, x)
    OBVIOUS
  <2> HIDE DEF x, q, M2
  <2> QED  BY <2>1, ReplaceReplaced
<1>10. M2 \in [Unit -> Nat] /\ M2[u] = 0 /\ \A v \in Unit \ {u} : M2[v] = M[v]
  <2>1. u \in Unit
    BY <1>1 DEF Zone
  <2> QED  BY <2>1 DEF Cleared
<1> HIDE DEF q, M2
<1>11. PICK k, C2, R0 :
         /\ q = Memory(k, C2, With(K, c, R0), M2)
         /\ Good(k) /\ Counting(R0) /\ R0.used = K[c].used
         /\ \A R : Counting(R) /\ R.list = R0.list /\ R.total = R0.total /\ R.used = K[c].used - Classes[c].size =>
              Books(k, C2, With(K, c, R), B2)
         /\ RoomKept(h, C, k, C2, B2)
  BY <1>9 DEF Replaced
<1>12. PICK R : /\ Counting(R) /\ R.list = R0.list /\ R.total = R0.total /\ R.used = R0.used - Classes[c].size
                /\ r = Memory(k, C2, With(K, c, R), M2)
  <2> DEFINE n == Classes[c].size
  <2>1. n \in Nat /\ R0.used >= n /\ c \in DOMAIN K
    BY <1>2, <1>3, <1>11, AllocConstants
  <2>2. n = Classes[c].size /\ r = Uncount(Memory(k, C2, With(K, c, R0), M2), c)
    BY <1>8, <1>11
  <2> HIDE DEF n
  <2>3. \E R : /\ Counting(R) /\ R.list = R0.list /\ R.total = R0.total /\ R.used = R0.used - n
               /\ r = Memory(k, C2, With(K, c, R), M2)
    BY <1>11, <2>1, <2>2, Uncounted
  <2> QED  BY <2>3 DEF n
<1>13. Books(k, C2, With(K, c, R), B2)
  BY <1>11, <1>12
<1> QED  BY <1>10, <1>11, <1>12, <1>13 DEF Freed

\* free() of a live object, at u.  It is found in a span, cut or not.
LEMMA FreeFreed ==
  ASSUME NEW h, NEW C, NEW K, NEW B, Books(h, C, K, B), NEW B2, NEW u \in B, \A v : v \in B2 <=> v \in B /\ v # u,
         NEW M \in [Unit -> Nat], NEW ptr, ptr.offset - Meta = u, M[u] = ptr.serial,
         NEW r, r = FreeIn(Memory(h, C, K, M), ptr)
  PROVE  Freed(h, C, M, B2, u, r)
<1> DEFINE m == Memory(h, C, K, M)
           M2 == With(M, u, 0)
           g == Memory(h, C, K, M2)
<1>1. PICK s \in Held(h) : u \in Zone(h, s) /\ (C[s].cls = NoClass => u = Start(h, s) * PAGE_SIZE)
  BY DEF Books, BasesHeld
<1>2. Good(h) /\ s \in SpanId /\ s # Null /\ u \in Unit
  BY <1>1, HeldIs DEF Books, Zone
<1>3. C[s] \in Cuts /\ (C[s].cls = NoClass => C[s] = Whole) /\ (C[s].cls # NoClass => CutSound(h, s, C[s], B))
  BY <1>2, Classed
<1>4. h.map[u \div PAGE_SIZE] = s
  BY <1>1, <1>2, <1>3, HomeIs DEF CutSound
<1>5. m.heap = h /\ m.cut = C /\ m.meta = M
  BY MemoryIs
<1>6. M2 \in [Unit -> Nat] /\ M2[u] = 0 /\ \A v \in Unit \ {u} : M2[v] = M[v]
  BY <1>2 DEF With
<1>7. SetMetaAt(m, u, 0) = g
  BY MetaAtSet
<1>8. r = FreeIn(m, ptr) /\ g.heap = h
  BY MemoryIs
<1>9. CASE C[s].cls = NoClass
  <2> DEFINE k == deallocate_span_in(h, s)
             ok == C[s] = Whole
  <2>1. r = MemCheck(SetHeap(g, k), ok)
    <3> HIDE DEF m, g
    <3> QED  BY <1>2, <1>4, <1>5, <1>7, <1>8, <1>9 DEF FreeIn, SetMetaAt, SetHeap
  <2>2. Good(k) /\ Held(k) = Held(h) \ {s} /\ \A t \in Held(k) : k.spans[t] = h.spans[t]
    BY <1>2, DeallocKeeps
  <2>3. ok = TRUE
    BY <1>3, <1>9
  <2> HIDE DEF k
  <2>4. SetHeap(g, k) = Memory(k, C, K, M2)
    <3> HIDE DEF M2
    <3> QED  BY HeapSet
  <2>5. r = Memory(k, C, K, M2)
    <3> HIDE DEF ok, M2, g
    <3> QED  BY <2>1, <2>2, <2>3, <2>4, Asserted
  <2>6. Books(k, C, K, B2)
    <3>1. Books(k, C, K, B \ {Start(h, s) * PAGE_SIZE})
      BY <1>3, <1>9, <2>2, FreeWholeBooks
    <3>2. B2 = B \ {Start(h, s) * PAGE_SIZE}
      BY <1>1, <1>9
    <3> QED  BY <3>1, <3>2
  <2>7. RoomKept(h, C, k, C, B2)
    <3> SUFFICES ASSUME NEW v \in B2, NEW i \in Nat, Room(h, C, v, i) PROVE Room(k, C, v, i)
      BY DEF RoomKept
    <3>1. v \notin Zone(h, s)
      <4> SUFFICES ASSUME v \in Zone(h, s) PROVE FALSE
        OBVIOUS
      <4>1. PICK t \in Held(h) : v \in Zone(h, t) /\ (C[t].cls = NoClass => v = Start(h, t) * PAGE_SIZE)
        BY DEF Books, BasesHeld
      <4>2. t = s
        BY <1>2, <4>1, ZonesApart
      <4> QED  BY <1>1, <1>9, <4>1, <4>2
    <3>2. \A t \in Held(h) : v \in Zone(h, t) => t \in Held(k) /\ k.spans[t] = h.spans[t]
      BY <2>2, <3>1
    <3>3. \A t \in Held(h) : v \in Zone(h, t) =>
            /\ t \in Held(k) /\ Start(k, t) = Start(h, t) /\ End(k, t) = End(h, t)
            /\ k.spans[t].count = h.spans[t].count /\ C[t].cls = C[t].cls
      BY <3>2, AlikeIs
    <3> QED  BY <3>3, RoomStep
  <2> HIDE DEF M2
  <2> QED  BY <1>6, <2>5, <2>6, <2>7 DEF Freed
<1>10. CASE C[s].cls # NoClass
  <2> DEFINE c == C[s].cls
  <2>1. r = deallocate_chunk(g, u, s)
    <3> HIDE DEF m, g
    <3> QED  BY <1>2, <1>4, <1>5, <1>7, <1>8, <1>10 DEF FreeIn, SetMetaAt
  <2>2. Inside(h, C, B, B2, s, c, u)
    BY <1>1, <1>2, <1>10 DEF Inside
  <2> HIDE DEF c, M2
  <2>3. Freed(h, C, M2, B2, u, r)
    BY <1>6, <2>1, <2>2, ChunkFreed
  <2>4. PICK k, C2, K2, M3 :
          /\ r = Memory(k, C2, K2, M3) /\ Books(k, C2, K2, B2) /\ RoomKept(h, C, k, C2, B2)
          /\ M3 \in [Unit -> Nat] /\ M3[u] = 0 /\ \A v \in Unit \ {u} : M3[v] = M2[v]
    BY <2>3 DEF Freed
  <2>5. \A v \in Unit \ {u} : M3[v] = M[v]
    BY <1>6, <2>4
  <2> QED  BY <2>4, <2>5 DEF Freed
<1> QED  BY <1>9, <1>10

\* A pointer that is out of date changes nothing.
LEMMA FreeIgnored ==
  ASSUME NEW h, NEW C, NEW K, NEW M, NEW ptr, M[ptr.offset - Meta] # ptr.serial,
         NEW r, r = FreeIn(Memory(h, C, K, M), ptr)
  PROVE  r = Memory(h, C, K, M)
<1> DEFINE m == Memory(h, C, K, M)
<1>1. m.meta = M /\ r = FreeIn(m, ptr)
  BY MemoryIs
<1> HIDE DEF m
<1>2. r = m
  BY <1>1 DEF FreeIn
<1> QED  BY <1>2 DEF m
-----------------------------------------------------------------------------
(* Pointers *)

\* The next object takes the next serial number.
LEMMA TurnTaken ==
  ASSUME NEW g, IsFiniteSet(g), NEW n \in MIN_VALID_SERIAL_NUM .. MaxSerial, InTurn(g, n), \A o \in g : o \in Object,
         NEW x \in Object, x.ptr.serial = n, x.born = Cardinality(g) + 1, NEW g2, g2 = g \cup {x}
  PROVE  /\ NextSerial(n) \in MIN_VALID_SERIAL_NUM .. MaxSerial /\ InTurn(g2, NextSerial(n))
         /\ x \notin g /\ \A o \in g : o.born <= x.born
<1> DEFINE N == Cardinality(g)
           n2 == NextSerial(n)
<1>1. /\ \A o \in g : o.born \in 1 .. N
      /\ \A o, p \in g : o.born = p.born => o = p
      /\ \A o, p \in g : o.ptr.serial = p.ptr.serial /\ p.born < o.born => o.born - p.born >= Period
      /\ \A o \in g : N + 1 - o.born >= Period \/ N + 1 - o.born = Ago(o.ptr.serial, n)
  BY DEF InTurn
<1>2. N \in Nat /\ MaxSerial \in Nat /\ MaxSerial >= 3 /\ Period = MaxSerial - 2 /\ n \in 3 .. MaxSerial
  BY AllocAssumption, FS_CardinalityType DEF Period, MIN_VALID_SERIAL_NUM
<1>3. n2 \in 3 .. MaxSerial /\ n2 = IF n = MaxSerial THEN 3 ELSE n + 1
  BY <1>2 DEF NextSerial, MIN_VALID_SERIAL_NUM
<1>4. \A o \in g2 : o.ptr.serial \in 3 .. MaxSerial /\ o.born \in Nat
  BY DEF Object, MIN_VALID_SERIAL_NUM
<1>5. x.born = N + 1
  OBVIOUS
<1> HIDE DEF N, n2
<1>6. x \notin g /\ \A o \in g : o.born <= x.born
  BY <1>1, <1>2, <1>5
<1>7. Cardinality(g2) = N + 1
  BY <1>6, FS_AddElement DEF N
<1>8. \A o \in g2 : o.born \in 1 .. N + 1
  BY <1>1, <1>2, <1>5
<1>9. \A o, p \in g2 : o.born = p.born => o = p
  BY <1>1, <1>2, <1>5
<1>10. \A o, p \in g2 : o.ptr.serial = p.ptr.serial /\ p.born < o.born => o.born - p.born >= Period
  <2> SUFFICES ASSUME NEW o \in g2, NEW p \in g2, o.ptr.serial = p.ptr.serial, p.born < o.born
               PROVE  o.born - p.born >= Period
    OBVIOUS
  <2>1. CASE o \in g /\ p \in g
    BY <1>1, <2>1
  <2>2. CASE o = x /\ p \in g
    <3>1. Ago(p.ptr.serial, n) = Period
      BY <1>2, <2>2 DEF Ago
    <3> QED  BY <1>1, <1>2, <1>5, <2>2, <3>1
  <2>3. CASE p = x
    BY <1>2, <1>4, <1>5, <1>8, <2>3
  <2> QED  BY <2>1, <2>2, <2>3
<1>11. \A o \in g2 : N + 2 - o.born >= Period \/ N + 2 - o.born = Ago(o.ptr.serial, n2)
  <2> SUFFICES ASSUME NEW o \in g2 PROVE N + 2 - o.born >= Period \/ N + 2 - o.born = Ago(o.ptr.serial, n2)
    OBVIOUS
  <2> DEFINE a == o.ptr.serial
             b == o.born
  <2>1. a \in 3 .. MaxSerial /\ b \in Nat
    BY <1>4
  <2>2. CASE o = x
    <3>1. a = n /\ b = N + 1
      BY <1>5, <2>2
    <3> HIDE DEF a, b
    <3>2. Ago(n, n2) = 1
      BY <1>2, <1>3 DEF Ago
    <3> QED  BY <1>2, <3>1, <3>2 DEF a, b
  <2>3. CASE o \in g
    <3>1. N + 1 - b >= Period \/ N + 1 - b = Ago(a, n)
      BY <1>1, <2>3
    <3> HIDE DEF a, b
    <3>2. N + 2 - b >= Period \/ N + 2 - b = Ago(a, n2)
      BY <1>2, <1>3, <2>1, <3>1 DEF Ago
    <3> QED  BY <3>2 DEF a, b
  <2> QED  BY <2>2, <2>3
<1>12. \A o \in g2 : Cardinality(g2) + 1 - o.born = N + 2 - o.born
  BY <1>2, <1>4, <1>7
<1>13. InTurn(g2, n2)
  BY <1>7, <1>8, <1>9, <1>10, <1>11, <1>12 DEF InTurn
<1> QED  BY <1>3, <1>6, <1>13 DEF n2, MIN_VALID_SERIAL_NUM

\* A pointer is good exactly when a live object has it, and then one object.
LEMMA PointerGood ==
  ASSUME NEW M, NEW g, NEW l, l \subseteq g, \A o \in g : o \in Object /\ Base(o) \in Unit, LiveKept(M, g, l), NEW p \in g
  PROVE  /\ M[Base(p)] = p.ptr.serial <=> \E o \in l : o.ptr = p.ptr
         /\ \A o \in l : o.ptr = p.ptr <=> M[Base(p)] = p.ptr.serial /\ Base(o) = Base(p)
<1>1. p.ptr.serial # 0
  BY DEF Object, MIN_VALID_SERIAL_NUM
<1>2. \A o \in g : /\ o.ptr = [serial |-> o.ptr.serial, offset |-> o.ptr.offset] /\ o.ptr.offset \in Nat
  BY DEF Object
<1>3. \A o \in l : o.ptr = p.ptr => M[Base(p)] = p.ptr.serial /\ Base(o) = Base(p)
  BY DEF LiveKept, Base
<1>4. ASSUME NEW o \in l, Base(o) = Base(p), M[Base(p)] = p.ptr.serial PROVE o.ptr = p.ptr
  <2>1. o.ptr.serial = p.ptr.serial
    BY <1>4 DEF LiveKept
  <2> DEFINE a == o.ptr.offset
             b == p.ptr.offset
  <2>2. a \in Nat /\ b \in Nat
    BY <1>2
  <2>3. a - 1 = b - 1
    BY <1>4 DEF Base, Meta
  <2> HIDE DEF a, b
  <2>4. a = b
    BY <2>2, <2>3
  <2> QED  BY <1>2, <2>1, <2>4 DEF a, b
<1>5. ASSUME M[Base(p)] = p.ptr.serial PROVE \E o \in l : Base(o) = Base(p)
  BY <1>1, <1>5 DEF LiveKept, Bases
<1> QED  BY <1>3, <1>4, <1>5

-----------------------------------------------------------------------------
(* malloc() and free() keep account *)

\* No memory was found: nothing changes for the objects.
LEMMA NothingFound ==
  ASSUME NEW h, NEW C, NEW K, NEW M, NEW g, NEW l, NEW n, Accounted(h, C, K, M, g, l, n),
         NEW size, NEW got, Found(h, C, M, Bases(l), got, size), got.units = {}
  PROVE  \E k, C2, K2, M2 : got.mem = Memory(k, C2, K2, M2) /\ Accounted(k, C2, K2, M2, g, l, n)
<1> DEFINE B == Bases(l)
<1>1. PICK k, C2, K2, M2 : /\ got.mem = Memory(k, C2, K2, M2) /\ MetaKept(M, M2, B) /\ RoomKept(h, C, k, C2, B)
                           /\ Books(k, C2, K2, B)
  BY DEF Found
<1>2. \A o \in l : Base(o) \in B /\ o.size + Meta \in Nat
  BY DEF Accounted, Object, Bases, Meta
<1>3. \A o \in l : Room(k, C2, Base(o), o.size + Meta)
  BY <1>1, <1>2 DEF Accounted, RoomKept
<1>4. M2 \in [Unit -> Nat] /\ LiveKept(M2, g, l)
  <2>1. \A o \in l : M2[Base(o)] = o.ptr.serial
    BY <1>1, <1>2 DEF Accounted, LiveKept, MetaKept
  <2>2. \A u \in Unit \ B : M2[u] = 0
    BY <1>1 DEF Accounted, LiveKept, MetaKept
  <2> QED  BY <1>1, <2>1, <2>2 DEF Accounted, LiveKept, MetaKept
<1> QED  BY <1>1, <1>3, <1>4 DEF Accounted

\* Memory was found at u, for an object x.
LEMMA SomethingFound ==
  ASSUME NEW h, NEW C, NEW K, NEW M, NEW g, NEW l, NEW n, Accounted(h, C, K, M, g, l, n),
         NEW x \in Object, x.ptr.serial = n, x.born = Cardinality(g) + 1,
         NEW got, Found(h, C, M, Bases(l), got, x.size + Meta), NEW u \in got.units, Base(x) = u,
         NEW r, r = SetMetaAt(got.mem, u, n)
  PROVE  \E k, C2, K2, M2 : /\ r = Memory(k, C2, K2, M2)
                            /\ Accounted(k, C2, K2, M2, g \cup {x}, l \cup {x}, NextSerial(n))
<1> DEFINE B == Bases(l)
           g2 == g \cup {x}
           l2 == l \cup {x}
<1>1. PICK k, C2, K2, M1 : /\ got.mem = Memory(k, C2, K2, M1) /\ MetaKept(M, M1, B) /\ RoomKept(h, C, k, C2, B)
                           /\ u \in Unit \ B /\ Books(k, C2, K2, B \cup {u}) /\ Room(k, C2, u, x.size + Meta)
  BY DEF Found
<1> DEFINE M2 == With(M1, u, n)
<1>2. r = Memory(k, C2, K2, M2)
  BY <1>1, MetaAtSet
<1>3. n \in Nat /\ M1 \in [Unit -> Nat]
  BY <1>1 DEF Accounted, MIN_VALID_SERIAL_NUM, MetaKept
<1>4. M2 \in [Unit -> Nat] /\ M2[u] = n /\ \A v \in Unit \ {u} : M2[v] = M1[v]
  BY <1>1, <1>3 DEF With
<1> HIDE DEF M2
<1>5. \A o \in l : Base(o) \in B /\ Base(o) # u /\ Base(o) \in Unit /\ o.size + Meta \in Nat
  BY <1>1 DEF Accounted, Object, Bases, Meta
<1>6. Bases(l2) = B \cup {u}
  BY DEF Bases
<1>7. \A o \in l2 : Room(k, C2, Base(o), o.size + Meta)
  BY <1>1, <1>5 DEF Accounted, RoomKept
<1>8. /\ NextSerial(n) \in MIN_VALID_SERIAL_NUM .. MaxSerial /\ InTurn(g2, NextSerial(n))
      /\ \A o \in g : o.born <= x.born
  BY TurnTaken DEF Accounted
<1>9. LiveKept(M2, g2, l2)
  <2>1. \A o, p \in l2 : Base(o) = Base(p) => o = p
    BY <1>5 DEF Accounted, LiveKept
  <2>2. \A o \in l2, p \in g2 : Base(o) = Base(p) => p.born <= o.born
    <3>1. x.born <= x.born
      BY DEF Object
    <3> QED  BY <1>5, <1>8, <3>1 DEF Accounted, LiveKept
  <2>3. \A o \in l2 : M2[Base(o)] = o.ptr.serial
    BY <1>1, <1>4, <1>5 DEF Accounted, LiveKept, MetaKept
  <2>4. \A v \in Unit \ Bases(l2) : M2[v] = 0
    BY <1>1, <1>4, <1>6 DEF Accounted, LiveKept, MetaKept
  <2> QED  BY <2>1, <2>2, <2>3, <2>4 DEF LiveKept
<1>10. l2 \subseteq g2 /\ IsFiniteSet(g2) /\ \A o \in g2 : o \in Object /\ Base(o) \in Unit
  BY <1>1, FS_AddElement DEF Accounted
<1>11. Accounted(k, C2, K2, M2, g2, l2, NextSerial(n))
  BY <1>1, <1>4, <1>6, <1>7, <1>8, <1>9, <1>10 DEF Accounted
<1> QED  BY <1>2, <1>11

\* A pointer p.ptr is freed, good or not: afterwards no live object has it.
LEMMA PointerFreed ==
  ASSUME NEW h, NEW C, NEW K, NEW M, NEW g, NEW l, NEW n, Accounted(h, C, K, M, g, l, n), NEW p \in g,
         NEW r, r = FreeIn(Memory(h, C, K, M), p.ptr), NEW l2, \A o : o \in l2 <=> o \in l /\ o.ptr # p.ptr
  PROVE  \E k, C2, K2, M2 : r = Memory(k, C2, K2, M2) /\ Accounted(k, C2, K2, M2, g, l2, n)
<1> DEFINE u == Base(p)
<1>1. /\ l \subseteq g /\ \A o \in g : o \in Object /\ Base(o) \in Unit
      /\ LiveKept(M, g, l) /\ M \in [Unit -> Nat] /\ Books(h, C, K, Bases(l))
  BY DEF Accounted
<1>2. /\ M[u] = p.ptr.serial <=> \E o \in l : o.ptr = p.ptr
      /\ \A o \in l : o.ptr = p.ptr <=> M[u] = p.ptr.serial /\ Base(o) = u
  BY <1>1, PointerGood
<1>3. CASE M[u] # p.ptr.serial
  <2>1. l2 = l
    BY <1>2, <1>3
  <2>2. r = Memory(h, C, K, M)
    <3>1. M[p.ptr.offset - Meta] # p.ptr.serial
      BY <1>3 DEF Base
    <3> QED  BY <3>1, FreeIgnored
  <2> QED  BY <2>1, <2>2
<1>4. CASE M[u] = p.ptr.serial
  <2> DEFINE B == Bases(l)
             B2 == Bases(l2)
             q == p.ptr
  <2>1. u \in B /\ \A v : v \in B2 <=> v \in B /\ v # u
    BY <1>2, <1>4 DEF Bases
  <2>2. q.offset - Meta = u /\ M[u] = q.serial /\ r = FreeIn(Memory(h, C, K, M), q)
    BY <1>4 DEF Base
  <2>3. \A o \in l2 : o \in l /\ Base(o) # u /\ Base(o) \in B2 /\ Base(o) \in Unit
    BY <1>1, <1>2, <1>4 DEF Bases
  <2> HIDE DEF u, B, B2, q
  <2>4. Freed(h, C, M, B2, u, r)
    BY <1>1, <2>1, <2>2, FreeFreed DEF B
  <2>5. PICK k, C2, K2, M2 :
          /\ r = Memory(k, C2, K2, M2) /\ Books(k, C2, K2, B2) /\ RoomKept(h, C, k, C2, B2)
          /\ M2 \in [Unit -> Nat] /\ M2[u] = 0 /\ \A v \in Unit \ {u} : M2[v] = M[v]
    BY <2>4 DEF Freed
  <2>6. \A o \in l2 : Room(k, C2, Base(o), o.size + Meta)
    <3>1. \A o \in l2 : o.size + Meta \in Nat /\ Room(h, C, Base(o), o.size + Meta)
      BY <1>1, <2>3 DEF Accounted, Object, Meta
    <3> QED  BY <2>3, <2>5, <3>1 DEF RoomKept
  <2>7. LiveKept(M2, g, l2)
    <3>1. \A o \in l2 : M2[Base(o)] = o.ptr.serial
      BY <1>1, <2>3, <2>5 DEF LiveKept
    <3>2. \A v \in Unit \ B2 : M2[v] = 0
      BY <1>1, <2>1, <2>5 DEF LiveKept, B
    <3> QED  BY <1>1, <2>3, <3>1, <3>2 DEF LiveKept, B2
  <2>8. Accounted(k, C2, K2, M2, g, l2, n)
    BY <1>1, <2>3, <2>5, <2>6, <2>7 DEF Accounted, B2
  <2> QED  BY <2>5, <2>8
<1> QED  BY <1>3, <1>4
-----------------------------------------------------------------------------
(* The specification.  As for the page heap, the metadata block has a span *)
(* structure for every page.                                               *)

LEMMA MemIs == Mem = Memory(Heap, cut, caches, meta)
BY DEF Mem, Memory

LEMMA MemBecoming ==
  ASSUME NEW k, NEW C, NEW K, NEW M, Good(k), NEW r, r = Memory(k, C, K, M), MemBecomes(r)
  PROVE  Heap' = k /\ cut' = C /\ caches' = K /\ meta' = M
<1>1. r.heap = k /\ r.cut = C /\ r.caches = K /\ r.meta = M
  BY MemoryIs
<1>2. Becomes(k) /\ cut' = C /\ caches' = K /\ meta' = M
  BY <1>1 DEF MemBecomes
<1>3. k \in Heaps
  BY DEF Good, Sound, Loose, Shape
<1> QED  BY <1>2, <1>3, Becoming

\* Nothing is allocated at the start.
LEMMA AllocInitAccounted == AllocInit => AInv
<1> SUFFICES ASSUME AllocInit PROVE AInv
  OBVIOUS
<1> DEFINE h == Heap
<1>1. Good(h)
  BY InitGood DEF AllocInit, IInv
<1>2. Bases(live) = {} /\ given = {} /\ live = {} /\ singleton = NullPtr
  BY DEF AllocInit, Bases
<1>3. cut \in [SpanId -> Cuts] /\ \A s \in SpanId : cut[s] = Whole
  <2>1. Whole \in Cuts
    BY DEF Whole, Cuts, NoClass
  <2> QED  BY <2>1 DEF AllocInit
<1>4. /\ caches \in [DOMAIN Classes -> CacheRecords]
      /\ \A c \in DOMAIN Classes : caches[c].list = <<>> /\ caches[c].count = 0 /\ caches[c].used = 0 /\ caches[c].total = 0
  <2>1. [list |-> <<>>, count |-> 0, used |-> 0, total |-> 0] \in CacheRecords
    BY DEF CacheRecords
  <2> QED  BY <2>1 DEF AllocInit
<1> HIDE DEF h
<1>5. ASSUME NEW c \in DOMAIN Classes PROVE CacheSound(h, cut, caches[c], {}, c)
  <2>1. CutInto(cut, c) = {}
    BY <1>3, AllocConstants DEF CutInto, Whole
  <2>2. InClass(h, cut, {}, c) = {} /\ PagesOf(h, cut, c) = {}
    BY <2>1 DEF InClass, PagesOf
  <2>3. Cardinality({}) = 0
    BY FS_EmptySet
  <2>4. Once(<<>>) /\ ToSet(<<>>) = {}
    BY DEF Once, ToSet
  <2>5. InUseOf(h, cut, {}, c) = 0
    <3> DEFINE z == Classes[c].size
    <3>1. z \in Nat
      BY AllocConstants
    <3>2. InUseOf(h, cut, {}, c) = z * 0
      BY <2>2, <2>3 DEF InUseOf
    <3> HIDE DEF z
    <3>3. z * 0 = 0
      BY <3>1
    <3> QED  BY <3>2, <3>3
  <2> QED  BY <1>4, <2>1, <2>2, <2>3, <2>4, <2>5 DEF CacheSound
<1>6. Books(h, cut, caches, {})
  <2>1. BasesHeld(h, cut, {})
    BY DEF BasesHeld
  <2> QED  BY <1>1, <1>3, <1>4, <1>5, <2>1 DEF Books
<1>7. meta \in [Unit -> Nat] /\ LiveKept(meta, given, live)
  BY <1>2 DEF AllocInit, LiveKept
<1>8. serial \in MIN_VALID_SERIAL_NUM .. MaxSerial
  BY AllocAssumption DEF AllocInit, MIN_VALID_SERIAL_NUM
<1>9. InTurn(given, serial) /\ IsFiniteSet(given)
  BY <1>2, FS_EmptySet DEF InTurn
<1> QED  BY <1>2, <1>6, <1>7, <1>8, <1>9 DEF AInv, Accounted, h

\* malloc() keeps account, and makes one live object of the size asked for or none.
LEMMA MallocStep ==
  ASSUME SpanPool >= MmapPages, AInv, NEW n \in Sizes, NEW b \in BOOLEAN, MallocInto(n, b)
  PROVE  AInv' /\ (live' = live \/ \E x \in given' : x \notin live /\ x.size = n /\ live' = live \cup {x})
<1>1. PICK got \in {Obtain(Mem, n + Meta)} :
        \/ /\ got.units = {}
           /\ MemBecomes(got.mem)
           /\ UNCHANGED <<serial, singleton, given, live>>
        \/ \E base \in got.units :
             LET ptr == [serial |-> serial, offset |-> base + Meta]
                 obj == [ptr |-> ptr, size |-> n, born |-> Cardinality(given) + 1]
             IN  /\ Cardinality(given) < MaxMalloc
                 /\ MemBecomes([got.mem EXCEPT !.meta[base] = serial])
                 /\ serial' = NextSerial(serial)
                 /\ given' = given \cup {obj} /\ live' = live \cup {obj}
                 /\ singleton' = IF b THEN ptr ELSE singleton
  BY DEF MallocInto
<1>2. /\ Accounted(Heap, cut, caches, meta, given, live, serial)
      /\ singleton = NullPtr \/ \E o \in given : singleton = o.ptr
  BY DEF AInv
<1>3. n \in Nat /\ n + Meta \in Nat \ {0}
  BY AllocAssumption DEF Meta
<1>4. Found(Heap, cut, meta, Bases(live), got, n + Meta)
  <2>1. got = Obtain(Memory(Heap, cut, caches, meta), n + Meta)
    BY MemIs
  <2> QED  BY <1>2, <1>3, <2>1, ObtainFound DEF Accounted
<1>5. CASE got.units = {} /\ MemBecomes(got.mem) /\ UNCHANGED <<serial, singleton, given, live>>
  <2>1. PICK k, C, K, M : got.mem = Memory(k, C, K, M) /\ Accounted(k, C, K, M, given, live, serial)
    BY <1>2, <1>4, <1>5, NothingFound
  <2>2. Good(k)
    BY <2>1 DEF Accounted, Books
  <2>3. Heap' = k /\ cut' = C /\ caches' = K /\ meta' = M
    BY <1>5, <2>1, <2>2, MemBecoming
  <2> QED  BY <1>2, <1>5, <2>1, <2>3 DEF AInv
<1>6. ASSUME NEW base \in got.units, NEW ptr, ptr = [serial |-> serial, offset |-> base + Meta],
             NEW obj, obj = [ptr |-> ptr, size |-> n, born |-> Cardinality(given) + 1],
             MemBecomes([got.mem EXCEPT !.meta[base] = serial]), serial' = NextSerial(serial),
             given' = given \cup {obj}, live' = live \cup {obj}, singleton' = IF b THEN ptr ELSE singleton
      PROVE  AInv' /\ (live' = live \/ \E x \in given' : x \notin live /\ x.size = n /\ live' = live \cup {x})
  <2>1. base \in Unit \ Bases(live)
    BY <1>4 DEF Found
  <2>2. base \in Nat
    BY <2>1, AllocConstants
  <2>3. /\ obj \in Object /\ obj.ptr = ptr /\ obj.ptr.serial = serial /\ obj.size = n
        /\ obj.born = Cardinality(given) + 1 /\ Base(obj) = base
    <3>1. Cardinality(given) \in Nat /\ serial \in MIN_VALID_SERIAL_NUM .. MaxSerial
      BY <1>2, FS_CardinalityType DEF Accounted
    <3>2. ptr \in [serial : MIN_VALID_SERIAL_NUM .. MaxSerial, offset : Nat] /\ ptr.serial = serial /\ ptr.offset = base + Meta
      BY <1>6, <2>2, <3>1 DEF Meta
    <3>3. obj.ptr = ptr /\ obj.size = n /\ obj.born = Cardinality(given) + 1
      BY <1>6
    <3>4. obj \in Object
      <4>1. obj.born \in Nat
        BY <3>1, <3>3
      <4> QED  BY <1>3, <1>6, <3>2, <3>3, <4>1 DEF Object
    <3> QED  BY <2>2, <3>2, <3>3, <3>4 DEF Base, Meta
  <2>4. Found(Heap, cut, meta, Bases(live), got, obj.size + Meta)
    BY <1>4, <2>3
  <2> DEFINE r == SetMetaAt(got.mem, base, serial)
  <2>5. r = SetMetaAt(got.mem, base, serial) /\ MemBecomes(r)
    BY <1>6 DEF SetMetaAt
  <2> HIDE DEF r
  <2>6. PICK k, C, K, M : /\ r = Memory(k, C, K, M)
                          /\ Accounted(k, C, K, M, given \cup {obj}, live \cup {obj}, NextSerial(serial))
    BY <1>2, <2>3, <2>4, <2>5, SomethingFound
  <2>7. Good(k)
    BY <2>6 DEF Accounted, Books
  <2>8. Heap' = k /\ cut' = C /\ caches' = K /\ meta' = M
    BY <2>5, <2>6, <2>7, MemBecoming
  <2>9. singleton' = NullPtr \/ \E o \in given' : singleton' = o.ptr
    BY <1>2, <1>6, <2>3
  <2>10. obj \in given' /\ obj \notin live
    BY <1>6, <2>1, <2>3 DEF Bases
  <2> QED  BY <1>6, <2>3, <2>6, <2>8, <2>9, <2>10 DEF AInv
<1> QED  BY <1>1, <1>5, <1>6

\* A pointer somebody was given is freed.
LEMMA FreeStep ==
  ASSUME AInv, NEW p \in given, MemBecomes(FreeIn(Mem, p.ptr)), NEW l, \A o : o \in l <=> o \in live /\ o.ptr # p.ptr,
         live' = l, given' = given, serial' = serial, singleton' = NullPtr \/ singleton' = singleton
  PROVE  AInv' /\ (live' = live \/ \E x \in live : live' = live \ {x})
<1>1. /\ Accounted(Heap, cut, caches, meta, given, live, serial)
      /\ singleton = NullPtr \/ \E o \in given : singleton = o.ptr
  BY DEF AInv
<1> DEFINE r == FreeIn(Mem, p.ptr)
<1>2. r = FreeIn(Memory(Heap, cut, caches, meta), p.ptr) /\ MemBecomes(r)
  BY MemIs
<1> HIDE DEF r
<1>3. PICK k, C, K, M : r = Memory(k, C, K, M) /\ Accounted(k, C, K, M, given, l, serial)
  BY <1>1, <1>2, PointerFreed
<1>4. Good(k)
  BY <1>3 DEF Accounted, Books
<1>5. Heap' = k /\ cut' = C /\ caches' = K /\ meta' = M
  BY <1>2, <1>3, <1>4, MemBecoming
<1>6. \A o, q \in live : o.ptr = p.ptr /\ q.ptr = p.ptr => o = q
  BY <1>1 DEF Accounted, LiveKept, Base
<1>7. live' = live \/ \E x \in live : live' = live \ {x}
  <2>1. CASE \E x \in live : x.ptr = p.ptr
    <3>1. PICK x \in live : x.ptr = p.ptr
      BY <2>1
    <3>2. l = live \ {x}
      BY <1>6, <3>1
    <3> QED  BY <3>2
  <2>2. CASE ~\E x \in live : x.ptr = p.ptr
    BY <2>2
  <2> QED  BY <2>1, <2>2
<1> QED  BY <1>1, <1>3, <1>5, <1>7 DEF AInv

\* Every call keeps the invariant, and makes or ends one object at most.
LEMMA AllocStep ==
  ASSUME SpanPool >= MmapPages, AInv, [AllocNext]_<<vars, allocVars>>
  PROVE  /\ AInv'
         /\ \/ live' = live
            \/ \E n \in Sizes, x \in given' : x \notin live /\ x.size = n /\ live' = live \cup {x}
            \/ \E x \in live : live' = live \ {x}
<1>1. ASSUME NEW n \in Sizes, malloc(n)
      PROVE  AInv' /\ (live' = live \/ \E x \in given' : x \notin live /\ x.size = n /\ live' = live \cup {x})
  <2> DEFINE b == FALSE
  <2>1. MallocInto(n, b) /\ b \in BOOLEAN
    BY <1>1 DEF malloc
  <2> HIDE DEF b
  <2> QED  BY <2>1, MallocStep
<1>2. ASSUME NEW n \in Sizes, get_singleton(n)
      PROVE  AInv' /\ (live' = live \/ \E x \in given' : x \notin live /\ x.size = n /\ live' = live \cup {x})
  <2> DEFINE b == TRUE
  <2>1. MallocInto(n, b) /\ b \in BOOLEAN
    BY <1>2 DEF get_singleton
  <2> HIDE DEF b
  <2> QED  BY <2>1, MallocStep
<1>3. ASSUME NEW p \in given, free(p)
      PROVE  AInv' /\ (live' = live \/ \E x \in live : live' = live \ {x})
  <2> DEFINE l == live \ {o \in live : meta[p.ptr.offset - Meta] = p.ptr.serial /\ o.ptr = p.ptr}
  <2>1. /\ MemBecomes(FreeIn(Mem, p.ptr)) /\ live' = l
        /\ given' = given /\ serial' = serial /\ singleton' = singleton
    BY <1>3 DEF free
  <2>2. \A o : o \in l <=> o \in live /\ o.ptr # p.ptr
    <3>1. \A o \in live : o.ptr = p.ptr => meta[p.ptr.offset - Meta] = p.ptr.serial
      BY DEF AInv, Accounted, LiveKept, Base
    <3> QED  BY <3>1
  <2> HIDE DEF l
  <2> QED  BY <2>1, <2>2, FreeStep
<1>4. ASSUME free_singleton
      PROVE  AInv' /\ (live' = live \/ \E x \in live : live' = live \ {x})
  <2>1. /\ singleton # NullPtr /\ MemBecomes(FreeIn(Mem, singleton)) /\ live' = {o \in live : o.ptr # singleton}
        /\ given' = given /\ serial' = serial /\ singleton' = NullPtr
    BY <1>4 DEF free_singleton
  <2>2. PICK p \in given : singleton = p.ptr
    BY <2>1 DEF AInv
  <2> DEFINE l == {o \in live : o.ptr # singleton}
  <2>3. live' = l /\ \A o : o \in l <=> o \in live /\ o.ptr # p.ptr
    BY <2>1, <2>2
  <2>4. MemBecomes(FreeIn(Mem, p.ptr))
    BY <2>1, <2>2
  <2> HIDE DEF l
  <2> QED  BY <2>1, <2>3, <2>4, FreeStep
<1>5. ASSUME UNCHANGED <<vars, allocVars>>
      PROVE  AInv' /\ live' = live
  <2>1. /\ Heap' = Heap /\ cut' = cut /\ caches' = caches /\ meta' = meta /\ given' = given /\ live' = live
        /\ serial' = serial /\ singleton' = singleton
    BY <1>5 DEF vars, allocVars, Heap
  <2> QED  BY <2>1 DEF AInv
<1> QED  BY <1>1, <1>2, <1>3, <1>4, <1>5 DEF AllocNext

\* The invariant of the allocator: the books of the chunk cache agree with
\* the page heap and the live objects, serial numbers are in turn, and the
\* memory in front of each live object says which one it is.
THEOREM AllocInvariance ==
  ASSUME SpanPool >= MmapPages
  PROVE  AllocSpec => []AInv
<1>1. AllocInit => AInv
  BY AllocInitAccounted
<1>2. AInv /\ [AllocNext]_<<vars, allocVars>> => AInv'
  BY AllocStep
<1> QED  BY <1>1, <1>2, PTL DEF AllocSpec

\* No assertion of chunk_cache.cpp, span.cpp, shm_mgr.cpp or page_heap.cpp
\* fails: nothing is counted below zero, a chunk is only put back into a span
\* that is cut and a span only goes back whole.
THEOREM AllocAssertionsHold ==
  ASSUME SpanPool >= MmapPages
  PROVE  AllocSpec => []NoAssertionFails
<1>1. AInv => NoAssertionFails
  BY DEF AInv, Accounted, Books, Good, Heap, NoAssertionFails
<1> QED  BY <1>1, AllocInvariance, PTL

\* A pointer leads to its object as long as that lives, through any other
\* malloc() and free(), and to nothing afterwards, until as many objects were
\* allocated as there are serial numbers.
THEOREM PointersLead ==
  ASSUME SpanPool >= MmapPages
  PROVE  AllocSpec => []PointersResolve
<1>1. AInv => PointersResolve
  <2> SUFFICES ASSUME AInv, NEW obj \in given
               PROVE  /\ obj \in live => addr2ptr(obj.ptr) = {obj.ptr.offset}
                      /\ obj \notin live => \/ addr2ptr(obj.ptr) = {}
                                            \/ Cardinality(given) - obj.born >= MaxSerial - MIN_VALID_SERIAL_NUM + 1
    BY DEF PointersResolve
  <2>1. /\ live \subseteq given /\ LiveKept(meta, given, live) /\ InTurn(given, serial) /\ IsFiniteSet(given)
        /\ \A o \in given : o \in Object /\ Base(o) \in Unit
    BY DEF AInv, Accounted
  <2>2. obj \in live => addr2ptr(obj.ptr) = {obj.ptr.offset}
    BY <2>1 DEF LiveKept, addr2ptr, Base
  <2>3. ASSUME obj \notin live, addr2ptr(obj.ptr) # {}
        PROVE  Cardinality(given) - obj.born >= Period
    <3>1. meta[Base(obj)] = obj.ptr.serial
      BY <2>3 DEF addr2ptr, Base
    <3>2. PICK o \in live : o.ptr = obj.ptr
      BY <2>1, <3>1, PointerGood
    <3>3. o \in given /\ o # obj /\ o.ptr.serial = obj.ptr.serial /\ Base(o) = Base(obj)
      BY <2>1, <2>3, <3>2 DEF Base
    <3>4. obj.born <= o.born /\ obj.born # o.born /\ obj.born \in Nat /\ o.born \in 1 .. Cardinality(given)
      BY <2>1, <3>3 DEF LiveKept, InTurn, Object
    <3>5. o.born - obj.born >= Period
      BY <2>1, <3>3, <3>4 DEF InTurn
    <3>6. Cardinality(given) \in Nat /\ Period \in Nat
      BY <2>1, FS_CardinalityType, AllocConstants
    <3> QED  BY <3>4, <3>5, <3>6
  <2> QED  BY <2>2, <2>3 DEF Period
<1> QED  BY <1>1, AllocInvariance, PTL

LEMMA OnceCounted ==
  ASSUME NEW S, NEW l \in Seq(S), Once(l)
  PROVE  Cardinality(ToSet(l)) = Len(l)
<1> DEFINE n == Len(l)
           T == ToSet(l)
<1>1. n \in Nat /\ l \in [1 .. n -> S] /\ DOMAIN l = 1 .. n
  OBVIOUS
<1>2. T = {l[i] : i \in 1 .. n}
  BY <1>1 DEF ToSet
<1> HIDE DEF T
<1>3. l \in [1 .. n -> T] /\ \A t \in T : \E i \in 1 .. n : l[i] = t
  BY <1>1, <1>2
<1>4. \A i, j \in 1 .. n : l[i] = l[j] => i = j
  BY <1>1 DEF Once
<1>5. ExistsBijection(1 .. n, T)
  <2>1. l \in Injection(1 .. n, T)
    BY <1>1, <1>3, <1>4 DEF Injection, IsInjective
  <2>2. l \in Surjection(1 .. n, T)
    BY <1>3 DEF Surjection
  <2> QED  BY <2>1, <2>2 DEF ExistsBijection, Bijection
<1> HIDE DEF n
<1>6. Cardinality(T) = n
  BY <1>1, <1>5, FS_CountingElements
<1> QED  BY <1>6 DEF T, n

\* Where the objects of a span begin: what the map says is what the units say.
LEMMA BasesOf ==
  ASSUME NEW h, NEW C, NEW K, NEW l, Books(h, C, K, Bases(l)), NEW s \in SpanId, C[s].cls # NoClass
  PROVE  {Base(o) : o \in {p \in l : h.map[Base(p) \div PAGE_SIZE] = s}} = Bases(l) \cap Zone(h, s)
<1>1. Good(h)
  BY DEF Books
<1>2. ASSUME NEW o \in l
      PROVE  h.map[Base(o) \div PAGE_SIZE] = s <=> Base(o) \in Zone(h, s)
  <2> DEFINE u == Base(o)
  <2>1. PICK t \in Held(h) : u \in Zone(h, t) /\ (C[t].cls = NoClass => u = Start(h, t) * PAGE_SIZE)
    BY DEF Books, BasesHeld, Bases
  <2>2. t \in SpanId /\ s \in Held(h)
    BY <1>1, <2>1, HeldIs, CutIs
  <2>3. C[t].cls # NoClass => h.spans[t].cached
    <3> SUFFICES ASSUME C[t].cls # NoClass PROVE h.spans[t].cached
      OBVIOUS
    <3>1. CutSound(h, t, C[t], Bases(l))
      BY <2>2, CutIs
    <3> QED  BY <3>1 DEF CutSound
  <2> HIDE DEF u
  <2>4. h.map[u \div PAGE_SIZE] = t
    BY <1>1, <2>1, <2>3, HomeIs
  <2>5. u \in Zone(h, s) <=> t = s
    BY <1>1, <2>1, <2>2, ZonesApart
  <2> QED  BY <2>4, <2>5 DEF u
<1> QED  BY <1>2 DEF Bases

\* The cache of every class: it lists exactly its spans with free chunks, each
\* once, keeps one empty span at most, and counts what is in use and what it
\* has; each chunk is free or some live object's, and never both.
THEOREM CachesExact ==
  ASSUME SpanPool >= MmapPages
  PROVE  AllocSpec => []CacheExact
<1>1. AInv => CacheExact
  <2> SUFFICES ASSUME AInv PROVE CacheExact
    OBVIOUS
  <2> DEFINE h == Heap
             B == Bases(live)
             bases(s) == {o.ptr.offset - Meta : o \in {p \in live : span_map[(p.ptr.offset - Meta) \div PAGE_SIZE] = s}}
  <2>1. Books(h, cut, caches, B) /\ h.spans = spans /\ h.map = span_map
    BY DEF AInv, Accounted, Heap
  <2>2. \A s : bases(s) = {Base(o) : o \in {p \in live : h.map[Base(p) \div PAGE_SIZE] = s}}
    BY <2>1 DEF Base
  <2>3. Good(h) /\ caches \in [DOMAIN Classes -> CacheRecords]
    BY <2>1 DEF Books
  <2> HIDE DEF h, B, bases
  <2>4. ASSUME NEW c \in DOMAIN Classes, NEW mine, mine = {s \in SpanId : cut[s].cls = c}
        PROVE  /\ ToSet(caches[c].list) = {s \in mine : cut[s].chunks # <<>>}
               /\ caches[c].count = Cardinality(ToSet(caches[c].list)) /\ caches[c].count = Len(caches[c].list)
               /\ Cardinality({s \in mine : cut[s].used = 0}) <= 1
               /\ caches[c].used = Classes[c].size * Cardinality(UNION {bases(s) : s \in mine})
               /\ caches[c].total = Cardinality(UNION {Pages(s) : s \in mine})
               /\ \A s \in mine :
                    /\ spans[s].in_use /\ cut[s].used = Cardinality(bases(s))
                    /\ bases(s) \cap ToSet(cut[s].chunks) = {}
                    /\ bases(s) \cup ToSet(cut[s].chunks) = ToSet(partition(spans[s], c).chunks)
    <3>1. CacheSound(h, cut, caches[c], B, c) /\ mine = CutInto(cut, c) /\ mine \subseteq SpanId /\ c # NoClass
      BY <2>1, <2>4, AllocConstants DEF Books, CutInto
    <3>2. \A s \in mine : s \in SpanId /\ cut[s].cls = c /\ s \in Held(h) /\ CutSound(h, s, cut[s], B)
      BY <2>1, <2>4, <3>1, CutIs
    <3>3. \A s \in mine : bases(s) = B \cap Zone(h, s)
      BY <2>1, <2>2, <3>1, <3>2, BasesOf DEF B
    <3>4. /\ ToSet(caches[c].list) = {s \in mine : cut[s].chunks # <<>>}
          /\ caches[c].count = Cardinality(ToSet(caches[c].list)) /\ Once(caches[c].list)
          /\ \A s, t \in mine : cut[s].used = 0 /\ cut[t].used = 0 => s = t
          /\ caches[c].used = InUseOf(h, cut, B, c) /\ caches[c].total = Cardinality(PagesOf(h, cut, c))
      BY <3>1 DEF CacheSound
    <3>5. caches[c].count = Len(caches[c].list)
      <4>1. caches[c].list \in Seq(SpanId)
        BY <2>3 DEF CacheRecords
      <4> QED  BY <3>4, <4>1, OnceCounted
    <3>6. Cardinality({s \in mine : cut[s].used = 0}) <= 1
      <4> DEFINE E == {s \in mine : cut[s].used = 0}
      <4>1. CASE E = {}
        <5>1. Cardinality({}) = 0
          BY FS_EmptySet
        <5> HIDE DEF E
        <5>2. Cardinality(E) <= 1
          BY <4>1, <5>1
        <5> QED  BY <5>2 DEF E
      <4>2. CASE E # {}
        <5>1. PICK s : s \in E
          BY <4>2
        <5>2. E = {s}
          BY <3>4, <5>1
        <5>3. Cardinality({s}) = 1
          BY FS_Singleton
        <5> QED  BY <5>2, <5>3
      <4> QED  BY <4>1, <4>2
    <3>7. InClass(h, cut, B, c) = UNION {bases(s) : s \in mine}
      BY <3>1, <3>3 DEF InClass
    <3>8. PagesOf(h, cut, c) = UNION {Pages(s) : s \in mine}
      <4>1. ASSUME NEW s \in mine PROVE Pages(s) = {p \in Page : Start(h, s) <= p /\ p < End(h, s)}
        <5>1. /\ Start(h, s) \in Nat /\ End(h, s) \in Nat /\ End(h, s) <= MmapPages /\ Pages(s) = Start(h, s) .. End(h, s) - 1
          <6>1. Pages(s) = Start(h, s) .. End(h, s) - 1
            <7>1. spans[s] = h.spans[s] /\ spans[s].start \in Nat /\ spans[s].count \in Nat
              BY <2>1, <2>3, <3>2, HeldIs DEF Span
            <7> QED  BY <7>1 DEF Pages, last_page, Start, End
          <6> QED  BY <2>3, <3>2, <6>1, HeldIs
        <5>2. MmapPages \in Nat
          BY AllocConstants
        <5> QED  BY <5>1, <5>2 DEF Page
      <4> QED  BY <3>1, <4>1 DEF PagesOf
    <3>9. ASSUME NEW s \in mine
          PROVE  /\ spans[s].in_use /\ cut[s].used = Cardinality(bases(s))
                 /\ bases(s) \cap ToSet(cut[s].chunks) = {}
                 /\ bases(s) \cup ToSet(cut[s].chunks) = ToSet(partition(spans[s], c).chunks)
      <4>1. spans[s].in_use
        BY <2>1, <2>3, <3>2, HeldIs
      <4>2. Grid(h, s, c) = ToSet(partition(spans[s], c).chunks)
        BY <2>1 DEF Grid
      <4> QED  BY <3>2, <3>3, <4>1, <4>2 DEF CutSound
    <3> QED  BY <3>4, <3>5, <3>6, <3>7, <3>8, <3>9 DEF InUseOf
  <2> QED  BY <2>4 DEF CacheExact, bases
<1> QED  BY <1>1, AllocInvariance, PTL
-----------------------------------------------------------------------------
(* What the users see *)

\* The memory of an object, with its shm_meta.
Extent(o) == o.ptr.offset - Meta .. o.ptr.offset - 1 + o.size

\* An object lies in one span, and in one chunk if that is cut.
LEMMA ObjectLies ==
  ASSUME NEW h, NEW C, NEW K, NEW M, NEW g, NEW l, NEW n, Accounted(h, C, K, M, g, l, n), NEW o \in l
  PROVE  /\ Base(o) \in Nat /\ o.size \in Nat /\ Extent(o) = Base(o) .. Base(o) + o.size
         /\ \E s \in Held(h) :
              /\ Start(h, s) * PAGE_SIZE <= Base(o) /\ Base(o) + o.size < End(h, s) * PAGE_SIZE
              /\ C[s].cls = NoClass => Base(o) = Start(h, s) * PAGE_SIZE
              /\ C[s].cls # NoClass => Base(o) \in Grid(h, s, C[s].cls) /\ o.size < Classes[C[s].cls].size
<1> DEFINE B == Bases(l)
           u == Base(o)
           z == o.size
<1>1. /\ Books(h, C, K, B) /\ Good(h) /\ u \in B /\ u \in Unit /\ o \in Object /\ Room(h, C, u, z + Meta)
  BY DEF Accounted, Books, Bases
<1>2. u \in Nat /\ z \in Nat /\ Extent(o) = u .. u + z
  <2>1. u \in Nat /\ z \in Nat /\ o.ptr.offset \in Nat
    BY <1>1, AllocConstants DEF Object
  <2> DEFINE a == o.ptr.offset
  <2>2. u = a - 1 /\ Extent(o) = a - 1 .. a - 1 + z
    BY DEF Extent, Base, Meta
  <2> HIDE DEF a, u, z
  <2> QED  BY <2>1, <2>2 DEF a
<1> HIDE DEF u, z
<1>3. PICK s \in Held(h) :
        u \in Zone(h, s) /\ z + Meta <= IF C[s].cls = NoClass THEN h.spans[s].count * PAGE_SIZE ELSE Classes[C[s].cls].size
  BY <1>1 DEF Room
<1>4. PICK t \in Held(h) : u \in Zone(h, t) /\ (C[t].cls = NoClass => u = Start(h, t) * PAGE_SIZE)
  BY <1>1 DEF Books, BasesHeld
<1>5. t = s
  BY <1>1, <1>3, <1>4, ZonesApart
<1>6. /\ Start(h, s) * PAGE_SIZE \in Nat /\ End(h, s) * PAGE_SIZE \in Nat /\ h.spans[s].count * PAGE_SIZE \in Nat
      /\ Start(h, s) * PAGE_SIZE + h.spans[s].count * PAGE_SIZE = End(h, s) * PAGE_SIZE
      /\ Start(h, s) * PAGE_SIZE <= u /\ s \in SpanId
  BY <1>1, <1>2, <1>3, ZoneIs, HeldIs
<1>7. CASE C[s].cls = NoClass
  <2> DEFINE a == Start(h, s) * PAGE_SIZE
             b == End(h, s) * PAGE_SIZE
             w == h.spans[s].count * PAGE_SIZE
  <2>1. a \in Nat /\ b \in Nat /\ w \in Nat /\ a + w = b /\ u = a /\ z + 1 <= w
    BY <1>3, <1>4, <1>5, <1>6, <1>7 DEF Meta
  <2> HIDE DEF a, b, w
  <2>2. a <= u /\ u + z < b
    BY <1>2, <2>1
  <2> QED  BY <1>2, <1>7, <2>1, <2>2 DEF a, b, u, z
<1>8. CASE C[s].cls # NoClass
  <2> DEFINE c == C[s].cls
             b == End(h, s) * PAGE_SIZE
             w == Classes[c].size
  <2>1. c \in DOMAIN Classes /\ CutSound(h, s, C[s], B) /\ h.spans[s].count = Classes[c].pages
    BY <1>1, <1>6, <1>8, CutIs
  <2>2. u \in Grid(h, s, c)
    BY <1>1, <1>3, <2>1 DEF CutSound
  <2>3. u + w <= b
    BY <1>1, <2>1, <2>2, GridIs
  <2>4. w \in Nat /\ z + 1 <= w
    BY <1>3, <1>8, <2>1, AllocConstants DEF Meta
  <2>5. b \in Nat
    BY <1>6
  <2> HIDE DEF b, w, c
  <2>6. u + z < b /\ z < w
    BY <1>2, <2>3, <2>4, <2>5
  <2> QED  BY <1>2, <1>6, <1>8, <2>2, <2>6 DEF b, w, c, u, z
<1> QED  BY <1>7, <1>8

\* Two objects share nothing.
LEMMA ObjectsApart ==
  ASSUME NEW h, NEW C, NEW K, NEW M, NEW g, NEW l, NEW n, Accounted(h, C, K, M, g, l, n), NEW o \in l, NEW p \in l, o # p
  PROVE  Extent(o) \cap Extent(p) = {}
<1> DEFINE u == Base(o)
           v == Base(p)
<1>1. u \in Nat /\ v \in Nat /\ o.size \in Nat /\ p.size \in Nat /\ Extent(o) = u .. u + o.size /\ Extent(p) = v .. v + p.size
  BY ObjectLies
<1>2. PICK s \in Held(h) :
        /\ Start(h, s) * PAGE_SIZE <= u /\ u + o.size < End(h, s) * PAGE_SIZE
        /\ C[s].cls = NoClass => u = Start(h, s) * PAGE_SIZE
        /\ C[s].cls # NoClass => u \in Grid(h, s, C[s].cls) /\ o.size < Classes[C[s].cls].size
  BY ObjectLies
<1>3. PICK t \in Held(h) :
        /\ Start(h, t) * PAGE_SIZE <= v /\ v + p.size < End(h, t) * PAGE_SIZE
        /\ C[t].cls = NoClass => v = Start(h, t) * PAGE_SIZE
        /\ C[t].cls # NoClass => v \in Grid(h, t, C[t].cls) /\ p.size < Classes[C[t].cls].size
  BY ObjectLies
<1>4. u # v
  BY DEF Accounted, LiveKept
<1>5. Good(h) /\ Books(h, C, K, Bases(l))
  BY DEF Accounted, Books
<1> DEFINE a == o.size
           b == p.size
<1>6. u + a < v \/ v + b < u
  <2>1. CASE s # t
    <3> DEFINE s1 == Start(h, s) * PAGE_SIZE
               s2 == End(h, s) * PAGE_SIZE
               t1 == Start(h, t) * PAGE_SIZE
               t2 == End(h, t) * PAGE_SIZE
    <3>1. s1 \in Nat /\ s2 \in Nat /\ t1 \in Nat /\ t2 \in Nat
      BY <1>5, ZoneIs
    <3>2. s2 <= t1 \/ t2 <= s1
      BY <1>5, <2>1, ZonesApart
    <3>3. s1 <= u /\ u + a < s2 /\ t1 <= v /\ v + b < t2
      BY <1>2, <1>3
    <3> HIDE DEF s1, s2, t1, t2, u, v, a, b
    <3> QED  BY <1>1, <3>1, <3>2, <3>3 DEF a, b
  <2>2. CASE s = t
    <3> DEFINE c == C[s].cls
               w == Classes[c].size
    <3>1. c # NoClass
      BY <1>2, <1>3, <1>4, <2>2
    <3>2. u \in Grid(h, s, c) /\ v \in Grid(h, s, c) /\ a < w /\ b < w
      BY <1>2, <1>3, <2>2, <3>1
    <3>3. c \in DOMAIN Classes /\ h.spans[s].count = Classes[c].pages
      BY <1>2, <1>5, <3>1, CutIs, HeldIs
    <3>4. w \in Nat
      BY <3>3, AllocConstants
    <3>5. (u < v => u + w <= v) /\ (v < u => v + w <= u)
      <4> HIDE DEF c, u, v, w
      <4> QED  BY <1>2, <1>5, <3>2, <3>3, GridIs DEF w
    <3> HIDE DEF c, w, u, v, a, b
    <3> QED  BY <1>1, <1>4, <3>2, <3>4, <3>5 DEF a, b
  <2> QED  BY <2>1, <2>2
<1> HIDE DEF u, v, a, b
<1>7. (u .. u + a) \cap (v .. v + b) = {}
  BY <1>1, <1>6 DEF a, b
<1> QED  BY <1>1, <1>7 DEF a, b

\* The allocator implements PageOwners, in units: malloc() hands out memory
\* that nobody has, and the object has it, all of it, until it is freed by a
\* pointer with its serial number; free() by any other pointer takes nothing
\* from anybody.
THEOREM RefinesObjects ==
  ASSUME SpanPool >= MmapPages
  PROVE  AllocSpec => ImplementsObjects
<1> DEFINE owned == {o.ptr.offset - Meta .. o.ptr.offset - 1 + o.size : o \in live}
<1>1. AllocInit => Objects!Init
  BY DEF AllocInit, Objects!Init
<1>2. AInv /\ [AllocNext]_<<vars, allocVars>> => [Objects!Next]_owned
  <2> SUFFICES ASSUME AInv, [AllocNext]_<<vars, allocVars>> PROVE [Objects!Next]_owned
    OBVIOUS
  <2>1. /\ AInv'
        /\ \/ live' = live
           \/ \E n \in Sizes, x \in given' : x \notin live /\ x.size = n /\ live' = live \cup {x}
           \/ \E x \in live : live' = live \ {x}
    BY AllocStep
  <2>2. owned = {Extent(o) : o \in live}
    BY DEF Extent
  <2>3. owned' = {Extent(o) : o \in live'}
    BY DEF Extent
  <2> HIDE DEF owned
  <2>4. CASE live' = live
    BY <2>2, <2>3, <2>4
  <2>5. ASSUME NEW n \in Sizes, NEW x \in given', x \notin live, x.size = n, live' = live \cup {x}
        PROVE  Objects!Next
    <3> DEFINE u == Base(x)
               e == MmapPages * PAGE_SIZE
               z == n + Meta
    <3>1. Accounted(Heap', cut', caches', meta', given', live', serial') /\ x \in live'
      BY <2>1, <2>5 DEF AInv
    <3>2. /\ u \in Nat /\ n \in Nat /\ Extent(x) = u .. u + n
          /\ \E s \in Held(Heap') : u + n < End(Heap', s) * PAGE_SIZE
      BY <2>5, <3>1, ObjectLies
    <3>3. u + n < e /\ e \in Nat
      <4>1. PICK s \in Held(Heap') : u + n < End(Heap', s) * PAGE_SIZE
        BY <3>2
      <4>2. End(Heap', s) * PAGE_SIZE <= e /\ End(Heap', s) * PAGE_SIZE \in Nat
        BY <3>1, ZoneIs DEF Accounted, Books
      <4>3. e \in Nat
        BY AllocConstants
      <4> HIDE DEF e
      <4> QED  BY <3>2, <4>1, <4>2, <4>3
    <3>4. \A o \in live : Extent(o) \cap Extent(x) = {}
      BY <2>5, <3>1, ObjectsApart
    <3> HIDE DEF u, e, z
    <3>5. u \in 0 .. e - z /\ u .. u + n = u .. u + z - 1
      BY <3>2, <3>3 DEF z, Meta
    <3>6. \A r \in owned : r \cap (u .. u + z - 1) = {}
      BY <2>2, <3>2, <3>4, <3>5
    <3>7. owned' = owned \cup {u .. u + z - 1}
      BY <2>2, <2>3, <2>5, <3>2, <3>5
    <3>8. Objects!Grant(z)
      BY <3>5, <3>6, <3>7 DEF Objects!Grant, Objects!Run, owned, e
    <3>9. z \in {m + Meta : m \in Sizes}
      BY DEF z
    <3> QED  BY <3>8, <3>9 DEF Objects!Next
  <2>6. ASSUME NEW x \in live, live' = live \ {x}
        PROVE  Objects!Next
    <3>1. Accounted(Heap, cut, caches, meta, given, live, serial)
      BY DEF AInv
    <3>2. \A o \in live : o # x => Extent(o) # Extent(x)
      <4> SUFFICES ASSUME NEW o \in live, o # x PROVE Extent(o) # Extent(x)
        OBVIOUS
      <4>1. Extent(o) \cap Extent(x) = {}
        BY <3>1, ObjectsApart
      <4>2. Base(x) \in Extent(x)
        <5>1. Base(x) \in Nat /\ x.size \in Nat /\ Extent(x) = Base(x) .. Base(x) + x.size
          BY <3>1, ObjectLies
        <5> QED  BY <5>1
      <4> QED  BY <4>1, <4>2
    <3>3. owned' = owned \ {Extent(x)} /\ Extent(x) \in owned
      BY <2>2, <2>3, <2>6, <3>2
    <3>4. Objects!GiveBack
      BY <3>3 DEF Objects!GiveBack, owned
    <3> QED  BY <3>4 DEF Objects!Next
  <2> QED  BY <2>1, <2>4, <2>5, <2>6
<1> HIDE DEF owned
<1> QED  BY <1>1, <1>2, AllocInvariance, PTL DEF AllocSpec, ImplementsObjects, Objects!Spec, owned
=============================================================================
