------------------------------ MODULE ShmAlloc ------------------------------
(***************************************************************************)
(* The shared memory allocator as its users see it: shm_mgr's malloc(),    *)
(* free() and singletons, on top of the chunk cache (chunk_cache, span)    *)
(* and the page heap (PageHeap).                                           *)
(*                                                                         *)
(* Memory is counted in units: a page has PAGE_SIZE of them and a shm_meta *)
(* takes one, the unit before the address a user gets.  A shm_meta is      *)
(* modelled by its serial number; 0 stands for anything else, because the  *)
(* magic number tells it from the links of a chunk list.  What users write *)
(* is assumed not to look like a shm_meta.                                 *)
(*                                                                         *)
(* The global statistics are the sums of those of the classes and are left *)
(* out, as are the counts of calls.                                        *)
(***************************************************************************)
EXTENDS PageHeap

CONSTANTS
  PAGE_SIZE,   \* units of a page
  Classes,     \* sequence of size classes: [size |-> units, pages |-> of a span]
  MaxSerial,   \* the serial number that is followed by MIN_VALID_SERIAL_NUM
  Sizes,       \* sizes users ask for
  MaxMalloc    \* bound: successful calls of malloc()

MIN_VALID_SERIAL_NUM == 3

ASSUME AllocAssumption ==
  /\ {PAGE_SIZE, MaxMalloc} \subseteq Nat \ {0} /\ Sizes \subseteq Nat
  /\ MaxSerial \in Nat /\ MaxSerial >= MIN_VALID_SERIAL_NUM
  /\ Classes \in Seq([size : Nat, pages : Nat])
  /\ \A c \in DOMAIN Classes : Classes[c].size \in 1 .. Classes[c].pages * PAGE_SIZE

VARIABLES
  cut,        \* of each span: size_class_ (0: none), used_count_ and chunk_list_
  caches,     \* of each class: the spans with free chunks, span_count and statistics
  meta,       \* the serial number in the shm_meta at a unit; 0: there is none
  serial,     \* serial_
  singleton,  \* singletons_[id], for one id
  given,      \* history: all pointers malloc() returned
  live        \* history: those not freed yet

allocVars == <<cut, caches, meta, serial, singleton, given, live>>

Meta == 1                                  \* sizeof(shm_meta)
NoClass == 0
NullPtr == [serial |-> 0, offset |-> 0]
Unit == 0 .. MmapPages * PAGE_SIZE - 1
Whole == [cls |-> NoClass, used |-> 0, chunks |-> <<>>]

\* What malloc() and free() work on.
Mem == [heap |-> Heap, cut |-> cut, caches |-> caches, meta |-> meta]

MemBecomes(m) ==
  Becomes(m.heap) /\ cut' = m.cut /\ caches' = m.caches /\ meta' = m.meta

MemCheck(m, ok) == [m EXCEPT !.heap = Check(@, ok)]

AllocInit ==
  /\ Init
  /\ cut = [s \in SpanId |-> Whole]
  /\ caches = [c \in DOMAIN Classes |-> [list |-> <<>>, count |-> 0, used |-> 0, total |-> 0]]
  /\ meta = [u \in Unit |-> 0]
  /\ serial = MIN_VALID_SERIAL_NUM /\ singleton = NullPtr
  /\ given = {} /\ live = {}
------------------------------------------------------------------------------
(* span: cutting into chunks, taking one and putting one back *)

\* Mutant: a chunk too many, which reaches over the end of the span.
partitionOver(sp, c) ==
  LET base == sp.start * PAGE_SIZE
      n == (sp.count * PAGE_SIZE) \div Classes[c].size + 1
  IN  [cls |-> c, used |-> 0, chunks |-> [i \in 1 .. n |-> base + (i - 1) * Classes[c].size]]

\* As many chunks as fit, lowest first.
partition(sp, c) ==
  LET base == sp.start * PAGE_SIZE
      n == (sp.count * PAGE_SIZE) \div Classes[c].size
  IN  [cls |-> c, used |-> 0, chunks |-> [i \in 1 .. n |-> base + (i - 1) * Classes[c].size]]

fetch(k) == [k EXCEPT !.used = @ + 1, !.chunks = Tail(@)]

recycle(k, u) == [k EXCEPT !.used = @ - 1, !.chunks = <<u>> \o @]

\* The links of a chunk list are written where a shm_meta would be.
Unmeta(m, us) == [m EXCEPT !.meta = [u \in Unit |-> IF u \in us THEN 0 ELSE @[u]]]
------------------------------------------------------------------------------
(* chunk_cache *)

Prepend(cache, s) == [cache EXCEPT !.list = <<s>> \o @, !.count = @ + 1]
Unlink(cache, s) == [cache EXCEPT !.list = Unlinked(@, s), !.count = @ - 1]

\* A span from the page heap, registered, cut and put in the list of its class.
AddSpan(m, a, c) ==
  LET k == partition(a.heap.spans[a.span], c)
      cache == Prepend(m.caches[c], a.span)
      g == [m EXCEPT !.heap = register_span_in(a.heap, a.span),
                     !.cut[a.span] = k,
                     !.caches[c] = [cache EXCEPT !.total = @ + Classes[c].pages]]
  IN  Unmeta(MemCheck(g, m.cut[a.span] = Whole), ToSet(k.chunks))

\* A chunk of the first span in the list; a span that is full then leaves it.
TakeChunk(m, c) ==
  LET s == Head(m.caches[c].list)
      k == fetch(m.cut[s])
      cache == IF k.chunks = <<>> THEN Unlink(m.caches[c], s) ELSE m.caches[c]
  IN  [mem |-> [m EXCEPT !.cut[s] = k, !.caches[c] = [cache EXCEPT !.used = @ + Classes[c].size]],
       units |-> {Head(m.cut[s].chunks)}]

\* A span the page heap was asked for, if it had one.
Refill(m, a, c) ==
  IF a.span = Null THEN [mem |-> [m EXCEPT !.heap = a.heap], units |-> {}]
  ELSE TakeChunk(AddSpan(m, a, c), c)

\* The memory afterwards and the chunk; without a chunk when no span is left.
allocate_chunk(m, c) ==
  IF m.caches[c].list # <<>> THEN TakeChunk(MemCheck(m, m.caches[c].count > 0), c)
  ELSE Refill(m, allocate_span_in(m.heap, Classes[c].pages), c)

\* Mutant: one more span than needed is kept.
SpareableOff(m, s, c) == m.caches[c].count > IF m.cut[s].chunks = <<>> THEN 1 ELSE 2

\* An empty span goes back to the page heap if its class has another one in
\* its list; the span itself is in that list unless it was full.
Spareable(m, s, c) == m.caches[c].count > IF m.cut[s].chunks = <<>> THEN 0 ELSE 1

\* erase() and deallocate_span(), after the span is out of its list.
ReturnSpan(m, s, c) ==
  LET pages == m.heap.spans[s].count
      cache == IF m.cut[s].chunks = <<>> THEN m.caches[c] ELSE Unlink(m.caches[c], s)
  IN  MemCheck([m EXCEPT !.caches[c] = [cache EXCEPT !.total = @ - pages],
                         !.cut[s] = Whole,
                         !.heap = deallocate_span_in(@, s)],
               cache.total >= pages)

\* Where the span of a recycled chunk goes.
Replace(m, s, c, k) ==
  LET full_before == m.cut[s].chunks = <<>>
      empty_after == k.used <= 0
  IN  CASE empty_after /\ Spareable(m, s, c) -> ReturnSpan(m, s, c)
        [] full_before /\ ~(empty_after /\ Spareable(m, s, c)) ->
             MemCheck([m EXCEPT !.cut[s] = k, !.caches[c] = Prepend(@, s)],
                      s \notin ToSet(m.caches[c].list))
        [] OTHER -> [m EXCEPT !.cut[s] = k]

Uncount(m, c) ==
  MemCheck([m EXCEPT !.caches[c].used = @ - Classes[c].size], m.caches[c].used >= Classes[c].size)

deallocate_chunk(m, u, s) ==
  Uncount(Replace(Unmeta(MemCheck(m, m.cut[s].used > 0), {u}), s, m.cut[s].cls, recycle(m.cut[s], u)),
          m.cut[s].cls)
------------------------------------------------------------------------------
(* shm_mgr *)

\* size2class: the smallest class that holds so many units; 0: too large.
size2class(n) ==
  LET fit == {c \in DOMAIN Classes : Classes[c].size >= n}
  IN  IF fit = {} THEN NoClass ELSE CHOOSE c \in fit : \A d \in fit : Classes[c].size <= Classes[d].size

\* The pages of a span for one object.
WholeSpan(m, a) ==
  [mem |-> [m EXCEPT !.heap = a.heap],
   units |-> IF a.span = Null THEN {} ELSE {a.heap.spans[a.span].start * PAGE_SIZE}]

\* Memory for n units with the shm_meta: a chunk, or pages of its own.
Obtain(m, n) ==
  IF size2class(n) # NoClass THEN allocate_chunk(m, size2class(n))
  ELSE WholeSpan(m, allocate_span_in(m.heap, (n + PAGE_SIZE - 1) \div PAGE_SIZE))

NextSerial(n) == IF n = MaxSerial THEN MIN_VALID_SERIAL_NUM ELSE n + 1

\* malloc(): nothing more happens when there is no memory.
MallocInto(bytes, asSingleton) ==
  \E got \in {Obtain(Mem, bytes + Meta)} :
     \/ /\ got.units = {}
        /\ MemBecomes(got.mem)
        /\ UNCHANGED <<serial, singleton, given, live>>
     \/ \E base \in got.units :
          LET ptr == [serial |-> serial, offset |-> base + Meta]
              obj == [ptr |-> ptr, size |-> bytes, born |-> Cardinality(given) + 1]
          IN  /\ Cardinality(given) < MaxMalloc
              /\ MemBecomes([got.mem EXCEPT !.meta[base] = serial])
              /\ serial' = NextSerial(serial)
              /\ given' = given \cup {obj} /\ live' = live \cup {obj}
              /\ singleton' = IF asSingleton THEN ptr ELSE singleton

malloc(bytes) == MallocInto(bytes, FALSE)

\* Mutant: the serial number stays in the freed object.
FreeKeepsMeta(m, ptr) ==
  LET base == ptr.offset - Meta
      s == m.heap.map[base \div PAGE_SIZE]
  IN  IF m.meta[base] # ptr.serial THEN m
      ELSE IF m.cut[s].cls = NoClass THEN [m EXCEPT !.heap = deallocate_span_in(@, s)]
      ELSE [deallocate_chunk(m, base, s) EXCEPT !.meta[base] = ptr.serial]

\* free(): a pointer whose serial number is not the object's is ignored.
FreeIn(m, ptr) ==
  LET base == ptr.offset - Meta
      g == [m EXCEPT !.meta[base] = 0]
      s == m.heap.map[base \div PAGE_SIZE]
  IN  CASE m.meta[base] # ptr.serial -> m
        [] m.meta[base] = ptr.serial /\ s = Null -> MemCheck(g, FALSE)
        [] m.meta[base] = ptr.serial /\ s # Null /\ m.cut[s].cls = NoClass ->
             MemCheck([g EXCEPT !.heap = deallocate_span_in(@, s)], m.cut[s] = Whole)
        [] OTHER -> deallocate_chunk(g, base, s)

\* A user frees a pointer it has, perhaps a second time.  What a singleton's
\* pointer leads to is freed with the singleton.
free(obj) ==
  /\ ~(obj \in live /\ obj.ptr = singleton)
  /\ \E m \in {FreeIn(Mem, obj.ptr)} : MemBecomes(m)
  /\ live' = live \ {o \in live : meta[obj.ptr.offset - Meta] = obj.ptr.serial /\ o.ptr = obj.ptr}
  /\ UNCHANGED <<serial, singleton, given>>

\* get_singleton(): only the first call allocates.
get_singleton(bytes) ==
  /\ singleton = NullPtr
  /\ MallocInto(bytes, TRUE)

free_singleton ==
  /\ singleton # NullPtr
  /\ \E m \in {FreeIn(Mem, singleton)} : MemBecomes(m)
  /\ live' = {o \in live : o.ptr # singleton}
  /\ singleton' = NullPtr
  /\ UNCHANGED <<serial, given>>

AllocNext ==
  \/ \E n \in Sizes : malloc(n) \/ get_singleton(n)
  \/ \E obj \in given : free(obj)
  \/ free_singleton

AllocSpec == AllocInit /\ [][AllocNext]_<<vars, allocVars>>
------------------------------------------------------------------------------
\* addr2ptr(): the address, or nothing when the object is not there any more.
addr2ptr(ptr) == IF meta[ptr.offset - Meta] = ptr.serial THEN {ptr.offset} ELSE {}

\* A pointer leads to its object as long as that lives, whatever is allocated
\* and freed around it.  Afterwards it leads nowhere, although its memory is
\* used again, until the serial numbers have gone round once.
PointersResolve ==
  \A obj \in given :
    /\ obj \in live => addr2ptr(obj.ptr) = {obj.ptr.offset}
    /\ obj \notin live =>
         \/ addr2ptr(obj.ptr) = {}
         \/ Cardinality(given) - obj.born >= MaxSerial - MIN_VALID_SERIAL_NUM + 1

\* The books of the chunk cache: a class lists exactly its spans with free
\* chunks, keeps at most one that is empty, and counts what is in use and the
\* pages it has; the chunks of a span are free or hold one live object, none
\* is lost.
CacheExact ==
  \A c \in DOMAIN Classes :
    LET mine == {s \in SpanId : cut[s].cls = c}
        bases(s) == {o.ptr.offset - Meta : o \in {p \in live : span_map[(p.ptr.offset - Meta) \div PAGE_SIZE] = s}}
    IN  /\ ToSet(caches[c].list) = {s \in mine : cut[s].chunks # <<>>}
        /\ caches[c].count = Cardinality(ToSet(caches[c].list)) /\ caches[c].count = Len(caches[c].list)
        /\ Cardinality({s \in mine : cut[s].used = 0}) <= 1
        /\ caches[c].used = Classes[c].size * Cardinality(UNION {bases(s) : s \in mine})
        /\ caches[c].total = Cardinality(UNION {Pages(s) : s \in mine})
        /\ \A s \in mine :
             /\ spans[s].in_use /\ cut[s].used = Cardinality(bases(s))
             /\ bases(s) \cap ToSet(cut[s].chunks) = {}
             /\ bases(s) \cup ToSet(cut[s].chunks) = ToSet(partition(spans[s], c).chunks)

\* What the users of the allocator see of it, in units.
Objects == INSTANCE PageOwners WITH
  MaxPage <- MmapPages * PAGE_SIZE,
  Sizes <- {n + Meta : n \in Sizes},
  owned <- {o.ptr.offset - Meta .. o.ptr.offset - 1 + o.size : o \in live}

\* malloc() hands out memory that nobody has, and no other call touches it
\* until it is freed, by a pointer whose serial number is the object's.
ImplementsObjects == Objects!Spec
=============================================================================
