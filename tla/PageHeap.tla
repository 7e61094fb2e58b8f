------------------------------ MODULE PageHeap ------------------------------
(***************************************************************************)
(* The page heap of the shared memory allocator (shm/detail/page_heap)     *)
(* with the metadata it works on: spans (runs of pages), the page-to-span  *)
(* map, the free lists, the span structures (metadata_allocator),          *)
(* and the user-data block it grows into (shm_mgr::sbrk).                  *)
(*                                                                         *)
(* The allocator is sequential: one action is one call of allocate_span()  *)
(* or deallocate_span().  What makes it hard is what one call leaves for   *)
(* later ones: entries of the map that are never erased, structures that   *)
(* are reused at once, splits that must be undone by merges.  A call is    *)
(* written as an operator on the whole heap, a record h, so that a call    *)
(* that uses others is their composition.                                  *)
(*                                                                         *)
(* A span structure that was given back is dead; to read one counts as a   *)
(* failed assertion.                                                       *)
(***************************************************************************)
EXTENDS Integers, Sequences, SequencesExt, FiniteSets

CONSTANTS
  MAX_PAGES,            \* spans of fewer pages have a free list of their own
  HEAP_GROW_PAGE_COUNT, \* pages the heap asks for at least
  USERDATA_GROW,        \* the block grows in steps of so many pages
  MmapPages,            \* pages of address space behind the block
  SpanPool,             \* span structures the metadata block has room for
  Requests,             \* page counts asked for, for large objects
  CachedRequests        \* and for the chunk cache

ASSUME HeapAssumption ==
  /\ {MAX_PAGES, HEAP_GROW_PAGE_COUNT, USERDATA_GROW, MmapPages, SpanPool} \subseteq Nat \ {0}
  /\ HEAP_GROW_PAGE_COUNT <= MAX_PAGES
  /\ HEAP_GROW_PAGE_COUNT <= MmapPages /\ USERDATA_GROW <= MmapPages  \* not checked by create_block
  /\ Requests \subseteq 1 .. MmapPages /\ CachedRequests \subseteq 1 .. MmapPages

VARIABLES
  spans,      \* span structures
  span_map,   \* page -> span; entries of inner pages may be out of date
  free_lists, \* per page count: free spans, latest first; [MAX_PAGES] is large_list_
  used_pages, \* pages of the user-data block handed to the heap
  real_pages, \* pages the block has; 0: not created yet
  used_size,  \* stat_.used_size
  failed      \* some assertion failed

vars == <<spans, span_map, free_lists, used_pages, real_pages, used_size, failed>>

Null == 0
SpanId == 1 .. SpanPool
Page == 0 .. MmapPages      \* one more than there are: the end of the last span
ListId == 1 .. MAX_PAGES

Dead == [start |-> 0, count |-> 0, in_use |-> FALSE, cached |-> FALSE, live |-> FALSE]

\* The heap as a value, and the step to it.
Heap == [spans |-> spans, map |-> span_map, lists |-> free_lists,
         brk |-> used_pages, real |-> real_pages, used |-> used_size, failed |-> failed]

Becomes(h) ==
  /\ spans' = h.spans /\ span_map' = h.map /\ free_lists' = h.lists
  /\ used_pages' = h.brk /\ real_pages' = h.real /\ used_size' = h.used
  /\ failed' = h.failed

Init ==
  /\ spans = [s \in SpanId |-> Dead]
  /\ span_map = [p \in Page |-> Null] /\ free_lists = [c \in ListId |-> <<>>]
  /\ used_pages = 0 /\ real_pages = 0 /\ used_size = 0 /\ failed = FALSE

Check(h, ok) == [h EXCEPT !.failed = @ \/ ~ok]

last_page(sp) == sp.start + sp.count - 1
------------------------------------------------------------------------------
(* Span structures and lists *)

ListOf(count) == IF count < MAX_PAGES THEN count ELSE MAX_PAGES

link(h, s) == [h EXCEPT !.lists[ListOf(h.spans[s].count)] = <<s>> \o @]

\* A list without s, which is in it once at most.
Unlinked(l, s) == IF s \in ToSet(l) THEN RemoveAt(l, CHOOSE i \in DOMAIN l : l[i] = s) ELSE l

span_list_remove(h, s) == [h EXCEPT !.lists = [c \in ListId |-> Unlinked(h.lists[c], s)]]

\* Mutant: the last page of a new span is not entered in the map.
SetEndsFirst(map, sp, s) == [map EXCEPT ![sp.start] = s]

\* Both ends of a span are in the map.
SetEnds(map, sp, s) == [map EXCEPT ![sp.start] = s, ![last_page(sp)] = s]

\* metadata_allocator: a structure that is not in use.  Any will do.
HasSpare(h) == \E s \in SpanId : ~h.spans[s].live
Spare(h) == CHOOSE s \in SpanId : ~h.spans[s].live

\* new_span(), then set_span_map() for its two ends.
NewSpan(h, start, count) ==
  LET s == Spare(h)
      sp == [start |-> start, count |-> count, in_use |-> FALSE, cached |-> FALSE, live |-> TRUE]
  IN  [h EXCEPT !.spans[s] = sp, !.map = SetEnds(@, sp, s)]

\* span_list_remove(), then del_span()
DropSpan(h, s) == [span_list_remove(h, s) EXCEPT !.spans[s] = Dead]
------------------------------------------------------------------------------
(* Finding, carving, growing and merging *)

\* Mutant: the span handed out keeps its whole length.
CarveKeepsCount(h, s, n) ==
  LET sp == h.spans[s]
      g == span_list_remove(h, s)
  IN  IF sp.count = n THEN [g EXCEPT !.spans[s].in_use = TRUE]
      ELSE [link(NewSpan(g, sp.start + n, sp.count - n), Spare(g)) EXCEPT !.spans[s].in_use = TRUE]

\* Take a free span; what is left of it becomes a span of its own, unless
\* there is no structure for that: the whole span is handed out then.
carve(h, s, n) ==
  LET sp == h.spans[s]
      g == span_list_remove(Check(h, ~sp.in_use /\ sp.count >= n), s)
      extra == sp.count - n
      use(k) == [k EXCEPT !.spans[s].in_use = TRUE]
      next == h.map[sp.start + sp.count]
      split ==
        LET k == NewSpan(g, sp.start + n, extra) IN
        [Check(link(k, Spare(g)), next = Null \/ h.spans[next].in_use)
           EXCEPT !.spans[s].count = n, !.map[sp.start + n - 1] = s]
  IN  IF extra = 0 \/ ~HasSpare(g) THEN use(g) ELSE use(split)

\* Mutant: only the latest of the large spans is considered.
FirstFit(h, n) ==
  LET s == IF h.lists[MAX_PAGES] = <<>> THEN Null ELSE Head(h.lists[MAX_PAGES])
  IN  IF s # Null /\ h.spans[s].count >= n THEN s ELSE Null

\* allocate_large: the smallest that fits, the lowest of those.
BestFit(h, n) ==
  LET fit == {s \in ToSet(h.lists[MAX_PAGES]) : h.spans[s].count >= n}
      better(s, t) == \/ h.spans[s].count < h.spans[t].count
                      \/ h.spans[s].count = h.spans[t].count /\ h.spans[s].start <= h.spans[t].start
  IN  IF fit = {} THEN Null ELSE CHOOSE s \in fit : \A t \in fit : better(s, t)

\* search_existing, as far as finding the span goes.
Existing(h, n) ==
  LET small == {c \in n .. MAX_PAGES - 1 : h.lists[c] # <<>>} IN
  IF small # {} THEN Head(h.lists[Min(small)]) ELSE BestFit(h, n)

\* shm_mgr::sbrk: the block as it is with n more pages in use, or unchanged
\* when it would outgrow its address space.  The first call creates the block.
sbrk(h, n) ==
  LET steps == (n - (h.real - h.brk) + USERDATA_GROW - 1) \div USERDATA_GROW
      real == IF h.real = 0 THEN Max({USERDATA_GROW, n})
              ELSE IF h.real - h.brk >= n THEN h.real
              ELSE h.real + steps * USERDATA_GROW
  IN  IF real <= MmapPages THEN [h EXCEPT !.real = real, !.brk = @ + n] ELSE h

\* Merge s with a free neighbour t: s takes its pages, the structure of t goes.
Merge(h, s, t) ==
  LET sp == h.spans[s]
      tp == h.spans[t]
      both == [sp EXCEPT !.start = IF tp.start < sp.start THEN tp.start ELSE sp.start, !.count = sp.count + tp.count]
  IN  [DropSpan(h, t) EXCEPT !.spans[s] = both, !.map = SetEnds(@, both, s)]

\* Mutant: any neighbour is merged.
AnyAt(h, p) == IF p \in Page THEN h.map[p] ELSE Null

\* A page's span, if there is one that is not in use.
FreeAt(h, p) ==
  IF p \in Page /\ h.map[p] # Null /\ ~h.spans[h.map[p]].in_use THEN h.map[p] ELSE Null

\* Mutant: the span after the freed one is left alone.
MergePrevOnly(h, s) ==
  LET sp == h.spans[s]
      prev == FreeAt(h, sp.start - 1)
  IN  IF prev = Null THEN h ELSE Merge(Check(h, h.spans[prev].live), s, prev)

\* Both neighbours are looked up from where the span was before it grew.
MergeNeighbours(h, s) ==
  LET sp == h.spans[s]
      prev == FreeAt(h, sp.start - 1)
      next == FreeAt(h, sp.start + sp.count)
      g == IF prev = Null THEN h
           ELSE Merge(Check(h, h.spans[prev].live /\ last_page(h.spans[prev]) + 1 = sp.start), s, prev)
  IN  IF next = Null THEN g
      ELSE Merge(Check(g, h.spans[next].live /\ h.spans[next].start = sp.start + sp.count), s, next)

Listed(h, s) == \E c \in ListId : s \in ToSet(h.lists[c])

deallocate_span_in(h, s) ==
  LET sp == h.spans[s]
      g == Check(h, /\ sp.live /\ sp.in_use /\ sp.count > 0 /\ ~Listed(h, s)
                    /\ h.map[sp.start] = s /\ h.map[last_page(sp)] = s)
      k == MergeNeighbours([g EXCEPT !.spans[s] = [@ EXCEPT !.in_use = FALSE, !.cached = FALSE]], s)
  IN  [Check(link(k, s), h.used >= sp.count) EXCEPT !.used = @ - sp.count]

\* A span made to look allocated, for deallocate_span to take back.
AsAllocated(h, s, n) == [h EXCEPT !.spans[s].in_use = TRUE, !.used = @ + n]

\* The pages g has more than h become a span that is freed at once, which
\* merges it with what lies before.  When there is no span structure for
\* them, an assertion fails.
GrowTo(h, g) ==
  LET got == g.brk - h.brk IN
  CASE got = 0 -> h
    [] got # 0 /\ ~HasSpare(g) -> Check(g, FALSE)
    [] OTHER -> deallocate_span_in(AsAllocated(NewSpan(g, h.brk, got), Spare(g), got), Spare(g))

\* grow_heap: a generous request, then an exact one.
grow_heap(h, n) ==
  LET generous == sbrk(h, Max({n, HEAP_GROW_PAGE_COUNT}))
  IN  GrowTo(h, IF generous # h THEN generous ELSE sbrk(h, n))

\* The heap allocate_span searches: as it is, or grown when that does not help.
Searched(h, n) == IF Existing(h, n) # Null THEN h ELSE grow_heap(h, n)

\* Mutant: only the ends of the span are looked after.
RegisterNone(h, s) == [h EXCEPT !.spans[s].cached = TRUE]

\* register_span: the chunk cache wants every page of its span in the map.
register_span_in(h, s) ==
  LET sp == h.spans[s] IN
  [h EXCEPT !.map = [p \in Page |-> IF p \in sp.start + 1 .. last_page(sp) - 1 THEN s ELSE @[p]],
            !.spans[s].cached = TRUE]

\* allocate_span(n): the heap afterwards and the span, Null when there is none.
CarveFrom(h, n) ==
  LET s == Existing(h, n)
  IN  [heap |-> IF s = Null THEN h ELSE [carve(h, s, n) EXCEPT !.used = @ + n], span |-> s]

allocate_span_in(h, n) == CarveFrom(Searched(h, n), n)

\* A request of the chunk cache, which registers the span, or for a large object.
allocate_span(n, cached) ==
  \E a \in {allocate_span_in(Heap, n)} :
    Becomes(IF cached /\ a.span # Null THEN register_span_in(a.heap, a.span) ELSE a.heap)

\* The owner of a span, the chunk cache or shm_mgr::free, gives it back.
deallocate_span(s) ==
  /\ spans[s].live /\ spans[s].in_use
  /\ Becomes(deallocate_span_in(Heap, s))

Next ==
  \/ \E n \in Requests : allocate_span(n, FALSE)
  \/ \E n \in CachedRequests : allocate_span(n, TRUE)
  \/ \E s \in SpanId : deallocate_span(s)

Spec == Init /\ [][Next]_vars
------------------------------------------------------------------------------
Live == {s \in SpanId : spans[s].live}
Pages(s) == spans[s].start .. last_page(spans[s])

\* Types of the heap's structures.
TypeOK ==
  /\ spans \in [SpanId -> [start : Nat, count : Nat, in_use : BOOLEAN,
                           cached : BOOLEAN, live : BOOLEAN]]
  /\ span_map \in [Page -> SpanId \cup {Null}]
  /\ \A c \in ListId : ToSet(free_lists[c]) \subseteq SpanId
  /\ used_pages \in 0 .. MmapPages /\ real_pages \in used_pages .. MmapPages
  /\ used_size \in 0 .. MmapPages

\* No assertion of page_heap.cpp fails, and no structure is read that was
\* given back, in whatever order spans are taken and returned.
NoAssertionFails == failed = FALSE

\* The live spans partition the pages the heap has: none is lost, and no two
\* owners have a page in common; and the structures have their types.
HeapTiled ==
  /\ TypeOK
  /\ UNION {Pages(s) : s \in Live} = 0 .. used_pages - 1
  /\ \A s, t \in Live : s # t => Pages(s) \cap Pages(t) = {}
  /\ \A s \in Live : spans[s].count > 0

\* A lookup finds the right span although old entries stay in the map: at
\* both ends of every span, where neighbours look, and at every page of a
\* span cut into chunks, where shm_mgr::free looks.
SpanMapExact ==
  \A s \in Live :
    /\ span_map[spans[s].start] = s /\ span_map[last_page(spans[s])] = s
    /\ spans[s].cached => \A p \in Pages(s) : span_map[p] = s

Once(l) == \A i, j \in DOMAIN l : l[i] = l[j] => i = j

\* The free lists hold each free span once, in the list of its size, and no
\* two free spans are neighbours: the heap never grows for want of a merge.
FreeIsMerged ==
  /\ \A s \in SpanId, c \in ListId :
       s \in ToSet(free_lists[c]) <=> s \in Live /\ ~spans[s].in_use /\ c = ListOf(spans[s].count)
  /\ \A c \in ListId : Once(free_lists[c])
  /\ \A s, t \in Live : last_page(spans[s]) + 1 = spans[t].start => spans[s].in_use \/ spans[t].in_use

\* allocate_span(n) fails only when no n pages in a row are free and the
\* block cannot grow: nothing is hidden in the wrong list or left unmerged.
RefusedOnlyWhenFull ==
  \A n \in Requests \cup CachedRequests :
    Existing(Searched(Heap, n), n) = Null =>
      /\ sbrk(Heap, n) = Heap
      /\ \A p \in 0 .. used_pages - n :
           \E s \in Live : spans[s].in_use /\ Pages(s) \cap (p .. p + n - 1) # {}

\* used_size is what its comment says, the pages in use.
UsedIsInUse ==
  used_size = Cardinality(UNION {Pages(s) : s \in {t \in Live : spans[t].in_use}})

\* What the callers of the page heap see of it.
Owners == INSTANCE PageOwners WITH
  MaxPage <- MmapPages,
  Sizes <- Requests \cup CachedRequests,
  owned <- {Pages(s) : s \in {t \in Live : spans[t].in_use}}

\* allocate_span() hands out what was asked for and what nobody has, and
\* nothing that happens to other spans, splits, merges or growth of the heap,
\* changes what somebody holds.
ImplementsOwners == Owners!Spec
==============================================================================
