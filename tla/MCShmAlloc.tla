----------------------------- MODULE MCShmAlloc -----------------------------
(***************************************************************************)
(* A heap of up to six pages of four units.  Objects of one unit are       *)
(* chunks, two to a page; objects of five units are chunks, two to a span  *)
(* of three pages, so that the second begins on an inner page; objects of  *)
(* seven units have two pages of their own.  The serial numbers go round   *)
(* after three objects.                                                    *)
(*                                                                         *)
(* Which class a size has is a parameter of ShmAlloc.  The table of size   *)
(* classes of the source (shm/detail/size_map), with its own values, is    *)
(* here: what init() computes and what size2class() finds in it.  All of   *)
(* it is computed once and never changes.                                  *)
(***************************************************************************)
EXTENDS ShmAlloc, SequencesExt

MCClasses == <<[size |-> 2, pages |-> 1], [size |-> 6, pages |-> 3]>>
------------------------------------------------------------------------------
(* The table of size classes *)

MAX_SIZE == 256 * 1024
MAX_SMALL_SIZE == 1024
SIZE_CLASS_COUNT == 87
BASE_ALIGNMENT == 8
MIN_ALIGNMENT == 16
SIZE_OF_PAGE == 8192

chunk_count(bytes) ==
  IF bytes = 0 THEN 0 ELSE Max({2, Min({32, (64 * 1024) \div bytes})})

\* Binary search for the highest bit set.
lg_floor(n) ==
  LET halve(a, shift) ==
        LET x == a.n \div 2 ^ shift IN IF x # 0 THEN [n |-> x, log |-> a.log + shift] ELSE a
  IN  FoldLeft(halve, [n |-> n, log |-> 0], <<16, 8, 4, 2, 1>>).log

calc_alignment(bytes) ==
  LET alignment == CASE bytes > MAX_SIZE -> SIZE_OF_PAGE
                     [] bytes <= MAX_SIZE /\ bytes >= 128 -> 2 ^ lg_floor(bytes) \div 8
                     [] bytes < 128 /\ bytes >= MIN_ALIGNMENT -> MIN_ALIGNMENT
                     [] OTHER -> BASE_ALIGNMENT
  IN  Min({alignment, SIZE_OF_PAGE})

\* The pages of a span for chunks of this size: at most an eighth is left
\* over and enough chunks are in it.  MaxSpanPages bounds the search.
MaxSpanPages == 64

PagesFor(size) ==
  Min({p \in 1 .. MaxSpanPages :
         LET psize == p * SIZE_OF_PAGE IN
         /\ psize % size <= psize \div 8
         /\ psize \div size >= chunk_count(size) \div 4})

\* A size is a class of its own, unless as many of its chunks are in a span
\* as of those of the class before: that class takes it in.
AddClass(classes, size) ==
  LET pages == PagesFor(size)
      n == Len(classes)
      last == classes[n]
      chunks(sz) == (pages * SIZE_OF_PAGE) \div sz
  IN  IF n > 0 /\ pages = last.pages /\ chunks(size) = chunks(last.size)
      THEN [classes EXCEPT ![n].size = size]
      ELSE Append(classes, [size |-> size, pages |-> pages])

RECURSIVE ClassesFrom(_, _)
ClassesFrom(size, classes) ==
  IF size > MAX_SIZE \/ Len(classes) >= SIZE_CLASS_COUNT THEN classes
  ELSE ClassesFrom(size + calc_alignment(size), AddClass(classes, size))

\* class2size_ and class2pages_; class 0 is not used.
SizeClasses == ClassesFrom(BASE_ALIGNMENT, <<>>)

small_index(bytes) == (bytes + 7) \div 8

\* Mutant: sizes are rounded down to the next multiple of 128.
large_indexDown(bytes) == (bytes + 120 * 128) \div 128

large_index(bytes) == (bytes + 127 + 120 * 128) \div 128

class_index(bytes) ==
  IF bytes <= MAX_SMALL_SIZE THEN small_index(bytes) ELSE large_index(bytes)

\* Class after class fills the indices of its sizes; the last one stands.
index2class ==
  LET n == Len(SizeClasses)
      first(c) == IF c = 1 THEN 0 ELSE SizeClasses[c - 1].size + BASE_ALIGNMENT
      filled == [c \in 1 .. n |-> class_index(first(c)) .. class_index(SizeClasses[c].size)]
  IN  [i \in 0 .. class_index(MAX_SIZE) |-> Max({c \in 1 .. n : i \in filled[c]})]

ClassOf(bytes) == index2class[class_index(bytes)]
\* The sizes that matter: all small ones, and the first and last of every 128
\* bytes above, between which neither the index nor the best class changes.
EdgeSizes ==
  0 .. MAX_SMALL_SIZE \cup UNION {{128 * k + 1, 128 * k + 128} : k \in 8 .. MAX_SIZE \div 128 - 1}

\* For every size up to MAX_SIZE the table yields the smallest class that
\* holds it; there are not too many classes; a span of a class wastes at most
\* an eighth and its size is a multiple of the alignment.  init() itself looks
\* at one size in 128 only.
TableExact ==
  LET n == Len(SizeClasses) IN
  /\ n < SIZE_CLASS_COUNT
  /\ \A c \in 1 .. n :
       LET k == SizeClasses[c] IN
       /\ k.size % BASE_ALIGNMENT = 0 /\ k.size >= BASE_ALIGNMENT
       /\ (k.pages * SIZE_OF_PAGE) % k.size <= (k.pages * SIZE_OF_PAGE) \div 8
       /\ c > 1 => SizeClasses[c - 1].size < k.size
  /\ \A bytes \in EdgeSizes :
       LET c == ClassOf(bytes) IN
       /\ c \in 1 .. n /\ SizeClasses[c].size >= bytes
       /\ c > 1 => SizeClasses[c - 1].size < bytes

\* Whenever a chunk has been handed out, the table it was chosen by is right:
\* for every size up to MAX_SIZE it yields the smallest class that holds it,
\* which is what size2class is taken to do in ShmAlloc.
SizeClassesFit == live # {} => TableExact
=============================================================================
