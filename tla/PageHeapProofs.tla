--------------------------- MODULE PageHeapProofs ---------------------------
(***************************************************************************)
(* Proofs about the page heap, for a heap of any size and any sequence of  *)
(* allocate_span() and deallocate_span().  The invariant is a predicate on *)
(* a heap value, Good, so that it can be followed through the operators a  *)
(* call is composed of.  In the middle of a call one span is in no list    *)
(* and may have free neighbours: Loose(h, x) is what holds then, x being   *)
(* that span, and Sound(h) is Loose without an exception.                  *)
(***************************************************************************)
EXTENDS PageHeap, FiniteSetTheorems, WellFoundedInduction, TLAPS

-----------------------------------------------------------------------------
(* The invariant *)

Span == [start : Nat, count : Nat, in_use : BOOLEAN, cached : BOOLEAN, live : BOOLEAN]

Heaps == [spans : [SpanId -> Span], map : [Page -> SpanId \cup {Null}],
          lists : [ListId -> Seq(SpanId)], brk : Nat, real : Nat, used : Int, failed : BOOLEAN]

LiveIn(h) == {s \in SpanId : h.spans[s].live}
Start(h, s) == h.spans[s].start
End(h, s) == h.spans[s].start + h.spans[s].count

Shape(h) ==
  /\ h \in Heaps /\ h.brk <= h.real /\ h.real <= MmapPages
  /\ \A s \in LiveIn(h) : h.spans[s].count > 0 /\ End(h, s) <= h.brk

Apart(h) ==
  \A s, t \in LiveIn(h) : s # t => End(h, s) <= Start(h, t) \/ End(h, t) <= Start(h, s)

Covered(h) ==
  \A p \in 0 .. h.brk - 1 : \E s \in LiveIn(h) : Start(h, s) <= p /\ p < End(h, s)

\* Pages the heap does not have yet have no entry.
Mapped(h) ==
  /\ \A s \in LiveIn(h) : h.map[Start(h, s)] = s /\ h.map[End(h, s) - 1] = s
  /\ \A s \in LiveIn(h) : h.spans[s].cached =>
       h.spans[s].in_use /\ \A p \in Page : Start(h, s) <= p /\ p < End(h, s) => h.map[p] = s
  /\ \A p \in Page : p >= h.brk => h.map[p] = Null

Filed(h, x) ==
  /\ \A c \in ListId : Once(h.lists[c])
  /\ \A s \in SpanId, c \in ListId : s \in ToSet(h.lists[c]) <=>
       s \in LiveIn(h) /\ ~h.spans[s].in_use /\ s # x /\ c = ListOf(h.spans[s].count)

Merged(h, x) ==
  \A s, t \in LiveIn(h) : s # x /\ t # x /\ End(h, s) = Start(h, t) =>
    h.spans[s].in_use \/ h.spans[t].in_use

Loose(h, x) == Shape(h) /\ Apart(h) /\ Covered(h) /\ Mapped(h) /\ Filed(h, x) /\ Merged(h, x)
Sound(h) == Loose(h, Null)

\* The pages in use, of which used_size is the number.
InUse(h) == {p \in Page : \E s \in LiveIn(h) : h.spans[s].in_use /\ Start(h, s) <= p /\ p < End(h, s)}

Good(h) == Sound(h) /\ h.used = Cardinality(InUse(h)) /\ h.failed = FALSE

\* The inductive invariant.
IInv == Good(Heap)

LEMMA Constants ==
  /\ MAX_PAGES \in Nat \ {0} /\ HEAP_GROW_PAGE_COUNT \in Nat \ {0} /\ USERDATA_GROW \in Nat \ {0}
  /\ MmapPages \in Nat \ {0} /\ SpanPool \in Nat \ {0}
  /\ 0 \in Page /\ Null \notin SpanId /\ SpanId \subseteq Nat /\ Page \subseteq Nat
  BY HeapAssumption DEF Page, SpanId, Null
-----------------------------------------------------------------------------
(* Lists *)

LEMMA Linked ==
  ASSUME NEW S, NEW l \in Seq(S), NEW s \in S, Once(l), s \notin ToSet(l)
  PROVE  <<s>> \o l \in Seq(S) /\ Once(<<s>> \o l) /\ ToSet(<<s>> \o l) = ToSet(l) \cup {s}
<1> DEFINE m == <<s>> \o l
<1>1. /\ m \in Seq(S) /\ Len(m) = Len(l) + 1 /\ Len(l) \in Nat /\ m[1] = s
      /\ \A i \in 2 .. Len(l) + 1 : m[i] = l[i - 1]
  OBVIOUS
<1>2. DOMAIN l = 1 .. Len(l) /\ DOMAIN m = 1 .. Len(l) + 1
  BY <1>1
<1> HIDE DEF m
<1>3. \A i \in 1 .. Len(l) : l[i] # s /\ i + 1 \in 2 .. Len(l) + 1 /\ m[i + 1] = l[i]
  <2> TAKE i \in 1 .. Len(l)
  <2>1. i + 1 \in 2 .. Len(l) + 1 /\ i + 1 - 1 = i
    BY <1>1
  <2>2. l[i] # s
    BY <1>2 DEF ToSet
  <2>3. m[i + 1] = l[i]
    BY <1>1, <2>1
  <2> QED  BY <2>1, <2>2, <2>3
<1>3a. \A i \in 2 .. Len(l) + 1 : i - 1 \in 1 .. Len(l) /\ m[i] = l[i - 1] /\ m[i] # s
  <2> TAKE i \in 2 .. Len(l) + 1
  <2>1. i - 1 \in 1 .. Len(l) /\ m[i] = l[i - 1]
    BY <1>1
  <2> QED  BY <1>3, <2>1
<1>4. Once(m)
  <2> SUFFICES ASSUME NEW i \in 1 .. Len(l) + 1, NEW j \in 1 .. Len(l) + 1, m[i] = m[j] PROVE i = j
    BY <1>2 DEF Once
  <2>1. CASE i = 1 \/ j = 1
    BY <1>1, <1>3a, <2>1
  <2>2. CASE i # 1 /\ j # 1
    <3>1. i \in 2 .. Len(l) + 1 /\ j \in 2 .. Len(l) + 1
      BY <1>1, <2>2
    <3>2. i - 1 \in DOMAIN l /\ j - 1 \in DOMAIN l /\ l[i - 1] = l[j - 1]
      BY <1>2, <1>3a, <3>1
    <3>3. i - 1 = j - 1
      BY <3>2 DEF Once
    <3> QED  BY <3>1, <3>3
  <2> QED  BY <2>1, <2>2
<1>5. \A x : x \in ToSet(m) => x \in ToSet(l) \cup {s}
  <2> SUFFICES ASSUME NEW i \in 1 .. Len(l) + 1 PROVE m[i] \in ToSet(l) \cup {s}
    BY <1>2 DEF ToSet
  <2>1. CASE i = 1
    BY <1>1, <2>1
  <2>2. CASE i # 1
    <3>1. i \in 2 .. Len(l) + 1
      BY <1>1, <2>2
    <3> QED  BY <1>2, <1>3a, <3>1 DEF ToSet
  <2> QED  BY <2>1, <2>2
<1>6. \A x : x \in ToSet(l) \cup {s} => x \in ToSet(m)
  <2>1. s \in ToSet(m)
    BY <1>1, <1>2 DEF ToSet
  <2>2. ASSUME NEW i \in 1 .. Len(l) PROVE l[i] \in ToSet(m)
    BY <1>1, <1>2, <1>3 DEF ToSet
  <2> QED  BY <1>2, <2>1, <2>2 DEF ToSet
<1> QED  BY <1>1, <1>4, <1>5, <1>6 DEF m

LEMMA Joined ==
  ASSUME NEW S, NEW A \in Seq(S), NEW B \in Seq(S)
  PROVE  /\ A \o B \in Seq(S) /\ Len(A \o B) = Len(A) + Len(B)
         /\ \A j \in 1 .. Len(A) + Len(B) : (A \o B)[j] = IF j <= Len(A) THEN A[j] ELSE B[j - Len(A)]
  OBVIOUS

LEMMA UnlinkedIs ==
  ASSUME NEW S, NEW l \in Seq(S), NEW s, Once(l)
  PROVE  Unlinked(l, s) \in Seq(S) /\ Once(Unlinked(l, s)) /\ ToSet(Unlinked(l, s)) = ToSet(l) \ {s}
<1>1. CASE s \notin ToSet(l)
  BY <1>1 DEF Unlinked
<1>2. CASE s \in ToSet(l)
  <2>1. PICK i \in DOMAIN l : l[i] = s /\ Unlinked(l, s) = RemoveAt(l, i)
    <3>1. \E i \in DOMAIN l : l[i] = s
      BY <1>2 DEF ToSet
    <3> QED  BY <1>2, <3>1 DEF Unlinked
  <2> DEFINE m == RemoveAt(l, i)
  <2>2. i \in 1 .. Len(l) /\ Len(l) \in Nat /\ DOMAIN l = 1 .. Len(l)
    OBVIOUS
  <2>3. /\ m \in Seq(S) /\ Len(m) = Len(l) - 1
        /\ \A j \in 1 .. Len(l) - 1 : m[j] = IF j < i THEN l[j] ELSE l[j + 1]
    <3> DEFINE A == SubSeq(l, 1, i - 1)
               B == SubSeq(l, i + 1, Len(l))
    <3>1. A \in Seq(S) /\ Len(A) = i - 1 /\ \A j \in 1 .. i - 1 : A[j] = l[j]
      BY <2>2
    <3>2. B \in Seq(S) /\ Len(B) = Len(l) - i /\ \A j \in 1 .. Len(l) - i : B[j] = l[i + j]
      BY <2>2
    <3>3. m = A \o B
      BY DEF RemoveAt
    <3> HIDE DEF A, B, m
    <3>4. /\ m \in Seq(S) /\ Len(m) = Len(A) + Len(B)
          /\ \A j \in 1 .. Len(A) + Len(B) : m[j] = IF j <= Len(A) THEN A[j] ELSE B[j - Len(A)]
      BY <3>1, <3>2, <3>3, Joined
    <3>5. ASSUME NEW j \in 1 .. Len(l) - 1 PROVE m[j] = IF j < i THEN l[j] ELSE l[j + 1]
      <4>1. CASE j < i
        BY <2>2, <3>1, <3>2, <3>4, <4>1
      <4>2. CASE j >= i
        <5>1. j - (i - 1) \in 1 .. Len(l) - i /\ i + (j - (i - 1)) = j + 1
          BY <2>2, <4>2
        <5>2. m[j] = B[j - (i - 1)]
          BY <2>2, <3>1, <3>2, <3>4, <4>2
        <5> QED  BY <3>2, <4>2, <5>1, <5>2
      <4> QED  BY <2>2, <4>1, <4>2
    <3> QED  BY <2>2, <3>1, <3>2, <3>4, <3>5
  <2>4. DOMAIN m = 1 .. Len(l) - 1
    BY <2>3
  <2> HIDE DEF m
  <2>5. Once(m)
    <3> SUFFICES ASSUME NEW j \in 1 .. Len(l) - 1, NEW k \in 1 .. Len(l) - 1, m[j] = m[k] PROVE j = k
      BY <2>4 DEF Once
    <3>1. \A j1, k1 \in 1 .. Len(l) : l[j1] = l[k1] => j1 = k1
      BY <2>2 DEF Once
    <3>2. j + 1 \in 1 .. Len(l) /\ k + 1 \in 1 .. Len(l) /\ j \in 1 .. Len(l) /\ k \in 1 .. Len(l)
      BY <2>2
    <3> QED  BY <2>2, <2>3, <3>1, <3>2
  <2>6. \A x : x \in ToSet(m) => x \in ToSet(l) \ {s}
    <3> SUFFICES ASSUME NEW j \in 1 .. Len(l) - 1 PROVE m[j] \in ToSet(l) /\ m[j] # s
      BY <2>4 DEF ToSet
    <3>1. \A j1, k1 \in 1 .. Len(l) : l[j1] = l[k1] => j1 = k1
      BY <2>2 DEF Once
    <3>2. j + 1 \in 1 .. Len(l) /\ j \in 1 .. Len(l)
      BY <2>2
    <3>3. \A k \in 1 .. Len(l) : l[k] \in ToSet(l)
      BY <2>2 DEF ToSet
    <3> QED  BY <2>1, <2>2, <2>3, <3>1, <3>2, <3>3
  <2>7. ASSUME NEW j \in 1 .. Len(l), l[j] # s PROVE l[j] \in ToSet(m)
    <3>1. CASE j < i
      BY <2>2, <2>3, <2>4, <3>1 DEF ToSet
    <3>2. CASE j > i
      <4>1. j - 1 \in 1 .. Len(l) - 1 /\ m[j - 1] = l[j]
        BY <2>2, <2>3, <3>2
      <4> QED  BY <4>1, <2>4 DEF ToSet
    <3> QED  BY <2>1, <2>2, <2>7, <3>1, <3>2
  <2>8. \A x : x \in ToSet(l) \ {s} => x \in ToSet(m)
    BY <2>2, <2>7 DEF ToSet
  <2> QED  BY <2>1, <2>3, <2>5, <2>6, <2>8 DEF m
<1> QED  BY <1>1, <1>2
-----------------------------------------------------------------------------
(* Spans, their neighbours and the map *)

LEMMA SpanTypes ==
  ASSUME NEW h \in Heaps
  PROVE  /\ \A s \in SpanId : /\ h.spans[s] \in Span /\ Start(h, s) \in Nat /\ End(h, s) \in Nat
                              /\ h.spans[s].count \in Nat /\ End(h, s) = Start(h, s) + h.spans[s].count
         /\ LiveIn(h) \subseteq SpanId
         /\ h.spans \in [SpanId -> Span] /\ h.map \in [Page -> SpanId \cup {Null}]
         /\ h.lists \in [ListId -> Seq(SpanId)]
         /\ h.brk \in Nat /\ h.real \in Nat /\ h.used \in Int
  BY DEF Heaps, Span, Start, End, LiveIn

LEMMA Bounds ==
  ASSUME NEW h, Shape(h)
  PROVE  /\ h \in Heaps /\ h.brk \in Nat /\ h.brk <= MmapPages
         /\ \A s \in LiveIn(h) :
              /\ s \in SpanId /\ s # Null /\ Start(h, s) \in Nat /\ End(h, s) \in Nat
              /\ h.spans[s].count = End(h, s) - Start(h, s)
              /\ Start(h, s) < End(h, s) /\ End(h, s) <= h.brk
              /\ Start(h, s) \in Page /\ End(h, s) \in Page /\ End(h, s) - 1 \in Page
<1>1. h \in Heaps /\ h.brk \in Nat /\ h.real \in Nat /\ h.brk <= MmapPages
  BY SpanTypes, Constants DEF Shape
<1>2. ASSUME NEW s \in LiveIn(h)
      PROVE  /\ s \in SpanId /\ s # Null /\ Start(h, s) \in Nat /\ End(h, s) \in Nat
             /\ h.spans[s].count = End(h, s) - Start(h, s)
             /\ Start(h, s) < End(h, s) /\ End(h, s) <= h.brk
  <2>1. s \in SpanId /\ s # Null
    BY Constants DEF LiveIn
  <2>2. h.spans[s].count \in Nat /\ Start(h, s) \in Nat /\ End(h, s) = Start(h, s) + h.spans[s].count
    BY <1>1, <2>1, SpanTypes
  <2>3. h.spans[s].count > 0 /\ End(h, s) <= h.brk
    BY DEF Shape
  <2> QED  BY <2>1, <2>2, <2>3
<1>3. ASSUME NEW s \in LiveIn(h)
      PROVE  Start(h, s) \in Page /\ End(h, s) \in Page /\ End(h, s) - 1 \in Page
  BY <1>1, <1>2, Constants DEF Page
<1> QED  BY <1>1, <1>2, <1>3

\* Behind a span that is not the last there is another, and before one that
\* is not the first.
LEMMA NextSpan ==
  ASSUME NEW h, Shape(h), Apart(h), Covered(h), NEW s \in LiveIn(h), End(h, s) < h.brk
  PROVE  \E t \in LiveIn(h) : t # s /\ Start(h, t) = End(h, s)
<1> h \in Heaps
  BY DEF Shape
<1>1. PICK t \in LiveIn(h) : Start(h, t) <= End(h, s) /\ End(h, s) < End(h, t)
  BY Bounds DEF Covered
<1> QED  BY <1>1, Bounds DEF Apart

LEMMA PrevSpan ==
  ASSUME NEW h, Shape(h), Apart(h), Covered(h), NEW s \in LiveIn(h), Start(h, s) > 0
  PROVE  \E t \in LiveIn(h) : t # s /\ End(h, t) = Start(h, s)
<1> h \in Heaps
  BY DEF Shape
<1>1. Start(h, s) - 1 \in 0 .. h.brk - 1
  BY Bounds
<1>2. PICK t \in LiveIn(h) : Start(h, t) <= Start(h, s) - 1 /\ Start(h, s) - 1 < End(h, t)
  BY <1>1 DEF Covered
<1> QED  BY <1>2, Bounds DEF Apart

NextFree(h, s) == FreeAt(h, End(h, s))
PrevFree(h, s) == FreeAt(h, Start(h, s) - 1)

\* What FreeAt finds behind a span, and before it: the neighbour, if it is free.
LEMMA FreeNext ==
  ASSUME NEW h, Shape(h), Apart(h), Covered(h), Mapped(h), NEW s \in LiveIn(h)
  PROVE  \/ /\ NextFree(h, s) \in LiveIn(h) /\ NextFree(h, s) # Null /\ NextFree(h, s) # s
            /\ ~h.spans[NextFree(h, s)].in_use /\ Start(h, NextFree(h, s)) = End(h, s)
         \/ /\ NextFree(h, s) = Null
            /\ \A u \in LiveIn(h) : Start(h, u) = End(h, s) => h.spans[u].in_use
<1> h \in Heaps
  BY DEF Shape
<1> DEFINE p == End(h, s)
<1>1. p \in Page /\ p <= h.brk
  BY Bounds
<1>2. CASE p = h.brk
  <2>1. NextFree(h, s) = Null
    BY <1>1, <1>2, SpanTypes DEF Mapped, FreeAt, NextFree
  <2>2. \A u \in LiveIn(h) : Start(h, u) < h.brk
    BY Bounds
  <2> QED  BY <1>2, <2>1, <2>2, Bounds
<1>3. CASE p < h.brk
  <2>1. PICK t \in LiveIn(h) : t # s /\ Start(h, t) = p
    BY <1>3, NextSpan
  <2>2. h.map[p] = t /\ t # Null
    BY <2>1, Bounds DEF Mapped
  <2>3. \A u \in LiveIn(h) : Start(h, u) = p => u = t
    <3> TAKE u \in LiveIn(h)
    <3> QED  BY <2>1, Bounds DEF Apart
  <2>4. NextFree(h, s) = IF ~h.spans[t].in_use THEN t ELSE Null
    BY <1>1, <2>2 DEF FreeAt, NextFree
  <2>5. CASE h.spans[t].in_use
    BY <2>3, <2>4, <2>5
  <2>6. CASE ~h.spans[t].in_use
    BY <2>1, <2>2, <2>4, <2>6
  <2> QED  BY <2>5, <2>6
<1>4. p = h.brk \/ p < h.brk
  BY <1>1, Bounds
<1> QED  BY <1>2, <1>3, <1>4, Zenon

LEMMA FreePrev ==
  ASSUME NEW h, Shape(h), Apart(h), Covered(h), Mapped(h), NEW s \in LiveIn(h)
  PROVE  \/ /\ PrevFree(h, s) \in LiveIn(h) /\ PrevFree(h, s) # Null /\ PrevFree(h, s) # s
            /\ ~h.spans[PrevFree(h, s)].in_use /\ End(h, PrevFree(h, s)) = Start(h, s)
         \/ /\ PrevFree(h, s) = Null
            /\ \A u \in LiveIn(h) : End(h, u) = Start(h, s) => h.spans[u].in_use
<1> h \in Heaps
  BY DEF Shape
<1> DEFINE p == Start(h, s) - 1
<1>1. CASE Start(h, s) = 0
  <2>1. p \notin Page
    BY <1>1, Constants DEF Page
  <2>2. PrevFree(h, s) = Null
    BY <2>1 DEF FreeAt, PrevFree
  <2>3. \A u \in LiveIn(h) : End(h, u) # 0
    BY Bounds
  <2> QED  BY <1>1, <2>2, <2>3
<1>2. CASE Start(h, s) > 0
  <2>1. PICK t \in LiveIn(h) : t # s /\ End(h, t) = Start(h, s)
    BY <1>2, PrevSpan
  <2>2. p \in Page /\ p = End(h, t) - 1
    BY <2>1, Bounds
  <2>3. h.map[p] = t /\ t # Null
    BY <2>1, <2>2, Bounds DEF Mapped
  <2>4. \A u \in LiveIn(h) : End(h, u) = Start(h, s) => u = t
    <3> TAKE u \in LiveIn(h)
    <3> QED  BY <2>1, Bounds DEF Apart
  <2>5. PrevFree(h, s) = IF ~h.spans[t].in_use THEN t ELSE Null
    BY <2>2, <2>3 DEF FreeAt, PrevFree
  <2>6. CASE h.spans[t].in_use
    BY <2>4, <2>5, <2>6
  <2>7. CASE ~h.spans[t].in_use
    BY <2>1, <2>3, <2>5, <2>7
  <2> QED  BY <2>6, <2>7
<1> QED  BY <1>1, <1>2, Bounds
-----------------------------------------------------------------------------
(* Heaps field by field *)

Is(h, S, M, L, b, r, u, f) ==
  /\ h \in Heaps /\ h.spans = S /\ h.map = M /\ h.lists = L
  /\ h.brk = b /\ h.real = r /\ h.used = u /\ h.failed = f

LEMMA IsItself ==
  ASSUME NEW h \in Heaps
  PROVE  Is(h, h.spans, h.map, h.lists, h.brk, h.real, h.used, h.failed)
  BY DEF Is

LEMMA SetSpans ==
  ASSUME NEW h, NEW S, NEW M, NEW L, NEW b, NEW r, NEW u, NEW f, Is(h, S, M, L, b, r, u, f),
         NEW T \in [SpanId -> Span]
  PROVE  Is([h EXCEPT !.spans = T], T, M, L, b, r, u, f)
  BY DEF Is, Heaps

LEMMA SetMap ==
  ASSUME NEW h, NEW S, NEW M, NEW L, NEW b, NEW r, NEW u, NEW f, Is(h, S, M, L, b, r, u, f),
         NEW T \in [Page -> SpanId \cup {Null}]
  PROVE  Is([h EXCEPT !.map = T], S, T, L, b, r, u, f)
  BY DEF Is, Heaps

LEMMA SetLists ==
  ASSUME NEW h, NEW S, NEW M, NEW L, NEW b, NEW r, NEW u, NEW f, Is(h, S, M, L, b, r, u, f),
         NEW T \in [ListId -> Seq(SpanId)]
  PROVE  Is([h EXCEPT !.lists = T], S, M, T, b, r, u, f)
  BY DEF Is, Heaps

LEMMA SetFailed ==
  ASSUME NEW h, NEW S, NEW M, NEW L, NEW b, NEW r, NEW u, NEW f, Is(h, S, M, L, b, r, u, f),
         NEW T \in BOOLEAN
  PROVE  Is([h EXCEPT !.failed = T], S, M, L, b, r, u, T)
  BY DEF Is, Heaps

LEMMA SetUsed ==
  ASSUME NEW h, NEW S, NEW M, NEW L, NEW b, NEW r, NEW u, NEW f, Is(h, S, M, L, b, r, u, f),
         NEW T \in Int
  PROVE  Is([h EXCEPT !.used = T], S, M, L, b, r, T, f)
  BY DEF Is, Heaps

LEMMA SetReal ==
  ASSUME NEW h, NEW S, NEW M, NEW L, NEW b, NEW r, NEW u, NEW f, Is(h, S, M, L, b, r, u, f),
         NEW T \in Nat
  PROVE  Is([h EXCEPT !.real = T], S, M, L, b, T, u, f)
  BY DEF Is, Heaps

LEMMA SetBrk ==
  ASSUME NEW h, NEW S, NEW M, NEW L, NEW b, NEW r, NEW u, NEW f, Is(h, S, M, L, b, r, u, f),
         NEW T \in Nat
  PROVE  Is([h EXCEPT !.brk = T], S, M, L, T, r, u, f)
  BY DEF Is, Heaps
-----------------------------------------------------------------------------
(* Merging *)

Both(sp, tp) ==
  [start |-> IF tp.start < sp.start THEN tp.start ELSE sp.start, count |-> sp.count + tp.count,
   in_use |-> sp.in_use, cached |-> sp.cached, live |-> sp.live]

\* The heap in which s has taken the pages of t.
LEMMA MergeIs ==
  ASSUME NEW h \in Heaps, NEW s \in SpanId, NEW t \in SpanId, \A c \in ListId : Once(h.lists[c])
  PROVE  Is(Merge(h, s, t),
            [[h.spans EXCEPT ![t] = Dead] EXCEPT ![s] = Both(h.spans[s], h.spans[t])],
            SetEnds(h.map, Both(h.spans[s], h.spans[t]), s),
            [c \in ListId |-> Unlinked(h.lists[c], t)], h.brk, h.real, h.used, h.failed)
<1> DEFINE sp == h.spans[s]
           tp == h.spans[t]
           both == [sp EXCEPT !.start = IF tp.start < sp.start THEN tp.start ELSE sp.start,
                              !.count = sp.count + tp.count]
           L == [c \in ListId |-> Unlinked(h.lists[c], t)]
           S == [h.spans EXCEPT ![t] = Dead]
<1>1. sp \in Span /\ tp \in Span /\ h.spans \in [SpanId -> Span]
      /\ h.map \in [Page -> SpanId \cup {Null}] /\ h.lists \in [ListId -> Seq(SpanId)]
  BY DEF Heaps
<1>2. both = Both(sp, tp) /\ Both(sp, tp) \in Span
  <2> DEFINE first == IF tp.start < sp.start THEN tp.start ELSE sp.start
             one == [sp EXCEPT !.start = first]
  <2>1. one = [start |-> first, count |-> sp.count, in_use |-> sp.in_use, cached |-> sp.cached,
               live |-> sp.live]
    BY <1>1 DEF Span
  <2>2. both = [one EXCEPT !.count = sp.count + tp.count]
    OBVIOUS
  <2> HIDE DEF first, one
  <2>3. both = [start |-> first, count |-> sp.count + tp.count, in_use |-> sp.in_use,
                cached |-> sp.cached, live |-> sp.live]
    BY <2>1, <2>2
  <2>4. first \in Nat /\ sp.count + tp.count \in Nat
    BY <1>1 DEF Span, first
  <2> QED  BY <1>1, <2>3, <2>4 DEF Span, Both, first
<1>3. L \in [ListId -> Seq(SpanId)]
  BY <1>1, UnlinkedIs
<1>4. Dead \in Span
  BY DEF Dead, Span
<1>5. S \in [SpanId -> Span] /\ [S EXCEPT ![s] = both] \in [SpanId -> Span]
  BY <1>1, <1>2, <1>4
<1>6. SetEnds(h.map, both, s) \in [Page -> SpanId \cup {Null}]
  BY <1>1 DEF SetEnds
<1> DEFINE k1 == [h EXCEPT !.lists = L]
           k2 == [k1 EXCEPT !.spans = S]
           k3 == [k2 EXCEPT !.spans = [S EXCEPT ![s] = both]]
           k4 == [k3 EXCEPT !.map = SetEnds(h.map, both, s)]
<1> HIDE DEF L, S, both, k1, k2, k3, k4
<1>7. Is(k1, h.spans, h.map, L, h.brk, h.real, h.used, h.failed)
  BY <1>3, IsItself, SetLists DEF k1
<1>8. Is(k2, S, h.map, L, h.brk, h.real, h.used, h.failed)
  BY <1>5, <1>7, SetSpans DEF k2
<1>9. Is(k3, [S EXCEPT ![s] = both], h.map, L, h.brk, h.real, h.used, h.failed)
  BY <1>5, <1>8, SetSpans DEF k3
<1>10. Is(k4, [S EXCEPT ![s] = both], SetEnds(h.map, both, s), L, h.brk, h.real, h.used, h.failed)
  BY <1>6, <1>9, SetMap DEF k4
<1>11. DropSpan(h, t) = k2
  <2>1. k1.spans = h.spans
    BY <1>7 DEF Is
  <2>2. span_list_remove(h, t) = k1
    BY DEF span_list_remove, k1, L
  <2> QED  BY <2>1, <2>2 DEF DropSpan, k2, S
<1>12. Merge(h, s, t) = k4
  <2>1. k2.spans = S /\ k3.map = h.map
    BY <1>8, <1>9 DEF Is
  <2>2. Merge(h, s, t) = [k2 EXCEPT !.spans[s] = both, !.map = SetEnds(@, both, s)]
    BY <1>11 DEF Merge, both
  <2>3. [k2 EXCEPT !.spans[s] = both] = k3
    BY <2>1 DEF k3
  <2> QED  BY <2>1, <2>2, <2>3 DEF k4
<1> QED  BY <1>2, <1>10, <1>12 DEF L, S

LEMMA MergeKeeps ==
  ASSUME NEW h, NEW s \in LiveIn(h), NEW t \in LiveIn(h), s # t, Loose(h, s),
         ~h.spans[s].in_use, ~h.spans[t].in_use,
         End(h, t) = Start(h, s) \/ End(h, s) = Start(h, t),
         NEW k, k = Merge(h, s, t)
  PROVE  /\ Loose(k, s) /\ LiveIn(k) = LiveIn(h) \ {t} /\ ~k.spans[s].in_use
         /\ \A u \in LiveIn(k) \ {s} : k.spans[u] = h.spans[u]
         /\ Start(k, s) = IF End(h, t) = Start(h, s) THEN Start(h, t) ELSE Start(h, s)
         /\ End(k, s) = IF End(h, t) = Start(h, s) THEN End(h, s) ELSE End(h, t)
         /\ k.brk = h.brk /\ k.real = h.real /\ k.used = h.used /\ k.failed = h.failed
         /\ InUse(k) = InUse(h)
<1> DEFINE lo == IF End(h, t) = Start(h, s) THEN Start(h, t) ELSE Start(h, s)
           hi == IF End(h, t) = Start(h, s) THEN End(h, s) ELSE End(h, t)
<1>1. Shape(h) /\ Apart(h) /\ Covered(h) /\ Mapped(h) /\ Filed(h, s) /\ Merged(h, s)
  BY DEF Loose
<1>2. h \in Heaps /\ s \in SpanId /\ t \in SpanId /\ h.brk \in Nat
  BY <1>1, Bounds
<1>3. Is(k, [[h.spans EXCEPT ![t] = Dead] EXCEPT ![s] = Both(h.spans[s], h.spans[t])],
         SetEnds(h.map, Both(h.spans[s], h.spans[t]), s),
         [c \in ListId |-> Unlinked(h.lists[c], t)], h.brk, h.real, h.used, h.failed)
  BY <1>1, <1>2, MergeIs DEF Filed
<1>4. /\ k.spans[s] = Both(h.spans[s], h.spans[t]) /\ k.spans[t] = Dead
      /\ \A u \in SpanId : u # s /\ u # t => k.spans[u] = h.spans[u]
  BY <1>2, <1>3, SpanTypes DEF Is
<1>5. LiveIn(k) = LiveIn(h) \ {t} /\ ~k.spans[s].in_use /\ k.spans[s].cached = h.spans[s].cached
  BY <1>2, <1>4 DEF LiveIn, Both, Dead
<1>6. \A u \in LiveIn(k) \ {s} :
        /\ u \in LiveIn(h) /\ u # t /\ k.spans[u] = h.spans[u]
        /\ Start(k, u) = Start(h, u) /\ End(k, u) = End(h, u)
  BY <1>2, <1>4, <1>5 DEF LiveIn, Start, End
<1>7. /\ Start(h, s) \in Nat /\ End(h, s) \in Nat /\ Start(h, s) < End(h, s) /\ End(h, s) <= h.brk
      /\ Start(h, t) \in Nat /\ End(h, t) \in Nat /\ Start(h, t) < End(h, t) /\ End(h, t) <= h.brk
      /\ h.spans[s].count = End(h, s) - Start(h, s) /\ h.spans[t].count = End(h, t) - Start(h, t)
  BY <1>1, Bounds
<1>8. Start(k, s) = lo /\ End(k, s) = hi /\ k.spans[s].count = hi - lo
  BY <1>4, <1>7 DEF Start, End, Both
<1>9. /\ lo \in Nat /\ hi \in Nat /\ lo < hi /\ hi <= h.brk
      /\ \A p \in Nat : lo <= p /\ p < hi <=>
           (Start(h, s) <= p /\ p < End(h, s)) \/ (Start(h, t) <= p /\ p < End(h, t))
      /\ \A u \in LiveIn(k) \ {s} : End(h, u) <= lo \/ hi <= Start(h, u)
  <2>1. ASSUME NEW u \in LiveIn(k) \ {s} PROVE End(h, u) <= lo \/ hi <= Start(h, u)
    <3>1. u \in LiveIn(h) /\ u # t /\ u # s
      BY <1>6
    <3>2. /\ End(h, u) <= Start(h, s) \/ End(h, s) <= Start(h, u)
          /\ End(h, u) <= Start(h, t) \/ End(h, t) <= Start(h, u)
          /\ Start(h, u) \in Nat /\ End(h, u) \in Nat /\ Start(h, u) < End(h, u)
      BY <1>1, <3>1, Bounds DEF Apart
    <3> QED  BY <1>7, <3>2
  <2> QED  BY <1>7, <2>1
<1> HIDE DEF lo, hi
<1>10. /\ k \in Heaps /\ k.brk = h.brk /\ k.real = h.real /\ k.used = h.used /\ k.failed = h.failed
       /\ k.lists = [c \in ListId |-> Unlinked(h.lists[c], t)]
  BY <1>3 DEF Is
<1>11. \A p \in Page : k.map[p] = IF p = lo \/ p = hi - 1 THEN s ELSE h.map[p]
  <2>1. k.spans[s].start = lo /\ last_page(k.spans[s]) = hi - 1
    BY <1>8, <1>9 DEF Start, last_page
  <2>2. k.map = [[h.map EXCEPT ![lo] = s] EXCEPT ![hi - 1] = s]
    BY <1>3, <1>4, <2>1 DEF Is, SetEnds
  <2> QED  BY <1>2, <2>2, SpanTypes
<1>12. Shape(k)
  BY <1>1, <1>5, <1>6, <1>8, <1>9, <1>10 DEF Shape
<1>13. Apart(k)
  BY <1>1, <1>5, <1>6, <1>8, <1>9 DEF Apart
<1>14. Covered(k)
  <2> SUFFICES ASSUME NEW p \in 0 .. h.brk - 1
               PROVE  \E u \in LiveIn(k) : Start(k, u) <= p /\ p < End(k, u)
    BY <1>10 DEF Covered
  <2>1. PICK u \in LiveIn(h) : Start(h, u) <= p /\ p < End(h, u)
    BY <1>1 DEF Covered
  <2>2. CASE u = s \/ u = t
    BY <1>2, <1>5, <1>8, <1>9, <2>1, <2>2
  <2>3. CASE u # s /\ u # t
    BY <1>5, <1>6, <2>1, <2>3
  <2> QED  BY <2>2, <2>3
<1>15. Mapped(k)
  <2>1. ASSUME NEW u \in LiveIn(k) \ {s}, NEW p \in Page, Start(k, u) <= p, p < End(k, u)
        PROVE  k.map[p] = h.map[p]
    <3>1. End(h, u) <= lo \/ hi <= Start(h, u)
      BY <1>9
    <3>2. p # lo /\ p # hi - 1
      <4>1. Start(h, u) \in Nat /\ End(h, u) \in Nat /\ p \in Nat
        BY <1>1, <1>6, Bounds, Constants
      <4> QED  BY <1>6, <1>9, <2>1, <3>1, <4>1
    <3> QED  BY <1>11, <3>2
  <2>2. ASSUME NEW u \in LiveIn(k) \ {s}
        PROVE  k.map[Start(k, u)] = u /\ k.map[End(k, u) - 1] = u
    <3>1. /\ Start(h, u) \in Page /\ End(h, u) - 1 \in Page /\ Start(h, u) < End(h, u)
          /\ Start(h, u) \in Nat /\ End(h, u) \in Nat
          /\ h.map[Start(h, u)] = u /\ h.map[End(h, u) - 1] = u
      BY <1>1, <1>6, Bounds DEF Mapped
    <3>2. k.map[Start(h, u)] = h.map[Start(h, u)]
      BY <1>6, <2>1, <3>1
    <3>3. k.map[End(h, u) - 1] = h.map[End(h, u) - 1]
      BY <1>6, <2>1, <3>1
    <3> QED  BY <1>6, <3>1, <3>2, <3>3
  <2>3. lo \in Page /\ hi - 1 \in Page
    BY <1>1, <1>9, Bounds, Constants DEF Page
  <2>4. k.map[Start(k, s)] = s /\ k.map[End(k, s) - 1] = s
    BY <1>8, <1>11, <2>3
  <2>5. ~k.spans[s].cached
    BY <1>1, <1>5 DEF Mapped
  <2>6. ASSUME NEW u \in LiveIn(k) \ {s}, k.spans[u].cached
        PROVE  k.spans[u].in_use /\ \A p \in Page : Start(k, u) <= p /\ p < End(k, u) => k.map[p] = u
    BY <1>1, <1>6, <2>1, <2>6 DEF Mapped
  <2>7. ASSUME NEW p \in Page, p >= k.brk PROVE k.map[p] = Null
    <3>1. p # lo /\ p # hi - 1 /\ p >= h.brk
      BY <1>2, <1>9, <1>10, <2>7, Constants
    <3> QED  BY <1>1, <1>11, <3>1 DEF Mapped
  <2> QED  BY <2>2, <2>4, <2>5, <2>6, <2>7 DEF Mapped
<1>16. Filed(k, s)
  <2>1. \A c \in ListId : /\ k.lists[c] = Unlinked(h.lists[c], t) /\ Once(h.lists[c])
                          /\ h.lists[c] \in Seq(SpanId)
    BY <1>1, <1>2, <1>10, SpanTypes DEF Filed
  <2>2. \A c \in ListId : Once(k.lists[c]) /\ ToSet(k.lists[c]) = ToSet(h.lists[c]) \ {t}
    BY <2>1, UnlinkedIs
  <2>3. ASSUME NEW u \in SpanId, NEW c \in ListId
        PROVE  u \in ToSet(k.lists[c]) <=>
                 u \in LiveIn(k) /\ ~k.spans[u].in_use /\ u # s /\ c = ListOf(k.spans[u].count)
    BY <1>1, <1>5, <1>6, <2>2 DEF Filed
  <2> QED  BY <2>2, <2>3 DEF Filed
<1>17. Merged(k, s)
  BY <1>1, <1>6 DEF Merged
<1>18. InUse(k) = InUse(h)
  BY <1>5, <1>6 DEF InUse
<1> QED  BY <1>5, <1>6, <1>8, <1>10, <1>12, <1>13, <1>14, <1>15, <1>16, <1>17, <1>18 DEF Loose, lo, hi
-----------------------------------------------------------------------------
(* Giving a span back *)

LEMMA CheckTrue ==
  ASSUME NEW h \in Heaps, h.failed = FALSE, NEW ok, ok = TRUE
  PROVE  Check(h, ok) = h
<1>1. Check(h, ok) = [h EXCEPT !.failed = h.failed]
  BY DEF Check
<1>2. [h EXCEPT !.failed = h.failed] = h
  BY DEF Heaps
<1> QED  BY <1>1, <1>2

\* The spans somebody has.
Held(h) == {s \in LiveIn(h) : h.spans[s].in_use}

PagesIn(h, s) == {p \in Page : Start(h, s) <= p /\ p < End(h, s)}

\* A span that is not in use any more, and not in a list yet.
Released(h, s) == [h EXCEPT !.spans[s] = [@ EXCEPT !.in_use = FALSE, !.cached = FALSE]]

LEMMA ReleaseKeeps ==
  ASSUME NEW h, NEW s \in Held(h), Sound(h), NEW k, k = Released(h, s)
  PROVE  /\ Loose(k, s) /\ LiveIn(k) = LiveIn(h) /\ ~k.spans[s].in_use
         /\ \A u \in LiveIn(k) \ {s} : k.spans[u] = h.spans[u]
         /\ Start(k, s) = Start(h, s) /\ End(k, s) = End(h, s)
         /\ k.brk = h.brk /\ k.real = h.real /\ k.used = h.used /\ k.failed = h.failed
         /\ InUse(k) = InUse(h) \ PagesIn(h, s)
<1>1. Shape(h) /\ Apart(h) /\ Covered(h) /\ Mapped(h) /\ Filed(h, Null) /\ Merged(h, Null)
  BY DEF Sound, Loose
<1>2. h \in Heaps /\ s \in LiveIn(h) /\ s \in SpanId /\ s # Null /\ h.spans[s].in_use
  BY <1>1, Bounds DEF Held
<1> DEFINE q == [h.spans[s] EXCEPT !.in_use = FALSE, !.cached = FALSE]
<1>3. /\ q \in Span /\ q.start = h.spans[s].start /\ q.count = h.spans[s].count
      /\ q.in_use = FALSE /\ q.cached = FALSE /\ q.live = h.spans[s].live
  <2> DEFINE one == [h.spans[s] EXCEPT !.in_use = FALSE]
  <2>1. /\ one \in Span /\ one.start = h.spans[s].start /\ one.count = h.spans[s].count
        /\ one.in_use = FALSE /\ one.live = h.spans[s].live
    BY <1>2, SpanTypes, Zenon DEF Span
  <2>2. q = [one EXCEPT !.cached = FALSE]
    OBVIOUS
  <2> HIDE DEF one
  <2> QED  BY <2>1, <2>2 DEF Span
<1> HIDE DEF q
<1>4. Is(k, [h.spans EXCEPT ![s] = q], h.map, h.lists, h.brk, h.real, h.used, h.failed)
  <2>1. [h.spans EXCEPT ![s] = q] \in [SpanId -> Span]
    BY <1>2, <1>3, SpanTypes
  <2>2. k = [h EXCEPT !.spans = [h.spans EXCEPT ![s] = q]]
    BY DEF Released, q
  <2> QED  BY <1>2, <2>1, <2>2, IsItself, SetSpans
<1>5. /\ k.spans[s] = q /\ \A u \in SpanId \ {s} : k.spans[u] = h.spans[u]
      /\ k \in Heaps /\ k.map = h.map /\ k.lists = h.lists
      /\ k.brk = h.brk /\ k.real = h.real /\ k.used = h.used /\ k.failed = h.failed
  BY <1>2, <1>4, SpanTypes DEF Is
<1>6. LiveIn(k) = LiveIn(h)
  BY <1>3, <1>5 DEF LiveIn
<1>7. \A u \in LiveIn(h) : /\ Start(k, u) = Start(h, u) /\ End(k, u) = End(h, u)
                           /\ k.spans[u].count = h.spans[u].count
                           /\ k.spans[u].in_use => h.spans[u].in_use
                           /\ k.spans[u].cached => h.spans[u].cached /\ u # s
                           /\ u # s => k.spans[u] = h.spans[u]
  <2> TAKE u \in LiveIn(h)
  <2>1. CASE u = s
    BY <1>3, <1>5, <2>1 DEF Start, End
  <2>2. CASE u # s
    BY <1>1, <1>5, <2>2, Bounds DEF Start, End
  <2> QED  BY <2>1, <2>2
<1>8. Shape(k)
  BY <1>1, <1>5, <1>6, <1>7 DEF Shape
<1>9. Apart(k)
  BY <1>1, <1>6, <1>7 DEF Apart
<1>10. Covered(k)
  BY <1>1, <1>5, <1>6, <1>7 DEF Covered
<1>11. Mapped(k)
  BY <1>1, <1>5, <1>6, <1>7 DEF Mapped
<1>12. Filed(k, s)
  <2>1. \A u \in SpanId \ {s} : u \in LiveIn(k) <=> u \in LiveIn(h)
    BY <1>6
  <2> QED  BY <1>1, <1>2, <1>5, <1>6, Constants DEF Filed
<1>13. Merged(k, s)
  BY <1>1, <1>6, <1>7, Bounds DEF Merged
<1>14. InUse(k) = InUse(h) \ PagesIn(h, s)
  <2>1. \A u \in LiveIn(h) : u # s => End(h, u) <= Start(h, s) \/ End(h, s) <= Start(h, u)
    BY <1>1, <1>2 DEF Apart
  <2>2. \A u \in LiveIn(h) : /\ Start(h, u) \in Nat /\ End(h, u) \in Nat
    BY <1>1, Bounds
  <2>3. ASSUME NEW p \in InUse(k) PROVE p \in InUse(h) /\ p \notin PagesIn(h, s)
    <3>1. PICK u \in LiveIn(k) : k.spans[u].in_use /\ Start(k, u) <= p /\ p < End(k, u)
      BY DEF InUse
    <3>2. u \in LiveIn(h) /\ u # s /\ h.spans[u].in_use /\ Start(h, u) <= p /\ p < End(h, u) /\ p \in Page
      BY <1>3, <1>5, <1>6, <1>7, <3>1 DEF InUse
    <3>3. ~(Start(h, s) <= p /\ p < End(h, s))
      BY <1>2, <2>1, <2>2, <3>2, Constants
    <3> QED  BY <3>2, <3>3 DEF InUse, PagesIn
  <2>4. ASSUME NEW p \in InUse(h), p \notin PagesIn(h, s) PROVE p \in InUse(k)
    <3>1. PICK u \in LiveIn(h) : h.spans[u].in_use /\ Start(h, u) <= p /\ p < End(h, u)
      BY DEF InUse
    <3>2. u # s /\ p \in Page
      BY <2>4, <3>1 DEF InUse, PagesIn
    <3> QED  BY <1>6, <1>7, <3>1, <3>2 DEF InUse
  <2> QED  BY <2>3, <2>4
<1> QED  BY <1>3, <1>5, <1>6, <1>7, <1>8, <1>9, <1>10, <1>11, <1>12, <1>13, <1>14, <1>2 DEF Loose

\* A free span whose neighbours are in use is put in its list.
LEMMA LinkKeeps ==
  ASSUME NEW h, NEW s \in LiveIn(h), Loose(h, s), ~h.spans[s].in_use,
         \A u \in LiveIn(h) : End(h, u) = Start(h, s) \/ Start(h, u) = End(h, s) => h.spans[u].in_use,
         NEW k, k = link(h, s)
  PROVE  Sound(k) /\ k.spans = h.spans /\ k.brk = h.brk /\ k.real = h.real /\ k.used = h.used
         /\ k.failed = h.failed /\ k.map = h.map
<1>1. Shape(h) /\ Apart(h) /\ Covered(h) /\ Mapped(h) /\ Filed(h, s) /\ Merged(h, s)
  BY DEF Loose
<1>2. h \in Heaps /\ s \in SpanId /\ s # Null /\ h.spans[s].count \in Nat \ {0}
  BY <1>1, Bounds
<1> DEFINE c == ListOf(h.spans[s].count)
           L == [h.lists EXCEPT ![c] = <<s>> \o h.lists[c]]
<1>3. c \in ListId
  BY <1>2, Constants DEF ListOf, ListId
<1>4. h.lists[c] \in Seq(SpanId) /\ Once(h.lists[c]) /\ s \notin ToSet(h.lists[c])
  BY <1>1, <1>2, <1>3, SpanTypes DEF Filed
<1>5. /\ <<s>> \o h.lists[c] \in Seq(SpanId) /\ Once(<<s>> \o h.lists[c])
      /\ ToSet(<<s>> \o h.lists[c]) = ToSet(h.lists[c]) \cup {s}
  BY <1>2, <1>4, Linked
<1>6. L \in [ListId -> Seq(SpanId)]
  BY <1>2, <1>3, <1>5, SpanTypes
<1>7. Is(k, h.spans, h.map, L, h.brk, h.real, h.used, h.failed)
  <2>1. k = [h EXCEPT !.lists = L]
    BY DEF link
  <2> HIDE DEF L, c
  <2> QED  BY <1>2, <1>6, <2>1, IsItself, SetLists
<1>8. /\ k.spans = h.spans /\ k.map = h.map /\ k.brk = h.brk /\ k.real = h.real /\ k.used = h.used
      /\ k.failed = h.failed /\ k.lists = L /\ k \in Heaps
  BY <1>7 DEF Is
<1>9. /\ LiveIn(k) = LiveIn(h) /\ \A u : Start(k, u) = Start(h, u) /\ End(k, u) = End(h, u)
  BY <1>8 DEF LiveIn, Start, End
<1>10. Shape(k) /\ Apart(k) /\ Covered(k) /\ Mapped(k)
  BY <1>1, <1>8, <1>9 DEF Shape, Apart, Covered, Mapped
<1>11. Merged(k, Null)
  BY <1>1, <1>8, <1>9 DEF Merged
<1>12. Filed(k, Null)
  <2>1. /\ \A d \in ListId : d # c => k.lists[d] = h.lists[d]
        /\ k.lists[c] = <<s>> \o h.lists[c]
    BY <1>2, <1>3, <1>8, SpanTypes
  <2> HIDE DEF L
  <2>2. \A d \in ListId : Once(k.lists[d])
    BY <1>1, <1>5, <2>1 DEF Filed
  <2>3. ASSUME NEW u \in SpanId, NEW d \in ListId
        PROVE  u \in ToSet(k.lists[d]) <=>
                 u \in LiveIn(k) /\ ~k.spans[u].in_use /\ u # Null /\ d = ListOf(k.spans[u].count)
    <3>1. u # Null
      BY Constants
    <3>2. u \in ToSet(h.lists[d]) <=>
            u \in LiveIn(k) /\ ~k.spans[u].in_use /\ u # s /\ d = ListOf(k.spans[u].count)
      BY <1>1, <1>8, <1>9 DEF Filed
    <3>3. CASE d = c
      <4>1. u \in ToSet(k.lists[d]) <=> u \in ToSet(h.lists[d]) \/ u = s
        BY <1>5, <2>1, <3>3
      <4>2. s \in LiveIn(k) /\ ~k.spans[s].in_use /\ c = ListOf(k.spans[s].count)
        BY <1>8, <1>9
      <4> HIDE DEF c
      <4> QED  BY <3>1, <3>2, <3>3, <4>1, <4>2, SMTT(30)
    <3>4. CASE d # c
      <4>1. u = s => d # ListOf(k.spans[u].count)
        BY <1>8, <3>4
      <4>2. ToSet(k.lists[d]) = ToSet(h.lists[d])
        BY <2>1, <3>4
      <4> QED  BY <3>1, <3>2, <4>1, <4>2
    <3> QED  BY <3>3, <3>4
  <2> QED  BY <2>2, <2>3, SMTT(30) DEF Filed
<1> QED  BY <1>8, <1>10, <1>11, <1>12 DEF Sound, Loose

\* k is h after the free span s took in its free neighbours.
TookIn(h, k, s) ==
  /\ Loose(k, s) /\ s \in LiveIn(k) /\ LiveIn(k) \subseteq LiveIn(h) /\ ~k.spans[s].in_use
  /\ \A u \in LiveIn(h) \ LiveIn(k) : ~h.spans[u].in_use
  /\ \A u \in LiveIn(k) \ {s} : k.spans[u] = h.spans[u]
  /\ \A u \in LiveIn(k) : End(k, u) = Start(k, s) \/ Start(k, u) = End(k, s) => k.spans[u].in_use
  /\ Start(k, s) <= Start(h, s) /\ End(h, s) <= End(k, s)
  /\ k.brk = h.brk /\ k.real = h.real /\ k.used = h.used /\ k.failed = h.failed
  /\ InUse(k) = InUse(h)

LEMMA NeighboursMerged ==
  ASSUME NEW h, NEW s \in LiveIn(h), Loose(h, s), ~h.spans[s].in_use, h.failed = FALSE,
         NEW k, k = MergeNeighbours(h, s)
  PROVE  TookIn(h, k, s)
<1> DEFINE prev == PrevFree(h, s)
           next == NextFree(h, s)
           g == IF prev = Null THEN h ELSE Merge(h, s, prev)
<1>1. Shape(h) /\ Apart(h) /\ Covered(h) /\ Mapped(h) /\ Filed(h, s) /\ Merged(h, s)
  BY DEF Loose
<1>2. /\ h \in Heaps /\ s \in SpanId /\ s # Null
      /\ Start(h, s) \in Nat /\ End(h, s) \in Nat /\ Start(h, s) < End(h, s)
  BY <1>1, Bounds
<1>3. \/ prev \in LiveIn(h) /\ prev # Null /\ prev # s /\ ~h.spans[prev].in_use /\ End(h, prev) = Start(h, s)
      \/ prev = Null /\ \A u \in LiveIn(h) : End(h, u) = Start(h, s) => h.spans[u].in_use
  BY <1>1, FreePrev
<1>4. \/ next \in LiveIn(h) /\ next # Null /\ next # s /\ ~h.spans[next].in_use /\ Start(h, next) = End(h, s)
      \/ next = Null /\ \A u \in LiveIn(h) : Start(h, u) = End(h, s) => h.spans[u].in_use
  BY <1>1, FreeNext
<1> HIDE DEF prev, next
<1>5. /\ Loose(g, s) /\ s \in LiveIn(g) /\ ~g.spans[s].in_use
      /\ LiveIn(g) = LiveIn(h) \ {prev} /\ (prev \in LiveIn(h) => ~h.spans[prev].in_use)
      /\ \A u \in LiveIn(g) \ {s} : g.spans[u] = h.spans[u]
      /\ \A u \in LiveIn(g) : End(g, u) = Start(g, s) => g.spans[u].in_use
      /\ Start(g, s) <= Start(h, s) /\ End(g, s) = End(h, s)
      /\ g.brk = h.brk /\ g.real = h.real /\ g.used = h.used /\ g.failed = h.failed
      /\ InUse(g) = InUse(h)
  <2>1. CASE prev = Null
    <3>1. g = h /\ prev \notin LiveIn(h)
      BY <1>1, <2>1, Bounds
    <3> QED  BY <1>2, <1>3, <2>1, <3>1
  <2>2. CASE prev # Null
    <3>1. /\ prev \in LiveIn(h) /\ prev # s /\ ~h.spans[prev].in_use /\ End(h, prev) = Start(h, s)
          /\ g = Merge(h, s, prev)
      BY <1>3, <2>2
    <3> HIDE DEF g
    <3>2. /\ Loose(g, s) /\ LiveIn(g) = LiveIn(h) \ {prev} /\ ~g.spans[s].in_use
          /\ \A u \in LiveIn(g) \ {s} : g.spans[u] = h.spans[u]
          /\ Start(g, s) = Start(h, prev) /\ End(g, s) = End(h, s)
          /\ g.brk = h.brk /\ g.real = h.real /\ g.used = h.used /\ g.failed = h.failed
          /\ InUse(g) = InUse(h)
      BY <3>1, MergeKeeps
    <3>3. Start(g, s) <= Start(h, s)
      BY <1>1, <3>1, <3>2, Bounds
    <3>4. ASSUME NEW u \in LiveIn(g), End(g, u) = Start(g, s) PROVE g.spans[u].in_use
      <4>1. u # s
        BY <3>2, <3>4, Bounds DEF Loose
      <4>2. g.spans[u] = h.spans[u] /\ u \in LiveIn(h) /\ End(h, u) = End(g, u)
        BY <3>2, <4>1 DEF End
      <4> QED  BY <1>1, <3>1, <3>2, <3>4, <4>1, <4>2 DEF Merged
    <3> QED  BY <3>1, <3>2, <3>3, <3>4
  <2> QED  BY <2>1, <2>2
<1>6. k = IF next = Null THEN g ELSE Merge(g, s, next)
  <2>1. prev # Null => Check(h, h.spans[prev].live /\ last_page(h.spans[prev]) + 1 = h.spans[s].start) = h
    <3> SUFFICES ASSUME prev # Null
                 PROVE  h.spans[prev].live = TRUE /\ last_page(h.spans[prev]) + 1 = h.spans[s].start
      BY <1>2, CheckTrue
    <3>1. h.spans[prev].live = TRUE
      <4>1. prev \in SpanId /\ h.spans[prev].live
        BY <1>3 DEF LiveIn
      <4>2. h.spans[prev] \in Span
        BY <1>2, <4>1, SpanTypes
      <4> QED  BY <4>1, <4>2 DEF Span
    <3>2. h.spans[prev].start \in Nat /\ h.spans[prev].count \in Nat
      BY <1>1, <1>3, Bounds DEF Start
    <3> QED  BY <1>3, <3>1, <3>2 DEF last_page, Start, End
  <2>2. next # Null => Check(g, h.spans[next].live /\ h.spans[next].start = h.spans[s].start + h.spans[s].count) = g
    <3> SUFFICES ASSUME next # Null
                 PROVE  h.spans[next].live = TRUE /\ h.spans[next].start = h.spans[s].start + h.spans[s].count
      <4>1. g \in Heaps
        BY <1>5, Bounds DEF Loose
      <4> HIDE DEF g
      <4> QED  BY <1>5, <4>1, CheckTrue
    <3>1. h.spans[next].live = TRUE
      <4>1. next \in SpanId /\ h.spans[next].live
        BY <1>4 DEF LiveIn
      <4>2. h.spans[next] \in Span
        BY <1>2, <4>1, SpanTypes
      <4> QED  BY <4>1, <4>2 DEF Span
    <3> QED  BY <1>4, <3>1 DEF Start, End
  <2>3. prev = FreeAt(h, h.spans[s].start - 1) /\ next = FreeAt(h, h.spans[s].start + h.spans[s].count)
    BY DEF prev, next, PrevFree, NextFree, Start, End
  <2> QED  BY <2>1, <2>2, <2>3 DEF MergeNeighbours
<1> HIDE DEF g
<1>7. CASE next = Null
  <2>1. k = g
    BY <1>6, <1>7
  <2>2. ASSUME NEW u \in LiveIn(g), Start(g, u) = End(g, s) PROVE g.spans[u].in_use
    <3>1. u # s
      BY <1>5, <2>2, Bounds DEF Loose
    <3>2. u \in LiveIn(h) /\ g.spans[u] = h.spans[u] /\ Start(g, u) = Start(h, u)
      BY <1>5, <3>1 DEF Start
    <3> QED  BY <1>4, <1>5, <1>7, <2>2, <3>2
  <2>3. \A u \in LiveIn(h) \ LiveIn(g) : ~h.spans[u].in_use
    BY <1>5
  <2> QED  BY <1>2, <1>5, <2>1, <2>2, <2>3 DEF TookIn
<1>8. CASE next # Null
  <2>1. /\ next \in LiveIn(h) /\ next # s /\ ~h.spans[next].in_use /\ Start(h, next) = End(h, s)
        /\ k = Merge(g, s, next)
    BY <1>4, <1>6, <1>8
  <2>2. next # prev
    BY <1>1, <1>2, <1>3, <1>8, <2>1, Bounds
  <2>3. next \in LiveIn(g) /\ g.spans[next] = h.spans[next]
    BY <1>5, <2>1, <2>2
  <2>4. Start(g, next) = End(g, s) /\ End(g, next) = End(h, next) /\ ~g.spans[next].in_use
    BY <1>5, <2>1, <2>3 DEF Start, End
  <2>5. End(g, next) # Start(g, s) /\ End(h, s) < End(h, next)
    BY <1>1, <1>2, <1>5, <2>1, <2>4, Bounds DEF Loose
  <2>6. /\ Loose(k, s) /\ LiveIn(k) = LiveIn(g) \ {next} /\ ~k.spans[s].in_use
        /\ \A u \in LiveIn(k) \ {s} : k.spans[u] = g.spans[u]
        /\ Start(k, s) = Start(g, s) /\ End(k, s) = End(h, next)
        /\ k.brk = g.brk /\ k.real = g.real /\ k.used = g.used /\ k.failed = g.failed
        /\ InUse(k) = InUse(g)
    BY <1>5, <2>1, <2>3, <2>4, <2>5, MergeKeeps
  <2>7. \A u \in LiveIn(k) \ {s} : /\ u \in LiveIn(g) /\ u \in LiveIn(h) /\ k.spans[u] = h.spans[u]
                                   /\ Start(k, u) = Start(h, u) /\ End(k, u) = End(h, u)
                                   /\ End(k, u) = End(g, u)
    BY <1>5, <2>6 DEF Start, End
  <2>8. ASSUME NEW u \in LiveIn(k), End(k, u) = Start(k, s) PROVE k.spans[u].in_use
    <3>1. u # s
      BY <2>6, <2>8, Bounds DEF Loose
    <3> QED  BY <1>5, <2>6, <2>7, <2>8, <3>1
  <2>9. ASSUME NEW u \in LiveIn(k), Start(k, u) = End(k, s) PROVE k.spans[u].in_use
    <3>1. u # s
      BY <2>6, <2>9, Bounds DEF Loose
    <3>2. u \in LiveIn(h) /\ Start(h, u) = End(h, next) /\ k.spans[u] = h.spans[u]
      BY <2>6, <2>7, <2>9, <3>1
    <3> QED  BY <1>1, <2>1, <3>1, <3>2 DEF Merged
  <2>10. \A u \in LiveIn(h) \ LiveIn(k) : ~h.spans[u].in_use
    BY <1>5, <2>1, <2>6
  <2>11. End(h, s) <= End(k, s) /\ s \in LiveIn(k) /\ LiveIn(k) \subseteq LiveIn(h)
    BY <1>1, <1>2, <1>5, <2>1, <2>5, <2>6, Bounds
  <2> QED  BY <1>5, <2>6, <2>7, <2>8, <2>9, <2>10, <2>11 DEF TookIn
<1> QED  BY <1>7, <1>8

\* The pages in use are finitely many, and a span has as many as it counts.
LEMMA Counted ==
  ASSUME NEW h, Shape(h)
  PROVE  /\ IsFiniteSet(InUse(h)) /\ Cardinality(InUse(h)) \in Nat
         /\ \A s \in LiveIn(h) : /\ IsFiniteSet(PagesIn(h, s))
                                 /\ Cardinality(PagesIn(h, s)) = h.spans[s].count
<1>1. IsFiniteSet(Page)
  BY Constants, FS_Interval DEF Page
<1>2. IsFiniteSet(InUse(h))
  BY <1>1, FS_Subset DEF InUse
<1>3. Cardinality(InUse(h)) \in Nat
  BY <1>2, FS_CardinalityType
<1>4. ASSUME NEW s \in LiveIn(h)
      PROVE  IsFiniteSet(PagesIn(h, s)) /\ Cardinality(PagesIn(h, s)) = h.spans[s].count
  <2>1. /\ Start(h, s) \in Nat /\ End(h, s) \in Nat /\ Start(h, s) < End(h, s) /\ End(h, s) <= MmapPages
        /\ h.spans[s].count = End(h, s) - Start(h, s)
    BY Bounds, Constants
  <2>2. PagesIn(h, s) = Start(h, s) .. End(h, s) - 1
    BY <2>1, Constants DEF PagesIn, Page
  <2>3. /\ IsFiniteSet(Start(h, s) .. End(h, s) - 1)
        /\ Cardinality(Start(h, s) .. End(h, s) - 1) = End(h, s) - Start(h, s)
    <3> DEFINE a == Start(h, s)
               b == End(h, s) - 1
    <3>1. a \in Int /\ b \in Int /\ ~(a > b) /\ b - a + 1 = End(h, s) - Start(h, s)
      BY <2>1
    <3>2. IsFiniteSet(a .. b) /\ Cardinality(a .. b) = IF a > b THEN 0 ELSE b - a + 1
      BY <3>1, FS_Interval
    <3> QED  BY <3>1, <3>2
  <2> QED  BY <2>1, <2>2, <2>3
<1> QED  BY <1>2, <1>3, <1>4

\* deallocate_span() keeps the invariant, takes one span from its owner and
\* leaves its pages, in a row, in a free span.
LEMMA DeallocKeeps ==
  ASSUME NEW h, Good(h), NEW s \in Held(h), NEW k, k = deallocate_span_in(h, s)
  PROVE  /\ Good(k) /\ k.brk = h.brk /\ k.real = h.real
         /\ Held(k) = Held(h) \ {s} /\ \A u \in Held(k) : k.spans[u] = h.spans[u]
         /\ s \in LiveIn(k) /\ ~k.spans[s].in_use
         /\ Start(k, s) <= Start(h, s) /\ End(h, s) <= End(k, s)
<1> DEFINE count == h.spans[s].count
           r == Released(h, s)
           m == MergeNeighbours(r, s)
           l == link(m, s)
<1>1. Sound(h) /\ h.used = Cardinality(InUse(h)) /\ h.failed = FALSE
  BY DEF Good
<1>2. Shape(h) /\ Apart(h) /\ Covered(h) /\ Mapped(h) /\ Filed(h, Null) /\ Merged(h, Null)
  BY <1>1 DEF Sound, Loose
<1>3. /\ h \in Heaps /\ s \in LiveIn(h) /\ s \in SpanId /\ s # Null /\ h.spans[s].in_use /\ h.spans[s].live
      /\ count \in Nat /\ count > 0
  BY <1>2, Bounds DEF Held, LiveIn
<1>4. /\ Loose(r, s) /\ LiveIn(r) = LiveIn(h) /\ ~r.spans[s].in_use
      /\ \A u \in LiveIn(r) \ {s} : r.spans[u] = h.spans[u]
      /\ Start(r, s) = Start(h, s) /\ End(r, s) = End(h, s)
      /\ r.brk = h.brk /\ r.real = h.real /\ r.used = h.used /\ r.failed = h.failed
      /\ InUse(r) = InUse(h) \ PagesIn(h, s)
  BY <1>1, ReleaseKeeps
<1> HIDE DEF r
<1>4a. /\ Loose(r, s) /\ ~r.spans[s].in_use /\ r.failed = FALSE /\ s \in LiveIn(r)
       /\ m = MergeNeighbours(r, s)
  BY <1>1, <1>3, <1>4
<1> HIDE DEF m
<1>4b. TookIn(r, m, s)
  BY <1>4a, NeighboursMerged
<1>5. /\ Loose(m, s) /\ s \in LiveIn(m) /\ LiveIn(m) \subseteq LiveIn(r) /\ ~m.spans[s].in_use
      /\ \A u \in LiveIn(r) \ LiveIn(m) : ~r.spans[u].in_use
      /\ \A u \in LiveIn(m) \ {s} : m.spans[u] = r.spans[u]
      /\ \A u \in LiveIn(m) : End(m, u) = Start(m, s) \/ Start(m, u) = End(m, s) => m.spans[u].in_use
      /\ Start(m, s) <= Start(r, s) /\ End(r, s) <= End(m, s)
      /\ m.brk = r.brk /\ m.real = r.real /\ m.used = r.used /\ m.failed = r.failed
      /\ InUse(m) = InUse(r)
  BY <1>4b DEF TookIn
<1>6. /\ Sound(l) /\ l.spans = m.spans /\ l.brk = m.brk /\ l.real = m.real /\ l.used = m.used
      /\ l.failed = m.failed
  BY <1>5, LinkKeeps
<1> HIDE DEF l
<1>7. l \in Heaps
  BY <1>6, Bounds DEF Sound, Loose
<1>8. /\ IsFiniteSet(InUse(h)) /\ Cardinality(InUse(h)) \in Nat
      /\ Cardinality(InUse(h) \ PagesIn(h, s)) = Cardinality(InUse(h)) - count
      /\ Cardinality(InUse(h)) >= count
  <2>1. IsFiniteSet(InUse(h)) /\ Cardinality(InUse(h)) \in Nat /\ Cardinality(PagesIn(h, s)) = count
    BY <1>2, <1>3, Counted
  <2>2. PagesIn(h, s) \subseteq InUse(h)
    BY <1>3 DEF PagesIn, InUse
  <2>3. InUse(h) \cap PagesIn(h, s) = PagesIn(h, s)
    BY <2>2
  <2>4. /\ Cardinality(InUse(h) \ PagesIn(h, s)) = Cardinality(InUse(h)) - Cardinality(InUse(h) \cap PagesIn(h, s))
    BY <2>1, FS_Difference
  <2>5. Cardinality(PagesIn(h, s)) <= Cardinality(InUse(h))
    BY <2>1, <2>2, FS_Subset
  <2> QED  BY <1>3, <2>1, <2>3, <2>4, <2>5
<1>9. k = [l EXCEPT !.used = l.used - count]
  <2>1. Check(h, /\ h.spans[s].live /\ h.spans[s].in_use /\ h.spans[s].count > 0 /\ ~Listed(h, s)
                 /\ h.map[h.spans[s].start] = s /\ h.map[last_page(h.spans[s])] = s) = h
    <3>1. ~Listed(h, s)
      BY <1>2, <1>3 DEF Listed, Filed
    <3>2. h.map[h.spans[s].start] = s
      BY <1>2, <1>3 DEF Mapped, Start
    <3>3. h.map[last_page(h.spans[s])] = s
      <4>1. h.map[End(h, s) - 1] = s
        BY <1>2, <1>3 DEF Mapped
      <4>2. last_page(h.spans[s]) = End(h, s) - 1
        BY <1>2, <1>3, Bounds DEF End, Start, last_page
      <4> QED  BY <4>1, <4>2
    <3> DEFINE ok == /\ h.spans[s].live /\ h.spans[s].in_use /\ h.spans[s].count > 0 /\ ~Listed(h, s)
                     /\ h.map[h.spans[s].start] = s /\ h.map[last_page(h.spans[s])] = s
    <3>4. ok = TRUE
      <4>1. ok
        BY <1>3, <3>1, <3>2, <3>3
      <4>2. ok \in BOOLEAN
        <5>1. h.spans[s].live \in BOOLEAN
          BY <1>3, SpanTypes DEF Span
        <5> QED  BY <5>1, Zenon
      <4> HIDE DEF ok
      <4> QED  BY <4>1, <4>2
    <3> HIDE DEF ok
    <3>5. Check(h, ok) = h
      BY <1>1, <1>3, <3>4, CheckTrue
    <3> QED  BY <3>5 DEF ok
  <2>2. Check(l, h.used >= h.spans[s].count) = l
    <3>1. h.used >= h.spans[s].count
      BY <1>1, <1>3, <1>8
    <3>2. l.failed = FALSE
      BY <1>1, <1>4, <1>5, <1>6, SMTT(30)
    <3> QED  BY <1>7, <3>1, <3>2, CheckTrue
  <2>3. k = [Check(link(MergeNeighbours(Released(h, s), s), s), h.used >= h.spans[s].count)
               EXCEPT !.used = @ - h.spans[s].count]
    BY <2>1, Zenon DEF deallocate_span_in, Released
  <2>4. k = [Check(l, h.used >= h.spans[s].count) EXCEPT !.used = @ - h.spans[s].count]
    BY <2>3 DEF l, m, r
  <2> QED  BY <2>2, <2>4
<1>10. l.used - count \in Int
  BY <1>7, <1>3, SpanTypes
<1>11. Is(k, l.spans, l.map, l.lists, l.brk, l.real, l.used - count, l.failed)
  BY <1>7, <1>9, <1>10, IsItself, SetUsed
<1>12. /\ k \in Heaps /\ k.spans = l.spans /\ k.map = l.map /\ k.lists = l.lists /\ k.brk = l.brk
       /\ k.real = l.real /\ k.used = l.used - count /\ k.failed = l.failed
  BY <1>11 DEF Is
<1>13. LiveIn(k) = LiveIn(m) /\ InUse(k) = InUse(m) /\ \A u : Start(k, u) = Start(m, u) /\ End(k, u) = End(m, u)
  BY <1>6, <1>12 DEF LiveIn, InUse, Start, End
<1>14. Sound(k)
  <2>1. LiveIn(k) = LiveIn(l) /\ \A u : Start(k, u) = Start(l, u) /\ End(k, u) = End(l, u)
    BY <1>12 DEF LiveIn, Start, End
  <2>2. Shape(l) /\ Apart(l) /\ Covered(l) /\ Mapped(l) /\ Filed(l, Null) /\ Merged(l, Null)
    BY <1>6 DEF Sound, Loose
  <2>3. Shape(k) /\ Apart(k) /\ Covered(k) /\ Mapped(k) /\ Filed(k, Null) /\ Merged(k, Null)
    BY <1>12, <2>1, <2>2 DEF Shape, Apart, Covered, Mapped, Filed, Merged
  <2> QED  BY <2>3 DEF Sound, Loose
<1>15. k.used = Cardinality(InUse(k)) /\ k.failed = FALSE
  BY <1>1, <1>4, <1>5, <1>6, <1>8, <1>12, <1>13
<1>16. Held(k) = Held(h) \ {s} /\ \A u \in Held(k) : k.spans[u] = h.spans[u]
  <2>1. \A u \in Held(k) : u \in Held(h) /\ u # s /\ k.spans[u] = h.spans[u]
    BY <1>4, <1>5, <1>6, <1>12, <1>13 DEF Held
  <2>2. \A u \in Held(h) \ {s} : u \in Held(k)
    BY <1>4, <1>5, <1>6, <1>12, <1>13 DEF Held
  <2> QED  BY <2>1, <2>2
<1> QED  BY <1>4, <1>5, <1>6, <1>12, <1>13, <1>14, <1>15, <1>16 DEF Good
-----------------------------------------------------------------------------
(* Taking a span *)

\* While some page starts no span there is a structure that is not in use.
LEMMA SpareExists ==
  ASSUME NEW h, Shape(h), Apart(h), SpanPool >= MmapPages,
         NEW p \in 0 .. MmapPages - 1, \A s \in LiveIn(h) : Start(h, s) # p
  PROVE  HasSpare(h) /\ Spare(h) \in SpanId /\ Spare(h) \notin LiveIn(h)
<1>1. HasSpare(h)
  <2> SUFFICES ASSUME ~HasSpare(h) PROVE FALSE
    OBVIOUS
  <2> DEFINE T == 0 .. MmapPages - 1
             f == [s \in SpanId |-> Start(h, s)]
  <2>1. \A s \in SpanId : s \in LiveIn(h)
    BY DEF HasSpare, LiveIn
  <2>2. f \in [SpanId -> T \ {p}]
    <3>1. \A s \in SpanId : Start(h, s) \in T \ {p}
      BY <2>1, Bounds, Constants
    <3> QED  BY <3>1
  <2>3. IsFiniteSet(SpanId) /\ Cardinality(SpanId) = SpanPool
    <3>1. 1 \in Int /\ SpanPool \in Int /\ ~(1 > SpanPool) /\ SpanPool - 1 + 1 = SpanPool
      BY Constants
    <3> QED  BY <3>1, FS_Interval DEF SpanId
  <2>4. IsFiniteSet(T) /\ Cardinality(T) = MmapPages
    <3>1. 0 \in Int /\ MmapPages - 1 \in Int /\ ~(0 > MmapPages - 1) /\ MmapPages - 1 - 0 + 1 = MmapPages
      BY Constants
    <3> QED  BY <3>1, FS_Interval
  <2>5. IsFiniteSet(T \ {p}) /\ Cardinality(T \ {p}) = MmapPages - 1
    BY <2>4, FS_RemoveElement
  <2>6. Cardinality(T \ {p}) < Cardinality(SpanId)
    BY <2>3, <2>5, Constants
  <2> HIDE DEF T, f
  <2>7. \E x, y \in SpanId : x # y /\ f[x] = f[y]
    BY <2>2, <2>3, <2>5, <2>6, FS_PigeonHole
  <2>8. PICK x \in SpanId, y \in SpanId : x # y /\ f[x] = f[y]
    BY <2>7
  <2>9. Start(h, x) = Start(h, y) /\ x \in LiveIn(h) /\ y \in LiveIn(h)
    BY <2>1, <2>8 DEF f
  <2> QED  BY <2>8, <2>9, Bounds DEF Apart
<1> QED  BY <1>1 DEF HasSpare, Spare, LiveIn

LEMMA EndsSet ==
  ASSUME NEW m \in [Page -> SpanId \cup {Null}], NEW sp, sp.start \in Nat, sp.count \in Nat, NEW s \in SpanId
  PROVE  /\ SetEnds(m, sp, s) \in [Page -> SpanId \cup {Null}]
         /\ \A p \in Page : SetEnds(m, sp, s)[p] =
              IF p = sp.start \/ p = sp.start + sp.count - 1 THEN s ELSE m[p]
<1>1. SetEnds(m, sp, s) = [[m EXCEPT ![sp.start] = s] EXCEPT ![last_page(sp)] = s]
  BY DEF SetEnds
<1>2. last_page(sp) = sp.start + sp.count - 1
  BY DEF last_page
<1> QED  BY <1>1, <1>2

\* A span as new_span() leaves it.
New(start, count) ==
  [start |-> start, count |-> count, in_use |-> FALSE, cached |-> FALSE, live |-> TRUE]

LEMMA NewSpanIs ==
  ASSUME NEW h \in Heaps, Spare(h) \in SpanId, NEW start \in Nat, NEW count \in Nat
  PROVE  Is(NewSpan(h, start, count), [h.spans EXCEPT ![Spare(h)] = New(start, count)],
            SetEnds(h.map, New(start, count), Spare(h)), h.lists, h.brk, h.real, h.used, h.failed)
<1> DEFINE x == Spare(h)
           sp == New(start, count)
           S == [h.spans EXCEPT ![x] = sp]
           M == SetEnds(h.map, sp, x)
           k1 == [h EXCEPT !.spans = S]
           k2 == [k1 EXCEPT !.map = M]
<1>1. sp \in Span /\ sp.start = start /\ sp.count = count
  BY DEF Span, New
<1>2. S \in [SpanId -> Span] /\ M \in [Page -> SpanId \cup {Null}]
  <2>1. h.spans \in [SpanId -> Span] /\ h.map \in [Page -> SpanId \cup {Null}] /\ x \in SpanId
    BY SpanTypes
  <2> HIDE DEF sp, x
  <2>2. S \in [SpanId -> Span]
    BY <1>1, <2>1
  <2>3. M \in [Page -> SpanId \cup {Null}]
    BY <1>1, <2>1, EndsSet
  <2> QED  BY <2>2, <2>3
<1>3. NewSpan(h, start, count) = [h EXCEPT !.spans[x] = sp, !.map = SetEnds(@, sp, x)]
  BY DEF NewSpan, New
<1>4. [h EXCEPT !.spans[x] = sp] = k1
  OBVIOUS
<1> HIDE DEF x, sp, S, M, k1
<1>5. Is(k1, S, h.map, h.lists, h.brk, h.real, h.used, h.failed)
  BY <1>2, IsItself, SetSpans DEF k1
<1>6. k1.map = h.map
  BY <1>5 DEF Is
<1>7. NewSpan(h, start, count) = k2
  BY <1>3, <1>4, <1>6 DEF M
<1> HIDE DEF k2
<1>8. Is(k2, S, M, h.lists, h.brk, h.real, h.used, h.failed)
  BY <1>2, <1>5, SetMap DEF k2
<1> QED  BY <1>7, <1>8 DEF S, M, x, sp

\* The lists without a free span.
LEMMA UnlinkKeeps ==
  ASSUME NEW h, Sound(h), NEW s \in LiveIn(h), ~h.spans[s].in_use, NEW k, k = span_list_remove(h, s)
  PROVE  /\ Loose(k, s) /\ InUse(k) = InUse(h) /\ LiveIn(k) = LiveIn(h)
         /\ Is(k, h.spans, h.map, [c \in ListId |-> Unlinked(h.lists[c], s)], h.brk, h.real, h.used, h.failed)
<1> DEFINE L == [c \in ListId |-> Unlinked(h.lists[c], s)]
<1>1. Shape(h) /\ Apart(h) /\ Covered(h) /\ Mapped(h) /\ Filed(h, Null) /\ Merged(h, Null)
  BY DEF Sound, Loose
<1>2. h \in Heaps /\ s \in SpanId /\ s # Null
  BY <1>1, Bounds
<1>3. \A c \in ListId : h.lists[c] \in Seq(SpanId) /\ Once(h.lists[c])
  BY <1>1, <1>2, SpanTypes DEF Filed
<1>4. \A c \in ListId : /\ Unlinked(h.lists[c], s) \in Seq(SpanId) /\ Once(Unlinked(h.lists[c], s))
                        /\ ToSet(Unlinked(h.lists[c], s)) = ToSet(h.lists[c]) \ {s}
  BY <1>3, UnlinkedIs
<1>5. L \in [ListId -> Seq(SpanId)] /\ \A c \in ListId : L[c] = Unlinked(h.lists[c], s)
  BY <1>4
<1>6. k = [h EXCEPT !.lists = L]
  BY DEF span_list_remove
<1> HIDE DEF L
<1>7. Is(k, h.spans, h.map, L, h.brk, h.real, h.used, h.failed)
  BY <1>2, <1>5, <1>6, IsItself, SetLists
<1>8. /\ k \in Heaps /\ k.spans = h.spans /\ k.map = h.map /\ k.lists = L /\ k.brk = h.brk
      /\ k.real = h.real /\ k.used = h.used /\ k.failed = h.failed
  BY <1>7 DEF Is
<1>9. LiveIn(k) = LiveIn(h) /\ \A u : Start(k, u) = Start(h, u) /\ End(k, u) = End(h, u)
  BY <1>8 DEF LiveIn, Start, End
<1>10. Shape(k) /\ Apart(k) /\ Covered(k) /\ Mapped(k)
  BY <1>1, <1>8, <1>9 DEF Shape, Apart, Covered, Mapped
<1>11. Merged(k, s)
  BY <1>1, <1>8, <1>9, Bounds DEF Merged
<1>12. Filed(k, s)
  <2>1. \A c \in ListId : Once(k.lists[c]) /\ ToSet(k.lists[c]) = ToSet(h.lists[c]) \ {s}
    BY <1>4, <1>5, <1>8
  <2>2. ASSUME NEW u \in SpanId, NEW c \in ListId
        PROVE  u \in ToSet(k.lists[c]) <=>
                 u \in LiveIn(k) /\ ~k.spans[u].in_use /\ u # s /\ c = ListOf(k.spans[u].count)
    BY <1>1, <1>8, <1>9, <2>1, Constants DEF Filed
  <2> QED  BY <2>1, <2>2 DEF Filed
<1>13. InUse(k) = InUse(h)
  BY <1>8, <1>9 DEF InUse
<1> QED  BY <1>7, <1>9, <1>10, <1>11, <1>12, <1>13 DEF Loose, L

\* A span in no list is handed out as it is.
Taken(h, s) == [h EXCEPT !.spans[s].in_use = TRUE]

LEMMA UseKeeps ==
  ASSUME NEW h, NEW s \in LiveIn(h), Loose(h, s), ~h.spans[s].in_use,
         NEW k, k = Taken(h, s)
  PROVE  /\ Sound(k) /\ LiveIn(k) = LiveIn(h) /\ k.spans[s].in_use
         /\ \A u \in LiveIn(k) \ {s} : k.spans[u] = h.spans[u]
         /\ Start(k, s) = Start(h, s) /\ End(k, s) = End(h, s)
         /\ k.brk = h.brk /\ k.real = h.real /\ k.used = h.used /\ k.failed = h.failed
         /\ InUse(k) = InUse(h) \cup PagesIn(h, s)
<1>1. Shape(h) /\ Apart(h) /\ Covered(h) /\ Mapped(h) /\ Filed(h, s) /\ Merged(h, s)
  BY DEF Loose
<1>2. h \in Heaps /\ s \in SpanId /\ s # Null
  BY <1>1, Bounds
<1> DEFINE q == [h.spans[s] EXCEPT !.in_use = TRUE]
<1>3. /\ q \in Span /\ q.start = h.spans[s].start /\ q.count = h.spans[s].count
      /\ q.in_use = TRUE /\ q.cached = h.spans[s].cached /\ q.live = h.spans[s].live
  BY <1>2, SpanTypes DEF Span
<1>4. k = [h EXCEPT !.spans = [h.spans EXCEPT ![s] = q]]
  BY DEF Taken
<1> HIDE DEF q
<1>5. Is(k, [h.spans EXCEPT ![s] = q], h.map, h.lists, h.brk, h.real, h.used, h.failed)
  <2>1. [h.spans EXCEPT ![s] = q] \in [SpanId -> Span]
    BY <1>2, <1>3, SpanTypes
  <2> QED  BY <1>2, <1>4, <2>1, IsItself, SetSpans
<1>6. /\ k.spans[s] = q /\ \A u \in SpanId \ {s} : k.spans[u] = h.spans[u]
      /\ k \in Heaps /\ k.map = h.map /\ k.lists = h.lists
      /\ k.brk = h.brk /\ k.real = h.real /\ k.used = h.used /\ k.failed = h.failed
  BY <1>2, <1>5, SpanTypes DEF Is
<1>7. LiveIn(k) = LiveIn(h)
  BY <1>3, <1>6 DEF LiveIn
<1>8. \A u \in LiveIn(h) : /\ Start(k, u) = Start(h, u) /\ End(k, u) = End(h, u)
                           /\ k.spans[u].count = h.spans[u].count
                           /\ h.spans[u].in_use => k.spans[u].in_use
                           /\ k.spans[u].cached = h.spans[u].cached
                           /\ u # s => k.spans[u] = h.spans[u]
                           /\ u = s => k.spans[u].in_use
  <2> TAKE u \in LiveIn(h)
  <2>1. CASE u = s
    BY <1>3, <1>6, <2>1 DEF Start, End
  <2>2. CASE u # s
    BY <1>1, <1>6, <2>2, Bounds DEF Start, End
  <2> QED  BY <2>1, <2>2
<1>9. Shape(k)
  BY <1>1, <1>6, <1>7, <1>8 DEF Shape
<1>10. Apart(k)
  BY <1>1, <1>7, <1>8 DEF Apart
<1>11. Covered(k)
  BY <1>1, <1>6, <1>7, <1>8 DEF Covered
<1>12. Mapped(k)
  BY <1>1, <1>6, <1>7, <1>8 DEF Mapped
<1>13. Filed(k, Null)
  <2>1. ASSUME NEW u \in SpanId, NEW c \in ListId
        PROVE  u \in ToSet(k.lists[c]) <=>
                 u \in LiveIn(k) /\ ~k.spans[u].in_use /\ u # Null /\ c = ListOf(k.spans[u].count)
    <3>1. u # Null
      BY Constants
    <3>2. CASE u = s
      BY <1>1, <1>6, <1>7, <1>8, <3>2 DEF Filed
    <3>3. CASE u # s
      BY <1>1, <1>6, <1>7, <1>8, <3>1, <3>3 DEF Filed
    <3> QED  BY <3>2, <3>3
  <2> QED  BY <1>1, <1>6, <2>1 DEF Filed
<1>14. Merged(k, Null)
  BY <1>1, <1>7, <1>8 DEF Merged
<1>15. InUse(k) = InUse(h) \cup PagesIn(h, s)
  <2>1. ASSUME NEW p \in InUse(k) PROVE p \in InUse(h) \cup PagesIn(h, s)
    BY <1>7, <1>8 DEF InUse, PagesIn
  <2>2. ASSUME NEW p \in InUse(h) PROVE p \in InUse(k)
    BY <1>7, <1>8 DEF InUse
  <2>3. ASSUME NEW p \in PagesIn(h, s) PROVE p \in InUse(k)
    BY <1>7, <1>8 DEF InUse, PagesIn
  <2> QED  BY <2>1, <2>2, <2>3
<1> QED  BY <1>3, <1>6, <1>7, <1>8, <1>9, <1>10, <1>11, <1>12, <1>13, <1>14, <1>15 DEF Sound, Loose

\* A free span is cut in two: s, which is handed out, has the first n pages
\* of it, and x, not in a list yet, has the rest.
Cut(h, k, s, n, x) ==
  /\ k \in Heaps /\ k.brk = h.brk /\ k.real = h.real
  /\ k.spans[s] = [start |-> Start(h, s), count |-> n, in_use |-> TRUE, cached |-> FALSE, live |-> TRUE]
  /\ k.spans[x] = New(Start(h, s) + n, h.spans[s].count - n)
  /\ \A u \in SpanId \ {s, x} : k.spans[u] = h.spans[u]
  /\ \A p \in Page : k.map[p] = IF p = (Start(h, s) + n) - 1 THEN s
                                ELSE IF p = Start(h, s) + n \/ p = End(h, s) - 1 THEN x ELSE h.map[p]
  /\ \A c \in ListId : k.lists[c] = Unlinked(h.lists[c], s)

LEMMA CutKeeps ==
  ASSUME NEW h, Sound(h), NEW s \in LiveIn(h), ~h.spans[s].in_use,
         NEW n \in Nat, 0 < n, n < h.spans[s].count, NEW x \in SpanId, x \notin LiveIn(h),
         NEW k, Cut(h, k, s, n, x)
  PROVE  /\ Loose(k, x) /\ LiveIn(k) = LiveIn(h) \cup {x}
         /\ \A u \in LiveIn(k) : End(k, u) = Start(k, x) \/ Start(k, u) = End(k, x) => k.spans[u].in_use
         /\ Held(k) = Held(h) \cup {s} /\ \A u \in Held(h) : k.spans[u] = h.spans[u]
         /\ Start(k, s) = Start(h, s) /\ End(k, s) = Start(h, s) + n
         /\ InUse(k) = InUse(h) \cup PagesIn(k, s)
<1> DEFINE a == Start(h, s)
           b == Start(h, s) + n
           e == End(h, s)
<1>1. Shape(h) /\ Apart(h) /\ Covered(h) /\ Mapped(h) /\ Filed(h, Null) /\ Merged(h, Null)
  BY DEF Sound, Loose
<1>2. /\ h \in Heaps /\ s \in SpanId /\ s # Null /\ x # s /\ x # Null /\ h.brk \in Nat
      /\ a \in Nat /\ e \in Nat /\ h.spans[s].count = e - a /\ e <= h.brk /\ h.brk <= MmapPages
  BY <1>1, Bounds, Constants
<1>3. b \in Nat /\ a < b /\ b < e
  BY <1>2
<1>4. /\ k \in Heaps /\ k.brk = h.brk /\ k.real = h.real
      /\ \A u \in SpanId \ {s, x} : k.spans[u] = h.spans[u]
      /\ \A p \in Page : k.map[p] = IF p = b - 1 THEN s ELSE IF p = b \/ p = e - 1 THEN x ELSE h.map[p]
      /\ \A c \in ListId : k.lists[c] = Unlinked(h.lists[c], s)
  BY DEF Cut
<1>5. /\ Start(k, s) = a /\ k.spans[s].count = n /\ End(k, s) = b
      /\ k.spans[s].live /\ k.spans[s].in_use /\ ~k.spans[s].cached
  BY <1>2 DEF Cut, Start, End
<1>6. /\ Start(k, x) = b /\ k.spans[x].count = e - b /\ End(k, x) = e
      /\ k.spans[x].live /\ ~k.spans[x].in_use /\ ~k.spans[x].cached
  <2>1. k.spans[x] = New(b, e - b)
    BY <1>2, <1>3 DEF Cut
  <2> HIDE DEF a, b, e
  <2>2. b + (e - b) = e
    BY <1>2, <1>3
  <2> QED  BY <2>1, <2>2 DEF New, Start, End
<1> HIDE DEF a, b, e
<1>7. LiveIn(k) = LiveIn(h) \cup {x}
  <2>1. ASSUME NEW u \in SpanId PROVE u \in LiveIn(k) <=> u \in LiveIn(h) \/ u = x
    BY <1>4, <1>5, <1>6 DEF LiveIn
  <2>2. x \in SpanId /\ LiveIn(k) \subseteq SpanId /\ LiveIn(h) \subseteq SpanId
    BY DEF LiveIn
  <2> QED  BY <2>1, <2>2
<1>8. \A u \in LiveIn(h) \ {s} :
        /\ u \in SpanId /\ u # x /\ k.spans[u] = h.spans[u]
        /\ Start(k, u) = Start(h, u) /\ End(k, u) = End(h, u)
        /\ Start(h, u) \in Nat /\ End(h, u) \in Nat /\ Start(h, u) < End(h, u) /\ End(h, u) <= h.brk
        /\ End(h, u) <= a \/ e <= Start(h, u)
  <2> TAKE u \in LiveIn(h) \ {s}
  <2>1. u \in SpanId /\ u # x /\ k.spans[u] = h.spans[u]
    BY <1>4 DEF LiveIn
  <2>2. Start(k, u) = Start(h, u) /\ End(k, u) = End(h, u)
    BY <2>1 DEF Start, End
  <2>3. End(h, u) <= a \/ e <= Start(h, u)
    BY <1>1 DEF Apart, a, e
  <2> QED  BY <1>1, <2>1, <2>2, <2>3, Bounds
<1>9. Shape(k)
  <2>1. k.brk <= k.real /\ k.real <= MmapPages
    BY <1>1, <1>4 DEF Shape
  <2>2. ASSUME NEW u \in LiveIn(k) PROVE k.spans[u].count > 0 /\ End(k, u) <= k.brk
    <3>1. CASE u = s
      BY <1>2, <1>3, <1>4, <1>5, <3>1
    <3>2. CASE u = x
      BY <1>2, <1>3, <1>4, <1>6, <3>2
    <3>3. CASE u # s /\ u # x
      BY <1>1, <1>4, <1>7, <1>8, <3>3 DEF Shape
    <3> QED  BY <3>1, <3>2, <3>3
  <2> QED  BY <1>4, <2>1, <2>2 DEF Shape
<1>10. Apart(k)
  <2> SUFFICES ASSUME NEW u \in LiveIn(k), NEW v \in LiveIn(k), u # v
               PROVE  End(k, u) <= Start(k, v) \/ End(k, v) <= Start(k, u)
    BY DEF Apart
  <2>1. CASE u \in {s, x} /\ v \in {s, x}
    BY <1>2, <1>3, <1>5, <1>6, <2>1
  <2>2. CASE u \in {s, x} /\ v \notin {s, x}
    BY <1>2, <1>3, <1>5, <1>6, <1>7, <1>8, <2>2
  <2>3. CASE u \notin {s, x} /\ v \in {s, x}
    BY <1>2, <1>3, <1>5, <1>6, <1>7, <1>8, <2>3
  <2>4. CASE u \notin {s, x} /\ v \notin {s, x}
    <3>1. u \in LiveIn(h) \ {s} /\ v \in LiveIn(h) \ {s}
      BY <1>7, <2>4
    <3>2. End(h, u) <= Start(h, v) \/ End(h, v) <= Start(h, u)
      BY <1>1, <3>1 DEF Apart
    <3> QED  BY <1>8, <3>1, <3>2
  <2> QED  BY <2>1, <2>2, <2>3, <2>4
<1>11. Covered(k)
  <2> SUFFICES ASSUME NEW p \in 0 .. h.brk - 1
               PROVE  \E u \in LiveIn(k) : Start(k, u) <= p /\ p < End(k, u)
    BY <1>4 DEF Covered
  <2>1. PICK u \in LiveIn(h) : Start(h, u) <= p /\ p < End(h, u)
    BY <1>1 DEF Covered
  <2>2. CASE u = s
    <3>1. a <= p /\ p < e
      BY <2>1, <2>2 DEF a, e
    <3>2. CASE p < b
      BY <1>5, <1>7, <3>1, <3>2
    <3>3. CASE p >= b
      BY <1>6, <1>7, <3>1, <3>3
    <3> QED  BY <1>2, <1>3, <3>2, <3>3
  <2>3. CASE u # s
    BY <1>7, <1>8, <2>1, <2>3
  <2> QED  BY <2>2, <2>3
<1>12. a \in Page /\ b \in Page /\ b - 1 \in Page /\ e - 1 \in Page
  BY <1>2, <1>3, Constants DEF Page
<1>13. ASSUME NEW u \in LiveIn(h) \ {s}, NEW p \in Page, Start(h, u) <= p, p < End(h, u)
       PROVE  k.map[p] = h.map[p]
  <2>1. p \in Nat /\ p # b - 1 /\ p # b /\ p # e - 1
    BY <1>2, <1>3, <1>8, <1>13, Constants
  <2> QED  BY <1>4, <2>1
<1>14. Mapped(k)
  <2>1. ASSUME NEW u \in LiveIn(k) PROVE k.map[Start(k, u)] = u /\ k.map[End(k, u) - 1] = u
    <3>1. CASE u = s
      <4>1. h.map[a] = s
        BY <1>1 DEF Mapped, a
      <4>2. k.map[b - 1] = s
        BY <1>4, <1>12
      <4>3. k.map[a] = s
        BY <1>2, <1>3, <1>4, <1>12, <4>1
      <4> QED  BY <1>5, <3>1, <4>2, <4>3
    <3>2. CASE u = x
      <4>1. k.map[b] = x
        BY <1>2, <1>3, <1>4, <1>12
      <4>2. k.map[e - 1] = x
        BY <1>2, <1>3, <1>4, <1>12
      <4> QED  BY <1>6, <3>2, <4>1, <4>2
    <3>3. CASE u # s /\ u # x
      <4>1. u \in LiveIn(h) \ {s}
        BY <1>7, <3>3
      <4>2. /\ Start(h, u) \in Page /\ End(h, u) - 1 \in Page
            /\ h.map[Start(h, u)] = u /\ h.map[End(h, u) - 1] = u
        BY <1>1, <4>1, Bounds DEF Mapped
      <4>3. k.map[Start(h, u)] = u
        BY <1>8, <1>13, <4>1, <4>2
      <4>4. k.map[End(h, u) - 1] = u
        BY <1>8, <1>13, <4>1, <4>2
      <4> QED  BY <1>8, <4>1, <4>3, <4>4
    <3> QED  BY <3>1, <3>2, <3>3
  <2>2. ASSUME NEW u \in LiveIn(k), k.spans[u].cached
        PROVE  k.spans[u].in_use /\ \A p \in Page : Start(k, u) <= p /\ p < End(k, u) => k.map[p] = u
    <3>1. u # s /\ u # x
      BY <1>5, <1>6, <2>2
    <3>2. u \in LiveIn(h) \ {s} /\ k.spans[u] = h.spans[u]
      BY <1>7, <1>8, <3>1
    <3> QED  BY <1>1, <1>8, <1>13, <2>2, <3>2 DEF Mapped
  <2>3. ASSUME NEW p \in Page, p >= k.brk PROVE k.map[p] = Null
    <3>1. p >= h.brk /\ p # b - 1 /\ p # b /\ p # e - 1
      BY <1>2, <1>3, <1>4, <2>3, Constants
    <3> QED  BY <1>1, <1>4, <3>1 DEF Mapped
  <2> QED  BY <2>1, <2>2, <2>3 DEF Mapped
<1>15. Filed(k, x)
  <2>1. \A c \in ListId : /\ k.lists[c] = Unlinked(h.lists[c], s) /\ Once(h.lists[c])
                          /\ h.lists[c] \in Seq(SpanId)
    BY <1>1, <1>2, <1>4, SpanTypes DEF Filed
  <2>2. \A c \in ListId : Once(k.lists[c]) /\ ToSet(k.lists[c]) = ToSet(h.lists[c]) \ {s}
    BY <2>1, UnlinkedIs
  <2>3. ASSUME NEW u \in SpanId, NEW c \in ListId
        PROVE  u \in ToSet(k.lists[c]) <=>
                 u \in LiveIn(k) /\ ~k.spans[u].in_use /\ u # x /\ c = ListOf(k.spans[u].count)
    <3>1. u \in ToSet(h.lists[c]) <=>
            u \in LiveIn(h) /\ ~h.spans[u].in_use /\ c = ListOf(h.spans[u].count)
      BY <1>1, Constants DEF Filed
    <3>2. CASE u = s
      BY <1>5, <2>2, <3>2
    <3>3. CASE u = x
      BY <2>2, <3>1, <3>3
    <3>4. CASE u # s /\ u # x
      <4>1. k.spans[u] = h.spans[u] /\ (u \in LiveIn(k) <=> u \in LiveIn(h))
        BY <1>4, <1>7, <3>4
      <4> QED  BY <2>2, <3>1, <3>4, <4>1
    <3> QED  BY <3>2, <3>3, <3>4
  <2> QED  BY <2>2, <2>3 DEF Filed
<1>16. Merged(k, x)
  <2> SUFFICES ASSUME NEW u \in LiveIn(k), NEW v \in LiveIn(k), u # x, v # x, End(k, u) = Start(k, v)
               PROVE  k.spans[u].in_use \/ k.spans[v].in_use
    BY DEF Merged
  <2>1. CASE u = s \/ v = s
    BY <1>5, <2>1
  <2>2. CASE u # s /\ v # s
    <3>1. u \in LiveIn(h) \ {s} /\ v \in LiveIn(h) \ {s}
      BY <1>7, <2>2
    <3>2. End(h, u) = Start(h, v) /\ u # Null /\ v # Null
      BY <1>8, <3>1, Constants
    <3> QED  BY <1>1, <1>8, <3>1, <3>2 DEF Merged
  <2> QED  BY <2>1, <2>2
<1>17. ASSUME NEW u \in LiveIn(k), End(k, u) = Start(k, x) \/ Start(k, u) = End(k, x)
       PROVE  k.spans[u].in_use
  <2>1. u # x
    BY <1>2, <1>3, <1>6, <1>17
  <2>2. CASE u # s
    <3>1. u \in LiveIn(h) \ {s}
      BY <1>7, <2>1, <2>2
    <3>2. Start(h, u) = e
      BY <1>2, <1>3, <1>6, <1>8, <1>17, <3>1
    <3>3. h.spans[u].in_use
      BY <1>1, <1>2, <3>1, <3>2, Bounds DEF Merged, e
    <3> QED  BY <1>8, <3>1, <3>3
  <2> QED  BY <1>5, <2>2
<1>18. Held(k) = Held(h) \cup {s} /\ \A u \in Held(h) : k.spans[u] = h.spans[u]
  <2>1. ASSUME NEW u \in LiveIn(k) PROVE u \in Held(k) <=> u \in Held(h) \/ u = s
    <3>1. CASE u = s
      BY <1>5, <3>1 DEF Held
    <3>2. CASE u = x
      BY <1>2, <1>6, <3>2 DEF Held
    <3>3. CASE u # s /\ u # x
      BY <1>7, <1>8, <3>3 DEF Held
    <3> QED  BY <3>1, <3>2, <3>3
  <2>2. Held(k) \subseteq LiveIn(k) /\ Held(h) \subseteq LiveIn(k) /\ s \in LiveIn(k)
    BY <1>7 DEF Held
  <2>3. \A u \in Held(h) : u \in LiveIn(h) \ {s}
    BY DEF Held
  <2> QED  BY <1>8, <2>1, <2>2, <2>3
<1>19. InUse(k) = InUse(h) \cup PagesIn(k, s)
  <2>1. \A p : p \in InUse(k) <=> p \in Page /\ \E u \in Held(k) : Start(k, u) <= p /\ p < End(k, u)
    BY DEF InUse, Held
  <2>2. \A p : p \in InUse(h) <=> p \in Page /\ \E u \in Held(h) : Start(h, u) <= p /\ p < End(h, u)
    BY DEF InUse, Held
  <2>3. \A u \in Held(h) : Start(k, u) = Start(h, u) /\ End(k, u) = End(h, u)
    BY <1>18 DEF Start, End
  <2> QED  BY <1>18, <2>1, <2>2, <2>3 DEF PagesIn
<1> QED  BY <1>5, <1>7, <1>9, <1>10, <1>11, <1>14, <1>15, <1>16, <1>17, <1>18, <1>19 DEF Loose, a, b

LEMMA Same ==
  ASSUME NEW h, NEW k, NEW S, NEW M, NEW L, NEW b, NEW r, NEW u, NEW f,
         Is(h, S, M, L, b, r, u, f), Is(k, S, M, L, b, r, u, f)
  PROVE  h = k
  BY DEF Is, Heaps

LEMMA SpanUsed ==
  ASSUME NEW sp \in Span
  PROVE  /\ [sp EXCEPT !.in_use = TRUE] \in Span
         /\ [sp EXCEPT !.in_use = TRUE] = [start |-> sp.start, count |-> sp.count, in_use |-> TRUE,
                                           cached |-> sp.cached, live |-> sp.live]
<1> DEFINE q == [sp EXCEPT !.in_use = TRUE]
<1>1. /\ q \in Span /\ q.start = sp.start /\ q.count = sp.count /\ q.in_use = TRUE
      /\ q.cached = sp.cached /\ q.live = sp.live
  BY DEF Span
<1> HIDE DEF q
<1>2. q = [start |-> q.start, count |-> q.count, in_use |-> q.in_use, cached |-> q.cached, live |-> q.live]
  BY <1>1 DEF Span
<1>3. q = [start |-> sp.start, count |-> sp.count, in_use |-> TRUE, cached |-> sp.cached, live |-> sp.live]
  BY <1>1, <1>2, Zenon
<1> QED  BY <1>1, <1>3 DEF q

\* What carve() makes of a span that is too long.
Split(h, s, n) ==
  LET g == span_list_remove(h, s)
      k == link(NewSpan(g, h.spans[s].start + n, h.spans[s].count - n), Spare(g))
  IN  Taken([k EXCEPT !.spans[s].count = n, !.map[h.spans[s].start + n - 1] = s], s)

LEMMA SplitIs ==
  ASSUME NEW h, Sound(h), NEW s \in LiveIn(h), ~h.spans[s].in_use, NEW n \in Nat, 0 < n, n < h.spans[s].count,
         NEW x, x = Spare(span_list_remove(h, s)), x \in SpanId, x \notin LiveIn(h)
  PROVE  \E k : /\ Cut(h, k, s, n, x) /\ Split(h, s, n) = link(k, x)
                /\ k.used = h.used /\ k.failed = h.failed
<1> DEFINE g == span_list_remove(h, s)
           sp == h.spans[s]
           b == sp.start + n
           extra == sp.count - n
           q == sp.start + n - 1
           L == [c \in ListId |-> Unlinked(h.lists[c], s)]
           S1 == [h.spans EXCEPT ![x] = New(b, extra)]
           M1 == SetEnds(h.map, New(b, extra), x)
           i == ListOf(extra)
           L2 == [L EXCEPT ![i] = <<x>> \o L[i]]
           S2 == [S1 EXCEPT ![s] = [S1[s] EXCEPT !.count = n]]
           M2 == [M1 EXCEPT ![q] = s]
           S3 == [S2 EXCEPT ![s] = [S2[s] EXCEPT !.in_use = TRUE]]
           k1 == NewSpan(g, b, extra)
           k2 == [k1 EXCEPT !.lists = L2]
           k3 == [k2 EXCEPT !.spans = S2]
           k4 == [k3 EXCEPT !.map = M2]
           k5 == [k4 EXCEPT !.spans = S3]
           k == [k5 EXCEPT !.lists = L]
<1>1. Shape(h) /\ Mapped(h) /\ Filed(h, Null)
  BY DEF Sound, Loose
<1>2. /\ h \in Heaps /\ s \in SpanId /\ s # x /\ sp \in Span /\ sp.start \in Nat /\ sp.count \in Nat /\ sp.live
      /\ ~sp.in_use /\ ~sp.cached /\ Start(h, s) = sp.start /\ End(h, s) = sp.start + sp.count
      /\ h.spans \in [SpanId -> Span] /\ h.map \in [Page -> SpanId \cup {Null}]
  <2>1. h \in Heaps /\ s \in SpanId
    BY <1>1, Bounds
  <2>2. sp \in Span /\ h.spans \in [SpanId -> Span] /\ h.map \in [Page -> SpanId \cup {Null}]
    BY <2>1, SpanTypes
  <2> QED  BY <1>1, <2>1, <2>2 DEF Span, LiveIn, Mapped, Start, End
<1>3. b \in Nat /\ extra \in Nat /\ extra > 0 /\ q = b - 1 /\ q \in Nat
  BY <1>2
<1>4. i \in ListId
  BY <1>3, Constants DEF ListOf, ListId
<1>5. Is(g, h.spans, h.map, L, h.brk, h.real, h.used, h.failed)
  BY UnlinkKeeps
<1> HIDE DEF L
<1>6. /\ g \in Heaps /\ g.spans = h.spans /\ g.map = h.map /\ g.lists = L /\ g.brk = h.brk
      /\ g.real = h.real /\ g.used = h.used /\ g.failed = h.failed /\ x = Spare(g)
  BY <1>5 DEF Is
<1> HIDE DEF g, sp, b, extra, q, i
<1>7. Is(k1, S1, M1, L, h.brk, h.real, h.used, h.failed)
  BY <1>3, <1>6, NewSpanIs
<1>8. L \in [ListId -> Seq(SpanId)] /\ S1 \in [SpanId -> Span] /\ M1 \in [Page -> SpanId \cup {Null}]
  BY <1>7 DEF Is, Heaps
<1> HIDE DEF k1
<1>9. L2 \in [ListId -> Seq(SpanId)] /\ L2[i] = <<x>> \o L[i]
  BY <1>4, <1>8
<1>10. New(b, extra).start = b /\ New(b, extra).count = extra
  BY DEF New
<1>11. S1[x] = New(b, extra) /\ \A u \in SpanId \ {x} : S1[u] = h.spans[u]
  BY <1>2
<1>12. \A p \in Page : M1[p] = IF p = b \/ p = b + extra - 1 THEN x ELSE h.map[p]
  <2> DEFINE new == New(b, extra)
  <2>1. new.start = b /\ new.count = extra /\ M1 = SetEnds(h.map, new, x)
    BY <1>10
  <2> HIDE DEF new, M1
  <2>2. \A p \in Page : SetEnds(h.map, new, x)[p] =
          IF p = new.start \/ p = new.start + new.count - 1 THEN x ELSE h.map[p]
    <3>1. h.map \in [Page -> SpanId \cup {Null}] /\ new.start \in Nat /\ new.count \in Nat
      BY <1>2, <1>3, <2>1
    <3> QED  BY <3>1, EndsSet
  <2> QED  BY <2>1, <2>2
<1> HIDE DEF S1, M1
<1>13. k1.lists = L /\ k1.spans = S1 /\ k1.map = M1
  BY <1>7 DEF Is
<1>14. link(k1, x) = k2
  <2>1. ListOf(k1.spans[x].count) = i
    BY <1>10, <1>11, <1>13 DEF i
  <2> QED  BY <1>13, <2>1 DEF link
<1>15. Is(k2, S1, M1, L2, h.brk, h.real, h.used, h.failed)
  <2> HIDE DEF L2
  <2> QED  BY <1>7, <1>9, SetLists
<1> HIDE DEF k2
<1>16. k2.spans = S1 /\ k2.map = M1 /\ k2.lists = L2
  BY <1>15 DEF Is
<1>17. /\ S2 \in [SpanId -> Span] /\ S2[x] = New(b, extra) /\ \A u \in SpanId \ {s, x} : S2[u] = h.spans[u]
       /\ S2[s].start = sp.start /\ S2[s].count = n /\ S2[s].in_use = FALSE /\ S2[s].cached = FALSE
       /\ S2[s].live = TRUE
  <2> DEFINE sq == [sp EXCEPT !.count = n]
  <2>1. /\ sq \in Span /\ sq.start = sp.start /\ sq.count = n /\ sq.in_use = sp.in_use /\ sq.cached = sp.cached
        /\ sq.live = sp.live
    BY <1>2 DEF Span
  <2>2. S1[s] = sp
    BY <1>2, <1>11 DEF sp
  <2>3. S2 = [S1 EXCEPT ![s] = sq]
    BY <2>2
  <2>4. sp.in_use = FALSE /\ sp.cached = FALSE /\ sp.live = TRUE
    BY <1>2 DEF Span
  <2> HIDE DEF sq, S2
  <2>5. S2 \in [SpanId -> Span]
    BY <1>8, <2>1, <2>3
  <2>6. S2[s] = sq /\ \A u \in SpanId \ {s} : S2[u] = S1[u]
    BY <1>2, <1>8, <2>3
  <2> QED  BY <1>2, <1>11, <2>1, <2>4, <2>5, <2>6
<1>18. Is(k3, S2, M1, L2, h.brk, h.real, h.used, h.failed)
  <2> HIDE DEF S2, L2
  <2> QED  BY <1>15, <1>17, SetSpans
<1>19. /\ M2 \in [Page -> SpanId \cup {Null}]
       /\ \A p \in Page : M2[p] = IF p = b - 1 THEN s ELSE IF p = b \/ p = b + extra - 1 THEN x ELSE h.map[p]
  BY <1>2, <1>3, <1>8, <1>12
<1>20. [k2 EXCEPT !.spans[s].count = n, !.map[q] = s] = k4
  <2>1. [k2 EXCEPT !.spans[s].count = n] = k3
    BY <1>16
  <2>2. k3.map = M1
    BY <1>18 DEF Is
  <2> HIDE DEF k3
  <2> QED  BY <2>1, <2>2
<1> HIDE DEF k3
<1>21. Is(k4, S2, M2, L2, h.brk, h.real, h.used, h.failed)
  <2> HIDE DEF S2, L2, M2
  <2> QED  BY <1>18, <1>19, SetMap
<1> HIDE DEF k4, M2
<1>22. Taken(k4, s) = k5
  <2>1. k4.spans = S2
    BY <1>21 DEF Is
  <2> HIDE DEF S2
  <2> QED  BY <2>1 DEF Taken
<1>23. /\ S3 \in [SpanId -> Span] /\ S3[x] = New(b, extra) /\ \A u \in SpanId \ {s, x} : S3[u] = h.spans[u]
       /\ S3[s] = [start |-> sp.start, count |-> n, in_use |-> TRUE, cached |-> FALSE, live |-> TRUE]
  <2> HIDE DEF S2
  <2> DEFINE sq == [S2[s] EXCEPT !.in_use = TRUE]
  <2>1. sq \in Span /\ sq = [start |-> sp.start, count |-> n, in_use |-> TRUE, cached |-> FALSE, live |-> TRUE]
    <3>1. S2[s] \in Span
      BY <1>2, <1>17
    <3>2. sq \in Span /\ sq = [start |-> S2[s].start, count |-> S2[s].count, in_use |-> TRUE,
                              cached |-> S2[s].cached, live |-> S2[s].live]
      BY <3>1, SpanUsed
    <3> QED  BY <1>17, <3>2
  <2>2. S3 = [S2 EXCEPT ![s] = sq]
    OBVIOUS
  <2> HIDE DEF sq, S3
  <2>3. S3 \in [SpanId -> Span] /\ S3[s] = sq /\ \A u \in SpanId \ {s} : S3[u] = S2[u]
    BY <1>2, <1>17, <2>1, <2>2
  <2> QED  BY <1>2, <1>17, <2>1, <2>3
<1>24. Is(k5, S3, M2, L2, h.brk, h.real, h.used, h.failed)
  <2> HIDE DEF S3, S2, L2
  <2> QED  BY <1>21, <1>23, SetSpans
<1> HIDE DEF k5, S3
<1>25. Is(k, S3, M2, L, h.brk, h.real, h.used, h.failed)
  <2> HIDE DEF S2, L2
  <2> QED  BY <1>8, <1>24, SetLists
<1>26. Split(h, s, n) = k5
  BY <1>6, <1>14, <1>20, <1>22 DEF Split, g, k1, sp, b, extra, q
<1> HIDE DEF k
<1>27. k.lists = L /\ k.spans = S3
  BY <1>25 DEF Is
<1>28. link(k, x) = [k EXCEPT !.lists = L2]
  <2>1. ListOf(k.spans[x].count) = i
    BY <1>10, <1>23, <1>27 DEF i
  <2> QED  BY <1>27, <2>1 DEF link
<1>29. Is(link(k, x), S3, M2, L2, h.brk, h.real, h.used, h.failed)
  <2> HIDE DEF L2
  <2> QED  BY <1>9, <1>25, <1>28, SetLists
<1>30. link(k, x) = k5
  <2> HIDE DEF L2, S2
  <2> QED  BY <1>24, <1>29, Same
<1>31. Cut(h, k, s, n, x)
  <2>1. /\ k \in Heaps /\ k.spans = S3 /\ k.map = M2 /\ k.lists = L /\ k.brk = h.brk /\ k.real = h.real
    BY <1>25 DEF Is
  <2>2. Start(h, s) + n = b /\ h.spans[s].count - n = extra /\ (b + extra) - 1 = End(h, s) - 1 /\ b + extra - 1 = End(h, s) - 1
    BY <1>2, <1>3 DEF b, extra, sp
  <2>3. \A c \in ListId : L[c] = Unlinked(h.lists[c], s)
    BY DEF L
  <2> QED  BY <1>2, <1>19, <1>23, <2>1, <2>2, <2>3 DEF Cut
<1> QED  BY <1>25, <1>26, <1>30, <1>31 DEF Is

\* h and k are heaps between which s, a free span, was handed out.
HandsOut(h, k, s) ==
  /\ k.brk = h.brk /\ k.real = h.real /\ Held(k) = Held(h) \cup {s} /\ s \notin Held(h)
  /\ \A u \in Held(h) : k.spans[u] = h.spans[u]

\* What carve() made of h.
Carved(h, k, s, n) ==
  /\ Sound(k) /\ k.failed = FALSE /\ k.used = h.used /\ HandsOut(h, k, s)
  /\ s \in LiveIn(k) /\ k.spans[s].in_use
  /\ Start(k, s) = Start(h, s) /\ End(k, s) = Start(h, s) + n
  /\ InUse(k) = InUse(h) \cup PagesIn(k, s)

\* carve() keeps the invariant, hands out the first n pages of the span and
\* no assertion in it fails.
LEMMA CarveSound ==
  ASSUME SpanPool >= MmapPages, NEW h, Good(h), NEW s \in LiveIn(h), ~h.spans[s].in_use,
         NEW n \in Nat, 0 < n, n <= h.spans[s].count, NEW k, k = carve(h, s, n)
  PROVE  Carved(h, k, s, n)
<1> DEFINE g == span_list_remove(h, s)
           extra == h.spans[s].count - n
           next == h.map[End(h, s)]
<1>1. Sound(h) /\ h.failed = FALSE
  BY DEF Good
<1>2. Shape(h) /\ Apart(h) /\ Covered(h) /\ Mapped(h) /\ Filed(h, Null) /\ Merged(h, Null)
  BY <1>1 DEF Sound, Loose
<1>3. /\ h \in Heaps /\ s \in SpanId /\ s # Null /\ Start(h, s) \in Nat /\ End(h, s) \in Nat
      /\ h.spans[s].count = End(h, s) - Start(h, s) /\ h.spans[s].count \in Nat /\ s \notin Held(h)
      /\ End(h, s) <= MmapPages /\ End(h, s) \in Page
  BY <1>2, Bounds, Constants DEF Held
<1>4. Check(h, ~h.spans[s].in_use /\ h.spans[s].count >= n) = h
  BY <1>1, <1>3, CheckTrue
<1>5. next = Null \/ h.spans[next].in_use
  <2>1. NextFree(h, s) = Null
    BY <1>2, <1>3, FreeNext, Bounds DEF Merged
  <2> QED  BY <1>3, <2>1 DEF NextFree, FreeAt
<1>6. /\ Loose(g, s) /\ InUse(g) = InUse(h) /\ LiveIn(g) = LiveIn(h)
      /\ Is(g, h.spans, h.map, [c \in ListId |-> Unlinked(h.lists[c], s)], h.brk, h.real, h.used, h.failed)
  BY <1>1, UnlinkKeeps
<1>7. /\ g \in Heaps /\ g.spans = h.spans /\ g.brk = h.brk /\ g.real = h.real /\ g.used = h.used
      /\ g.failed = FALSE /\ Start(g, s) = Start(h, s) /\ End(g, s) = End(h, s) /\ Held(g) = Held(h)
  BY <1>1, <1>6 DEF Is, Start, End, Held
<1>8. CASE extra = 0
  <2>1. k = Taken(g, s)
    BY <1>4, <1>8, Zenon DEF carve, Taken
  <2> HIDE DEF g, extra
  <2>2. /\ Sound(k) /\ LiveIn(k) = LiveIn(g) /\ k.spans[s].in_use
        /\ \A u \in LiveIn(k) \ {s} : k.spans[u] = g.spans[u]
        /\ Start(k, s) = Start(g, s) /\ End(k, s) = End(g, s)
        /\ k.brk = g.brk /\ k.real = g.real /\ k.used = g.used /\ k.failed = g.failed
        /\ InUse(k) = InUse(g) \cup PagesIn(g, s)
    BY <1>6, <1>7, <2>1, UseKeeps
  <2>3. PagesIn(g, s) = PagesIn(k, s)
    BY <2>2 DEF PagesIn
  <2>4. Held(k) = Held(h) \cup {s} /\ \A u \in Held(h) : k.spans[u] = h.spans[u]
    BY <1>3, <1>6, <1>7, <2>2 DEF Held
  <2>5. End(h, s) = Start(h, s) + n
    BY <1>3, <1>8 DEF extra
  <2> QED  BY <1>3, <1>6, <1>7, <2>2, <2>3, <2>4, <2>5, SMTT(30) DEF HandsOut, Carved
<1>9. CASE extra # 0
  <2> DEFINE x == Spare(g)
             p == Start(h, s) + n
  <2>1. n < h.spans[s].count /\ p \in 0 .. MmapPages - 1 /\ p < End(h, s) /\ Start(h, s) < p
    BY <1>3, <1>9, Constants
  <2>2. Shape(g) /\ Apart(g)
    BY <1>6 DEF Loose
  <2> HIDE DEF g, p
  <2>3. \A u \in LiveIn(g) : Start(g, u) # p
    <3> TAKE u \in LiveIn(g)
    <3>1. CASE u = s
      BY <1>3, <1>7, <2>1, <3>1
    <3>2. CASE u # s
      <4>1. End(g, s) <= Start(g, u) \/ End(g, u) <= Start(g, s)
        BY <1>6, <2>2, <3>2 DEF Apart
      <4>2. Start(g, u) \in Nat /\ End(g, u) \in Nat /\ Start(g, u) < End(g, u)
        BY <2>2, Bounds
      <4> QED  BY <1>3, <1>7, <2>1, <4>1, <4>2
    <3> QED  BY <3>1, <3>2
  <2>4. HasSpare(g) /\ x \in SpanId /\ x \notin LiveIn(h)
    BY <1>6, <2>1, <2>2, <2>3, SpareExists
  <2>5. PICK c : /\ Cut(h, c, s, n, x) /\ Split(h, s, n) = link(c, x)
                 /\ c.used = h.used /\ c.failed = h.failed
    BY <1>1, <2>1, <2>4, SplitIs DEF g
  <2>6. /\ Loose(c, x) /\ LiveIn(c) = LiveIn(h) \cup {x}
        /\ \A u \in LiveIn(c) : End(c, u) = Start(c, x) \/ Start(c, u) = End(c, x) => c.spans[u].in_use
        /\ Held(c) = Held(h) \cup {s} /\ \A u \in Held(h) : c.spans[u] = h.spans[u]
        /\ Start(c, s) = Start(h, s) /\ End(c, s) = Start(h, s) + n
        /\ InUse(c) = InUse(h) \cup PagesIn(c, s)
    BY <1>1, <2>1, <2>4, <2>5, CutKeeps
  <2>7. ~c.spans[x].in_use /\ x \in LiveIn(c) /\ c.brk = h.brk /\ c.real = h.real
    BY <2>5, <2>6 DEF Cut, New
  <2>8. k = link(c, x)
    <3> DEFINE l == link(NewSpan(g, h.spans[s].start + n, extra), x)
    <3>1. Check(l, next = Null \/ h.spans[next].in_use) = l
      <4> DEFINE ok == next = Null \/ h.spans[next].in_use
      <4>1. ok = TRUE
        <5>1. ok
          BY <1>5
        <5>2. ok \in BOOLEAN
          <6>1. next \in SpanId => h.spans[next].in_use \in BOOLEAN
            BY <1>3, SpanTypes DEF Span
          <6>2. next \in SpanId \cup {Null}
            BY <1>3, SpanTypes
          <6> HIDE DEF next
          <6>3. CASE next = Null
            BY <6>3, Zenon
          <6>4. CASE next \in SpanId
            BY <6>1, <6>4, Zenon
          <6> QED  BY <6>2, <6>3, <6>4
        <5> HIDE DEF ok
        <5> QED  BY <5>1, <5>2
      <4>2. l \in Heaps /\ l.failed = FALSE
        <5> DEFINE b == h.spans[s].start + n
                   N == NewSpan(g, b, extra)
                   i == ListOf(N.spans[x].count)
                   T == [N.lists EXCEPT ![i] = <<x>> \o N.lists[i]]
        <5>1. b \in Nat /\ extra \in Nat /\ x = Spare(g) /\ x \in SpanId
          BY <1>3, <2>1, <2>4 DEF Start
        <5> HIDE DEF b, extra, x
        <5>2. Is(N, [g.spans EXCEPT ![x] = New(b, extra)], SetEnds(g.map, New(b, extra), x), g.lists,
                 g.brk, g.real, g.used, g.failed)
          BY <1>7, <5>1, NewSpanIs
        <5>3. N \in Heaps /\ N.failed = FALSE
          BY <1>7, <5>2 DEF Is
        <5> HIDE DEF N, i
        <5>4. l = [N EXCEPT !.lists = T]
          BY DEF link, N, b, i
        <5>5. T \in [ListId -> Seq(SpanId)]
          <6>1. N.lists \in [ListId -> Seq(SpanId)]
            BY <5>3, SpanTypes
          <6>2. i \in ListId => <<x>> \o N.lists[i] \in Seq(SpanId)
            BY <5>1, <6>1
          <6> QED  BY <6>1, <6>2
        <5> HIDE DEF T, l
        <5>6. Is(l, N.spans, N.map, T, N.brk, N.real, N.used, N.failed)
          BY <5>3, <5>4, <5>5, IsItself, SetLists
        <5> QED  BY <5>3, <5>6 DEF Is
      <4> HIDE DEF ok, l
      <4>3. Check(l, ok) = l
        BY <4>1, <4>2, CheckTrue, Zenon
      <4> QED  BY <4>3 DEF ok
    <3>2. k = Taken([Check(l, next = Null \/ h.spans[next].in_use)
                       EXCEPT !.spans[s].count = n, !.map[h.spans[s].start + n - 1] = s], s)
      BY <1>4, <1>9, <2>4, ZenonT(30) DEF carve, Taken, g, End
    <3> HIDE DEF next
    <3>3. k = Taken([l EXCEPT !.spans[s].count = n, !.map[h.spans[s].start + n - 1] = s], s)
      BY <3>1, <3>2, ZenonT(30)
    <3>4. k = Split(h, s, n)
      BY <3>3 DEF Split, g
    <3> QED  BY <2>5, <3>4
  <2> HIDE DEF x
  <2>9. Sound(k) /\ k.spans = c.spans /\ k.brk = c.brk /\ k.real = c.real /\ k.used = c.used
        /\ k.failed = c.failed
    BY <2>6, <2>7, <2>8, LinkKeeps
  <2>10. /\ LiveIn(k) = LiveIn(c) /\ Held(k) = Held(c) /\ InUse(k) = InUse(c) /\ PagesIn(k, s) = PagesIn(c, s)
         /\ Start(k, s) = Start(c, s) /\ End(k, s) = End(c, s)
    BY <2>9 DEF LiveIn, Held, InUse, PagesIn, Start, End
  <2>11. s \in LiveIn(k) /\ k.spans[s].in_use
    BY <2>6, <2>10 DEF Held
  <2> QED  BY <1>1, <1>3, <2>5, <2>6, <2>7, <2>9, <2>10, <2>11 DEF HandsOut, Carved
<1> QED  BY <1>8, <1>9

\* used_size follows the pages in use.
Charged(h, n) == [h EXCEPT !.used = @ + n]

LEMMA UsedFollows ==
  ASSUME NEW h, Sound(h), h.failed = FALSE, NEW n \in Nat, h.used + n = Cardinality(InUse(h)),
         NEW k, k = Charged(h, n)
  PROVE  /\ Good(k) /\ k.spans = h.spans /\ k.brk = h.brk /\ k.real = h.real
         /\ LiveIn(k) = LiveIn(h) /\ Held(k) = Held(h)
         /\ \A u : Start(k, u) = Start(h, u) /\ End(k, u) = End(h, u)
<1>1. Shape(h) /\ Apart(h) /\ Covered(h) /\ Mapped(h) /\ Filed(h, Null) /\ Merged(h, Null)
  BY DEF Sound, Loose
<1>2. h \in Heaps /\ h.used \in Int
  BY <1>1, Bounds, SpanTypes
<1>3. Is(k, h.spans, h.map, h.lists, h.brk, h.real, h.used + n, h.failed)
  <2>1. k = [h EXCEPT !.used = h.used + n] /\ h.used + n \in Int
    BY <1>2 DEF Charged
  <2> QED  BY <1>2, <2>1, IsItself, SetUsed
<1>4. /\ k \in Heaps /\ k.spans = h.spans /\ k.map = h.map /\ k.lists = h.lists /\ k.brk = h.brk
      /\ k.real = h.real /\ k.used = h.used + n /\ k.failed = FALSE
  BY <1>3 DEF Is
<1>5. /\ LiveIn(k) = LiveIn(h) /\ Held(k) = Held(h) /\ InUse(k) = InUse(h)
      /\ \A u : Start(k, u) = Start(h, u) /\ End(k, u) = End(h, u)
  BY <1>4 DEF LiveIn, Held, InUse, Start, End
<1>6. Shape(k) /\ Apart(k) /\ Covered(k) /\ Mapped(k) /\ Filed(k, Null) /\ Merged(k, Null)
  <2> HIDE DEF Held
  <2>1. Shape(k) /\ Apart(k) /\ Covered(k)
    BY <1>1, <1>4, <1>5 DEF Shape, Apart, Covered
  <2>2. Mapped(k) /\ Filed(k, Null) /\ Merged(k, Null)
    BY <1>1, <1>4, <1>5 DEF Mapped, Filed, Merged
  <2> QED  BY <2>1, <2>2
<1> QED  BY <1>4, <1>5, <1>6 DEF Good, Sound, Loose

\* Taking pages nobody uses adds as many to the pages in use.
LEMMA UsedGrows ==
  ASSUME NEW h, Shape(h), Apart(h), NEW s \in LiveIn(h), ~h.spans[s].in_use,
         NEW k, Shape(k), s \in LiveIn(k), InUse(k) = InUse(h) \cup PagesIn(k, s),
         Start(k, s) = Start(h, s), End(k, s) <= End(h, s)
  PROVE  /\ Cardinality(InUse(k)) = Cardinality(InUse(h)) + (End(k, s) - Start(k, s))
         /\ Cardinality(InUse(h)) \in Nat
<1>1. /\ IsFiniteSet(InUse(h)) /\ Cardinality(InUse(h)) \in Nat
      /\ IsFiniteSet(PagesIn(k, s)) /\ Cardinality(PagesIn(k, s)) = k.spans[s].count
  BY Counted
<1>2. k.spans[s].count = End(k, s) - Start(k, s) /\ Start(k, s) < End(k, s) /\ Start(k, s) \in Nat /\ End(k, s) \in Nat
  BY Bounds
<1>3. InUse(h) \cap PagesIn(k, s) = {}
  <2> SUFFICES ASSUME NEW p \in InUse(h), p \in PagesIn(k, s) PROVE FALSE
    OBVIOUS
  <2>1. PICK u \in LiveIn(h) : h.spans[u].in_use /\ Start(h, u) <= p /\ p < End(h, u) /\ p \in Page
    BY DEF InUse
  <2>2. Start(k, s) <= p /\ p < End(k, s)
    BY DEF PagesIn
  <2>3. u # s /\ p \in Nat
    BY <2>1, Constants
  <2>4. End(h, u) <= Start(h, s) \/ End(h, s) <= Start(h, u)
    BY <2>3 DEF Apart
  <2>5. Start(h, u) \in Nat /\ End(h, u) \in Nat /\ Start(h, s) \in Nat /\ End(h, s) \in Nat
    BY Bounds
  <2> QED  BY <1>2, <2>1, <2>2, <2>3, <2>4, <2>5
<1>4. Cardinality(InUse(h) \cup PagesIn(k, s)) = Cardinality(InUse(h)) + Cardinality(PagesIn(k, s)) - Cardinality({})
  BY <1>1, <1>3, FS_Union
<1>5. Cardinality({}) = 0
  BY FS_EmptySet
<1> QED  BY <1>1, <1>2, <1>4, <1>5

LEMMA CarveKeeps ==
  ASSUME SpanPool >= MmapPages, NEW h, Good(h), NEW s \in LiveIn(h), ~h.spans[s].in_use,
         NEW n \in Nat, 0 < n, n <= h.spans[s].count,
         NEW k, k = Charged(carve(h, s, n), n)
  PROVE  /\ Good(k) /\ HandsOut(h, k, s)
         /\ Start(k, s) = Start(h, s) /\ End(k, s) = Start(h, s) + n
<1> DEFINE c == carve(h, s, n)
<1>2. c = carve(h, s, n) /\ k = Charged(c, n)
  OBVIOUS
<1> HIDE DEF c
<1>0. Carved(h, c, s, n)
  BY <1>2, CarveSound
<1>1. /\ Sound(c) /\ c.failed = FALSE /\ c.used = h.used /\ HandsOut(h, c, s)
      /\ s \in LiveIn(c) /\ c.spans[s].in_use
      /\ Start(c, s) = Start(h, s) /\ End(c, s) = Start(h, s) + n
      /\ InUse(c) = InUse(h) \cup PagesIn(c, s)
  BY <1>0 DEF Carved
<1>3. Shape(h) /\ Apart(h) /\ Shape(c) /\ h.used = Cardinality(InUse(h))
  BY <1>1 DEF Good, Sound, Loose
<1>4. Start(h, s) \in Nat /\ End(h, s) \in Nat /\ h.spans[s].count = End(h, s) - Start(h, s)
  BY <1>3, Bounds
<1>5. End(c, s) <= End(h, s) /\ End(c, s) - Start(c, s) = n
  BY <1>1, <1>4
<1>6. Cardinality(InUse(c)) = Cardinality(InUse(h)) + (End(c, s) - Start(c, s))
  BY <1>1, <1>3, <1>5, UsedGrows
<1>7. c.used + n = Cardinality(InUse(c))
  BY <1>1, <1>3, <1>5, <1>6
<1>8. /\ Good(k) /\ k.spans = c.spans /\ k.brk = c.brk /\ k.real = c.real
      /\ LiveIn(k) = LiveIn(c) /\ Held(k) = Held(c)
      /\ \A u : Start(k, u) = Start(c, u) /\ End(k, u) = End(c, u)
  <2>1. Sound(c) /\ c.failed = FALSE /\ k = Charged(c, n)
    BY <1>1, <1>2
  <2> QED  BY <1>7, <2>1, UsedFollows
<1> QED  BY <1>1, <1>8 DEF HandsOut
-----------------------------------------------------------------------------
(* Growing *)

LEMMA MaxOfTwo ==
  ASSUME NEW a \in Nat, NEW b \in Nat
  PROVE  Max({a, b}) \in Nat /\ Max({a, b}) >= a /\ Max({a, b}) >= b
<1>1. \E x \in {a, b} : \A y \in {a, b} : x >= y
  <2>1. CASE a >= b
    BY <2>1
  <2>2. CASE b >= a
    BY <2>2
  <2> QED  BY <2>1, <2>2
<1>2. Max({a, b}) \in {a, b} /\ \A y \in {a, b} : Max({a, b}) >= y
  BY <1>1 DEF Max
<1> QED  BY <1>2

LEMMA RoundedUp ==
  ASSUME NEW a \in Nat, NEW d \in Nat \ {0}
  PROVE  ((a + d - 1) \div d) * d >= a /\ ((a + d - 1) \div d) * d \in Nat
<1> DEFINE x == a + d - 1
           q == x \div d
<1>1. x \in Nat
  OBVIOUS
<1>2. q \in Nat /\ d * q <= x /\ x < d * q + d
  BY <1>1
<1> HIDE DEF q
<1> QED  BY <1>2 DEF q

\* What sbrk() does when it does something: n more pages are in use.
Grown(h, g, n) ==
  /\ Is(g, h.spans, h.map, h.lists, h.brk + n, g.real, h.used, h.failed)
  /\ g.real \in Nat /\ h.brk + n <= g.real /\ g.real <= MmapPages

LEMMA SbrkIs ==
  ASSUME NEW h, Shape(h), NEW n \in Nat \ {0}
  PROVE  sbrk(h, n) = h \/ Grown(h, sbrk(h, n), n)
<1> DEFINE steps == (n - (h.real - h.brk) + USERDATA_GROW - 1) \div USERDATA_GROW
           real == IF h.real = 0 THEN Max({USERDATA_GROW, n})
                   ELSE IF h.real - h.brk >= n THEN h.real
                   ELSE h.real + steps * USERDATA_GROW
<1>1. h \in Heaps /\ h.brk \in Nat /\ h.real \in Nat /\ h.brk <= h.real /\ h.real <= MmapPages
  BY SpanTypes DEF Shape
<1>2. real \in Nat /\ h.brk + n <= real
  <2>1. CASE h.real = 0
    BY <1>1, <2>1, MaxOfTwo, Constants
  <2>2. CASE h.real # 0 /\ h.real - h.brk >= n
    BY <1>1, <2>2
  <2>3. CASE h.real # 0 /\ ~(h.real - h.brk >= n)
    <3> DEFINE a == n - (h.real - h.brk)
    <3>1. a \in Nat /\ h.real + a = h.brk + n
      BY <1>1, <2>3
    <3> HIDE DEF a
    <3>2. ((a + USERDATA_GROW - 1) \div USERDATA_GROW) * USERDATA_GROW >= a
          /\ ((a + USERDATA_GROW - 1) \div USERDATA_GROW) * USERDATA_GROW \in Nat
      BY <3>1, RoundedUp, Constants
    <3>3. steps = (a + USERDATA_GROW - 1) \div USERDATA_GROW
      BY DEF a
    <3>4. real = h.real + steps * USERDATA_GROW
      BY <2>3
    <3> HIDE DEF steps, real
    <3> DEFINE m == steps * USERDATA_GROW
    <3>5. m \in Nat /\ m >= a /\ real = h.real + m
      BY <3>2, <3>3, <3>4
    <3> HIDE DEF m
    <3> QED  BY <1>1, <3>1, <3>5
  <2> QED  BY <2>1, <2>2, <2>3
<1>3. sbrk(h, n) = IF real <= MmapPages THEN [h EXCEPT !.real = real, !.brk = @ + n] ELSE h
  BY DEF sbrk
<1> HIDE DEF real, steps
<1>4. CASE real <= MmapPages
  <2> DEFINE k1 == [h EXCEPT !.real = real]
             k2 == [k1 EXCEPT !.brk = h.brk + n]
  <2>1. Is(k1, h.spans, h.map, h.lists, h.brk, real, h.used, h.failed)
    BY <1>1, <1>2, IsItself, SetReal
  <2>2. k1.brk = h.brk
    BY <2>1 DEF Is
  <2>3. sbrk(h, n) = k2
    BY <1>3, <1>4, <2>2
  <2> HIDE DEF k1
  <2>4. h.brk + n \in Nat
    BY <1>1
  <2>5. Is(k2, h.spans, h.map, h.lists, h.brk + n, real, h.used, h.failed)
    BY <2>1, <2>4, SetBrk
  <2>6. k2.real = real
    BY <2>5 DEF Is
  <2> HIDE DEF k2
  <2> QED  BY <1>2, <1>4, <2>3, <2>5, <2>6 DEF Grown
<1>5. CASE ~(real <= MmapPages)
  BY <1>3, <1>5
<1> QED  BY <1>4, <1>5

\* The new pages as a span in no list, x.
Added(h, k, n, x) ==
  /\ k \in Heaps /\ k.brk = h.brk + n /\ k.brk <= k.real /\ k.real <= MmapPages
  /\ k.spans[x] = New(h.brk, n) /\ \A u \in SpanId \ {x} : k.spans[u] = h.spans[u]
  /\ \A p \in Page : k.map[p] = IF p = h.brk \/ p = (h.brk + n) - 1 THEN x ELSE h.map[p]
  /\ k.lists = h.lists /\ k.used = h.used /\ k.failed = h.failed

LEMMA AddedKeeps ==
  ASSUME NEW h, Sound(h), NEW n \in Nat \ {0}, NEW x \in SpanId, x \notin LiveIn(h),
         NEW k, Added(h, k, n, x)
  PROVE  /\ Loose(k, x) /\ LiveIn(k) = LiveIn(h) \cup {x} /\ ~k.spans[x].in_use
         /\ \A u \in LiveIn(h) : k.spans[u] = h.spans[u]
         /\ Start(k, x) = h.brk /\ End(k, x) = h.brk + n
         /\ InUse(k) = InUse(h)
<1> DEFINE b == h.brk
           e == h.brk + n
<1>1. Shape(h) /\ Apart(h) /\ Covered(h) /\ Mapped(h) /\ Filed(h, Null) /\ Merged(h, Null)
  BY DEF Sound, Loose
<1>2. /\ h \in Heaps /\ x # Null /\ b \in Nat /\ e \in Nat /\ b < e
      /\ k \in Heaps /\ k.brk = e /\ k.real \in Nat /\ e <= k.real /\ k.real <= MmapPages /\ e <= MmapPages
  <2>1. h \in Heaps /\ b \in Nat /\ k \in Heaps /\ k.real \in Nat
    BY <1>1, Bounds, SpanTypes DEF Added
  <2> QED  BY <2>1, Constants DEF Added
<1>3. /\ k.lists = h.lists /\ \A u \in SpanId \ {x} : k.spans[u] = h.spans[u]
      /\ \A p \in Page : k.map[p] = IF p = b \/ p = e - 1 THEN x ELSE h.map[p]
  BY DEF Added
<1>4. /\ Start(k, x) = b /\ k.spans[x].count = n /\ End(k, x) = e
      /\ k.spans[x].live /\ ~k.spans[x].in_use /\ ~k.spans[x].cached
  BY DEF Added, New, Start, End
<1> HIDE DEF b, e
<1>5. LiveIn(k) = LiveIn(h) \cup {x}
  <2>1. ASSUME NEW u \in SpanId PROVE u \in LiveIn(k) <=> u \in LiveIn(h) \/ u = x
    BY <1>3, <1>4 DEF LiveIn
  <2>2. LiveIn(k) \subseteq SpanId /\ LiveIn(h) \subseteq SpanId
    BY DEF LiveIn
  <2> QED  BY <2>1, <2>2
<1>6. \A u \in LiveIn(h) :
        /\ u \in SpanId /\ u # x /\ u # Null /\ k.spans[u] = h.spans[u]
        /\ Start(k, u) = Start(h, u) /\ End(k, u) = End(h, u)
        /\ Start(h, u) \in Nat /\ End(h, u) \in Nat /\ Start(h, u) < End(h, u) /\ End(h, u) <= b
  <2> TAKE u \in LiveIn(h)
  <2>1. u \in SpanId /\ u # x /\ k.spans[u] = h.spans[u]
    BY <1>3 DEF LiveIn
  <2>2. Start(k, u) = Start(h, u) /\ End(k, u) = End(h, u)
    BY <2>1 DEF Start, End
  <2> QED  BY <1>1, <2>1, <2>2, Bounds DEF b
<1>7. Shape(k)
  <2>1. ASSUME NEW u \in LiveIn(k) PROVE k.spans[u].count > 0 /\ End(k, u) <= k.brk
    <3>1. CASE u = x
      BY <1>2, <1>4, <3>1
    <3>2. CASE u # x
      BY <1>1, <1>2, <1>5, <1>6, <3>2 DEF Shape
    <3> QED  BY <3>1, <3>2
  <2> QED  BY <1>2, <2>1 DEF Shape
<1>8. Apart(k)
  <2> SUFFICES ASSUME NEW u \in LiveIn(k), NEW v \in LiveIn(k), u # v
               PROVE  End(k, u) <= Start(k, v) \/ End(k, v) <= Start(k, u)
    BY DEF Apart
  <2>1. CASE u = x \/ v = x
    BY <1>4, <1>5, <1>6, <2>1
  <2>2. CASE u # x /\ v # x
    <3>1. u \in LiveIn(h) /\ v \in LiveIn(h)
      BY <1>5, <2>2
    <3>2. End(h, u) <= Start(h, v) \/ End(h, v) <= Start(h, u)
      BY <1>1, <3>1 DEF Apart
    <3> QED  BY <1>6, <3>1, <3>2
  <2> QED  BY <2>1, <2>2
<1>9. Covered(k)
  <2> SUFFICES ASSUME NEW p \in 0 .. e - 1
               PROVE  \E u \in LiveIn(k) : Start(k, u) <= p /\ p < End(k, u)
    BY <1>2 DEF Covered
  <2>1. CASE p < b
    <3>1. p \in 0 .. h.brk - 1
      BY <1>2, <2>1 DEF b
    <3>2. PICK u \in LiveIn(h) : Start(h, u) <= p /\ p < End(h, u)
      BY <1>1, <3>1 DEF Covered
    <3> QED  BY <1>5, <1>6, <3>2
  <2>2. CASE p >= b
    BY <1>2, <1>4, <1>5, <2>2
  <2> QED  BY <1>2, <2>1, <2>2
<1>10. b \in Page /\ e - 1 \in Page
  BY <1>2, Constants DEF Page
<1>11. ASSUME NEW u \in LiveIn(h), NEW p \in Page, Start(h, u) <= p, p < End(h, u)
       PROVE  k.map[p] = h.map[p]
  <2>1. p \in Nat /\ p # b /\ p # e - 1
    BY <1>2, <1>6, <1>11, Constants
  <2> QED  BY <1>3, <2>1
<1>12. Mapped(k)
  <2>1. ASSUME NEW u \in LiveIn(k) PROVE k.map[Start(k, u)] = u /\ k.map[End(k, u) - 1] = u
    <3>1. CASE u = x
      BY <1>3, <1>4, <1>10, <3>1
    <3>2. CASE u # x
      <4>1. u \in LiveIn(h)
        BY <1>5, <3>2
      <4>2. /\ Start(h, u) \in Page /\ End(h, u) - 1 \in Page
            /\ h.map[Start(h, u)] = u /\ h.map[End(h, u) - 1] = u
        BY <1>1, <4>1, Bounds DEF Mapped
      <4>3. k.map[Start(h, u)] = u
        BY <1>6, <1>11, <4>1, <4>2
      <4>4. k.map[End(h, u) - 1] = u
        BY <1>6, <1>11, <4>1, <4>2
      <4> QED  BY <1>6, <4>1, <4>3, <4>4
    <3> QED  BY <3>1, <3>2
  <2>2. ASSUME NEW u \in LiveIn(k), k.spans[u].cached
        PROVE  k.spans[u].in_use /\ \A p \in Page : Start(k, u) <= p /\ p < End(k, u) => k.map[p] = u
    <3>1. u \in LiveIn(h) /\ k.spans[u] = h.spans[u]
      BY <1>4, <1>5, <1>6, <2>2
    <3> QED  BY <1>1, <1>6, <1>11, <2>2, <3>1 DEF Mapped
  <2>3. ASSUME NEW p \in Page, p >= k.brk PROVE k.map[p] = Null
    <3>1. p >= h.brk /\ p # b /\ p # e - 1
      BY <1>2, <2>3, Constants DEF b
    <3> QED  BY <1>1, <1>3, <3>1 DEF Mapped
  <2> QED  BY <2>1, <2>2, <2>3 DEF Mapped
<1>13. Filed(k, x)
  <2>1. ASSUME NEW u \in SpanId, NEW c \in ListId
        PROVE  u \in ToSet(k.lists[c]) <=>
                 u \in LiveIn(k) /\ ~k.spans[u].in_use /\ u # x /\ c = ListOf(k.spans[u].count)
    <3>1. u \in ToSet(h.lists[c]) <=>
            u \in LiveIn(h) /\ ~h.spans[u].in_use /\ c = ListOf(h.spans[u].count)
      BY <1>1, Constants DEF Filed
    <3>2. CASE u = x
      BY <1>3, <3>1, <3>2
    <3>3. CASE u # x
      <4>1. k.spans[u] = h.spans[u] /\ (u \in LiveIn(k) <=> u \in LiveIn(h))
        BY <1>3, <1>5, <3>3
      <4> QED  BY <1>3, <3>1, <3>3, <4>1
    <3> QED  BY <3>2, <3>3
  <2> QED  BY <1>1, <1>3, <2>1 DEF Filed
<1>14. Merged(k, x)
  <2> SUFFICES ASSUME NEW u \in LiveIn(h), NEW v \in LiveIn(h), End(h, u) = Start(h, v)
               PROVE  h.spans[u].in_use \/ h.spans[v].in_use
    BY <1>5, <1>6 DEF Merged
  <2> QED  BY <1>1, <1>6 DEF Merged
<1>15. InUse(k) = InUse(h)
  BY <1>4, <1>5, <1>6 DEF InUse
<1> QED  BY <1>4, <1>5, <1>6, <1>7, <1>8, <1>9, <1>12, <1>13, <1>14, <1>15 DEF Loose, b, e

\* Nobody gains or loses a span from h to k.
HeldAlike(h, k) == Held(k) = Held(h) /\ \A u \in Held(h) : k.spans[u] = h.spans[u]

FreeWith(h, n) == \E t \in LiveIn(h) : ~h.spans[t].in_use /\ h.spans[t].count >= n

LEMMA GrowToKeeps ==
  ASSUME SpanPool >= MmapPages, NEW h, Good(h), NEW n \in Nat \ {0}, NEW g, Grown(h, g, n),
         NEW k, k = GrowTo(h, g)
  PROVE  Good(k) /\ HeldAlike(h, k) /\ FreeWith(k, n)
<1> DEFINE x == Spare(g)
           N == NewSpan(g, h.brk, n)
           T == Taken(N, x)
           A == Charged(T, n)
<1>1. Sound(h) /\ h.failed = FALSE /\ h.used = Cardinality(InUse(h))
  BY DEF Good
<1>2. Shape(h) /\ Apart(h)
  BY <1>1 DEF Sound, Loose
<1>3. h \in Heaps /\ h.brk \in Nat /\ h.map \in [Page -> SpanId \cup {Null}] /\ h.spans \in [SpanId -> Span]
  BY <1>2, Bounds, SpanTypes
<1>4. /\ g \in Heaps /\ g.spans = h.spans /\ g.map = h.map /\ g.lists = h.lists /\ g.brk = h.brk + n
      /\ g.used = h.used /\ g.failed = h.failed /\ g.real \in Nat /\ g.brk <= g.real /\ g.real <= MmapPages
  BY DEF Grown, Is
<1>5. LiveIn(g) = LiveIn(h) /\ \A u : Start(g, u) = Start(h, u) /\ End(g, u) = End(h, u)
  BY <1>4 DEF LiveIn, Start, End
<1>6. Shape(g) /\ Apart(g)
  <2>1. \A u \in LiveIn(h) : End(h, u) \in Nat /\ End(h, u) <= h.brk /\ h.spans[u].count > 0
    BY <1>2, Bounds DEF Shape
  <2>2. \A u \in LiveIn(g) : End(g, u) <= g.brk /\ g.spans[u].count > 0
    BY <1>3, <1>4, <1>5, <2>1
  <2> QED  BY <1>2, <1>4, <1>5, <2>2 DEF Shape, Apart
<1>7. HasSpare(g) /\ x \in SpanId /\ x \notin LiveIn(h)
  <2>1. h.brk \in 0 .. MmapPages - 1
    BY <1>3, <1>4, Constants
  <2>2. \A u \in LiveIn(g) : Start(g, u) # h.brk
    BY <1>2, <1>5, Bounds
  <2> QED  BY <1>5, <1>6, <2>1, <2>2, SpareExists
<1>8. Is(N, [g.spans EXCEPT ![x] = New(h.brk, n)], SetEnds(g.map, New(h.brk, n), x), g.lists,
         g.brk, g.real, g.used, g.failed)
  BY <1>3, <1>4, <1>7, NewSpanIs
<1>9. k = deallocate_span_in(A, x)
  <2>1. g.brk - h.brk = n /\ n # 0
    BY <1>3, <1>4
  <2>2. k = deallocate_span_in(AsAllocated(N, x, n), x)
    BY <1>7, <2>1 DEF GrowTo
  <2>3. AsAllocated(N, x, n) = A
    BY DEF AsAllocated, Charged, Taken
  <2> QED  BY <2>2, <2>3
<1> HIDE DEF x, N
<1>10. Added(h, N, n, x)
  <2> DEFINE new == New(h.brk, n)
  <2>1. new.start = h.brk /\ new.count = n
    BY DEF New
  <2>2. /\ N \in Heaps /\ N.spans = [h.spans EXCEPT ![x] = new] /\ N.map = SetEnds(h.map, new, x)
        /\ N.lists = h.lists /\ N.brk = g.brk /\ N.real = g.real /\ N.used = g.used /\ N.failed = g.failed
    BY <1>4, <1>8 DEF Is
  <2> HIDE DEF new
  <2>3. \A p \in Page : N.map[p] = IF p = h.brk \/ p = (h.brk + n) - 1 THEN x ELSE h.map[p]
    <3>1. \A p \in Page : SetEnds(h.map, new, x)[p] =
            IF p = new.start \/ p = new.start + new.count - 1 THEN x ELSE h.map[p]
      BY <1>3, <1>7, <2>1, EndsSet
    <3> QED  BY <1>3, <2>1, <2>2, <3>1
  <2>4. N.spans[x] = new /\ \A u \in SpanId \ {x} : N.spans[u] = h.spans[u]
    BY <1>3, <1>7, <2>2
  <2> QED  BY <1>4, <2>2, <2>3, <2>4 DEF Added, new
<1>11. /\ Loose(N, x) /\ LiveIn(N) = LiveIn(h) \cup {x} /\ ~N.spans[x].in_use
       /\ \A u \in LiveIn(h) : N.spans[u] = h.spans[u]
       /\ Start(N, x) = h.brk /\ End(N, x) = h.brk + n
       /\ InUse(N) = InUse(h)
  BY <1>1, <1>7, <1>10, AddedKeeps
<1>12. N.used = h.used /\ N.failed = FALSE
  BY <1>1, <1>10 DEF Added
<1>13. T = Taken(N, x) /\ A = Charged(T, n) /\ x \in LiveIn(N) /\ Loose(N, x) /\ ~N.spans[x].in_use
  BY <1>11
<1> HIDE DEF T, A
<1>14. /\ Sound(T) /\ LiveIn(T) = LiveIn(N) /\ T.spans[x].in_use
       /\ \A u \in LiveIn(T) \ {x} : T.spans[u] = N.spans[u]
       /\ Start(T, x) = Start(N, x) /\ End(T, x) = End(N, x)
       /\ T.brk = N.brk /\ T.real = N.real /\ T.used = N.used /\ T.failed = N.failed
       /\ InUse(T) = InUse(N) \cup PagesIn(N, x)
  BY <1>13, UseKeeps
<1>15. T.used + n = Cardinality(InUse(T))
  <2>1. Shape(N) /\ Apart(N) /\ Shape(T)
    BY <1>11, <1>14 DEF Sound, Loose
  <2>2. PagesIn(N, x) = PagesIn(T, x)
    BY <1>14 DEF PagesIn
  <2>3. /\ x \in LiveIn(N) /\ ~N.spans[x].in_use /\ x \in LiveIn(T)
        /\ InUse(T) = InUse(N) \cup PagesIn(T, x) /\ Start(T, x) = Start(N, x) /\ End(T, x) <= End(N, x)
    BY <1>3, <1>11, <1>13, <1>14, <2>2
  <2>4. /\ Cardinality(InUse(T)) = Cardinality(InUse(N)) + (End(T, x) - Start(T, x))
        /\ Cardinality(InUse(N)) \in Nat
    BY <2>1, <2>3, UsedGrows
  <2> QED  BY <1>1, <1>3, <1>11, <1>12, <1>14, <2>4
<1>16. Good(A) /\ A.spans = T.spans /\ LiveIn(A) = LiveIn(T) /\ Held(A) = Held(T)
       /\ \A u : Start(A, u) = Start(T, u) /\ End(A, u) = End(T, u)
  <2>1. Sound(T) /\ T.failed = FALSE /\ A = Charged(T, n)
    BY <1>12, <1>13, <1>14
  <2> QED  BY <1>15, <2>1, UsedFollows, ZenonT(30)
<1>17. x \in Held(A)
  BY <1>13, <1>14, <1>16 DEF Held
<1>18. /\ Good(k)
       /\ Held(k) = Held(A) \ {x} /\ \A u \in Held(k) : k.spans[u] = A.spans[u]
       /\ x \in LiveIn(k) /\ ~k.spans[x].in_use
       /\ Start(k, x) <= Start(A, x) /\ End(A, x) <= End(k, x)
  BY <1>9, <1>16, <1>17, DeallocKeeps
<1>19. HeldAlike(h, k)
  <2>1. Held(A) \ {x} = Held(h) /\ \A u \in Held(h) : A.spans[u] = h.spans[u]
    <3>1. \A u \in LiveIn(h) : u # x /\ u \in LiveIn(A) /\ A.spans[u] = h.spans[u]
      BY <1>7, <1>11, <1>14, <1>16
    <3>2. \A u \in LiveIn(A) \ {x} : u \in LiveIn(h)
      BY <1>11, <1>14, <1>16
    <3> QED  BY <3>1, <3>2 DEF Held
  <2> QED  BY <1>18, <2>1 DEF HeldAlike
<1>20. FreeWith(k, n)
  <2>1. Shape(k)
    BY <1>18 DEF Good, Sound, Loose
  <2>2. Start(k, x) \in Nat /\ End(k, x) \in Nat /\ k.spans[x].count = End(k, x) - Start(k, x)
    BY <1>18, <2>1, Bounds
  <2>3. k.spans[x].count >= n
    BY <1>3, <1>11, <1>14, <1>16, <1>18, <2>2
  <2> QED  BY <1>18, <2>3 DEF FreeWith
<1> QED  BY <1>18, <1>19, <1>20

LEMMA GrowKeeps ==
  ASSUME SpanPool >= MmapPages, NEW h, Good(h), NEW n \in Nat \ {0}, NEW k, k = grow_heap(h, n)
  PROVE  /\ Good(k) /\ HeldAlike(h, k)
         /\ (k = h /\ sbrk(h, n) = h) \/ FreeWith(k, n)
<1> DEFINE most == Max({n, HEAP_GROW_PAGE_COUNT})
           generous == sbrk(h, most)
           exact == sbrk(h, n)
<1>1. Shape(h) /\ h \in Heaps /\ h.brk \in Nat
  BY Bounds DEF Good, Sound, Loose
<1>2. most \in Nat \ {0} /\ most >= n
  BY MaxOfTwo, Constants
<1>3. k = GrowTo(h, IF generous # h THEN generous ELSE exact)
  BY DEF grow_heap
<1> HIDE DEF most
<1>4. generous = h \/ Grown(h, generous, most)
  BY <1>1, <1>2, SbrkIs
<1>5. exact = h \/ Grown(h, exact, n)
  BY <1>1, SbrkIs
<1>6. CASE generous # h
  <2>1. k = GrowTo(h, generous)
    BY <1>3, <1>6
  <2> HIDE DEF generous
  <2>2. Good(k) /\ HeldAlike(h, k) /\ FreeWith(k, most)
    BY <1>2, <1>4, <1>6, <2>1, GrowToKeeps
  <2>3. Shape(k)
    BY <2>2 DEF Good, Sound, Loose
  <2>4. \A t \in LiveIn(k) : k.spans[t].count \in Int
    BY <2>3, Bounds
  <2>5. FreeWith(k, n)
    BY <1>2, <2>2, <2>4 DEF FreeWith
  <2> QED  BY <2>2, <2>5
<1>7. CASE generous = h
  <2>1. k = GrowTo(h, exact)
    BY <1>3, <1>7
  <2>2. CASE exact = h
    <3>1. k = h
      <4>1. k = GrowTo(h, h) /\ h.brk - h.brk = 0
        BY <1>1, <2>1, <2>2
      <4> HIDE DEF generous, exact
      <4> QED  BY <4>1 DEF GrowTo
    <3> QED  BY <2>2, <3>1 DEF HeldAlike
  <2>3. CASE exact # h
    <3> HIDE DEF exact
    <3> QED  BY <1>5, <2>1, <2>3, GrowToKeeps
  <2> QED  BY <2>2, <2>3
<1> QED  BY <1>6, <1>7
-----------------------------------------------------------------------------
(* Finding *)

LEMMA Smallest ==
  ASSUME NEW S, S \subseteq Nat, S # {}
  PROVE  \E x \in S : \A y \in S : x <= y
<1>1. PICK x \in S : \A y \in S : ~(<<y, x>> \in OpToRel(<, Nat))
  BY WFMin, NatLessThanWellFounded
<1>2. ASSUME NEW y \in S PROVE x <= y
  <2>1. x \in Nat /\ y \in Nat
    OBVIOUS
  <2>2. ~(y < x)
    BY <1>1, <2>1 DEF OpToRel
  <2> QED  BY <2>1, <2>2
<1> QED  BY <1>2

LEMMA MinIs ==
  ASSUME NEW S, S \subseteq Nat, S # {}
  PROVE  Min(S) \in S
  BY Smallest DEF Min

\* Among spans that fit there is a best one.
LEMMA BestExists ==
  ASSUME NEW F, F # {}, NEW h, \A s \in F : h.spans[s].count \in Nat /\ h.spans[s].start \in Nat
  PROVE  \E s \in F : \A t \in F :
           \/ h.spans[s].count < h.spans[t].count
           \/ h.spans[s].count = h.spans[t].count /\ h.spans[s].start <= h.spans[t].start
<1> DEFINE C == {h.spans[s].count : s \in F}
<1>1. PICK c \in C : \A d \in C : c <= d
  <2>1. C \subseteq Nat /\ C # {}
    OBVIOUS
  <2> HIDE DEF C
  <2> QED  BY <2>1, Smallest
<1> DEFINE E == {s \in F : h.spans[s].count = c}
           B == {h.spans[s].start : s \in E}
<1>2. PICK b \in B : \A d \in B : b <= d
  <2>1. E # {}
    OBVIOUS
  <2>2. B \subseteq Nat /\ B # {}
    BY <2>1
  <2> HIDE DEF B
  <2> QED  BY <2>2, Smallest
<1>3. PICK s \in E : h.spans[s].start = b
  OBVIOUS
<1>4. ASSUME NEW t \in F
      PROVE  \/ h.spans[s].count < h.spans[t].count
             \/ h.spans[s].count = h.spans[t].count /\ h.spans[s].start <= h.spans[t].start
  <2>1. c <= h.spans[t].count /\ h.spans[s].count = c /\ c \in Nat /\ h.spans[t].count \in Nat
    BY <1>1
  <2>2. CASE h.spans[t].count = c
    <3>1. t \in E
      BY <2>2
    <3>2. b <= h.spans[t].start
      BY <1>2, <3>1
    <3> QED  BY <1>3, <2>1, <2>2, <3>2
  <2>3. CASE h.spans[t].count # c
    BY <2>1, <2>3
  <2> QED  BY <2>2, <2>3
<1> QED  BY <1>3, <1>4

\* The search finds a free span that is long enough if there is one.
LEMMA ExistingIs ==
  ASSUME NEW h, Sound(h), NEW n \in Nat \ {0}, NEW s, s = Existing(h, n)
  PROVE  \/ s \in LiveIn(h) /\ s # Null /\ ~h.spans[s].in_use /\ h.spans[s].count >= n
         \/ s = Null /\ ~FreeWith(h, n)
<1> DEFINE small == {c \in n .. MAX_PAGES - 1 : h.lists[c] # <<>>}
           fit == {t \in ToSet(h.lists[MAX_PAGES]) : h.spans[t].count >= n}
<1>1. Shape(h) /\ Filed(h, Null)
  BY DEF Sound, Loose
<1>2. /\ h \in Heaps /\ h.lists \in [ListId -> Seq(SpanId)] /\ MAX_PAGES \in ListId /\ MAX_PAGES \in Nat
      /\ \A t \in LiveIn(h) : t \in SpanId /\ t # Null /\ h.spans[t].count \in Nat
  BY <1>1, Bounds, SpanTypes, Constants DEF ListId
<1>3. \A c \in ListId : \A t \in ToSet(h.lists[c]) :
        t \in LiveIn(h) /\ ~h.spans[t].in_use /\ c = ListOf(h.spans[t].count)
  <2> TAKE c \in ListId
  <2> TAKE t \in ToSet(h.lists[c])
  <2>1. t \in SpanId
    BY <1>2 DEF ToSet
  <2> QED  BY <1>1, <2>1 DEF Filed
<1>4. CASE small # {}
  <2> DEFINE c == Min(small)
  <2>1. c \in small
    <3>1. small \subseteq Nat
      OBVIOUS
    <3> HIDE DEF small
    <3> QED  BY <1>4, <3>1, MinIs
  <2>2. s = Head(h.lists[c])
    BY <1>4 DEF Existing
  <2> HIDE DEF c
  <2>3. c \in ListId /\ c \in Nat /\ n <= c /\ c < MAX_PAGES /\ h.lists[c] # <<>> /\ h.lists[c] \in Seq(SpanId)
    BY <1>2, <2>1 DEF ListId
  <2>4. s \in ToSet(h.lists[c])
    <3>1. 1 \in DOMAIN h.lists[c] /\ Head(h.lists[c]) = h.lists[c][1]
      BY <2>3
    <3> QED  BY <2>2, <3>1 DEF ToSet
  <2>5. s \in LiveIn(h) /\ ~h.spans[s].in_use /\ c = ListOf(h.spans[s].count)
    BY <1>3, <2>3, <2>4
  <2>6. h.spans[s].count >= n
    BY <1>2, <2>3, <2>5 DEF ListOf
  <2> QED  BY <1>2, <2>5, <2>6
<1>5. CASE small = {} /\ fit # {}
  <2>1. s \in fit
    <3>1. s = CHOOSE u \in fit : \A t \in fit :
            \/ h.spans[u].count < h.spans[t].count
            \/ h.spans[u].count = h.spans[t].count /\ h.spans[u].start <= h.spans[t].start
      BY <1>5, Zenon DEF Existing, BestFit
    <3>2. \A t \in fit : t \in LiveIn(h)
      BY <1>2, <1>3
    <3>3. \A t \in fit : h.spans[t].count \in Nat /\ h.spans[t].start \in Nat
      BY <1>1, <3>2, Bounds DEF Start
    <3> HIDE DEF fit
    <3>4. \E u \in fit : \A t \in fit :
            \/ h.spans[u].count < h.spans[t].count
            \/ h.spans[u].count = h.spans[t].count /\ h.spans[u].start <= h.spans[t].start
      BY <1>5, <3>3, BestExists
    <3> QED  BY <3>1, <3>4, SMTT(30)
  <2> QED  BY <1>2, <1>3, <2>1
<1>6. CASE small = {} /\ fit = {}
  <2>1. s = Null
    BY <1>6 DEF Existing, BestFit
  <2>2. ASSUME NEW t \in LiveIn(h), ~h.spans[t].in_use, h.spans[t].count >= n PROVE FALSE
    <3> DEFINE c == ListOf(h.spans[t].count)
    <3>1. c \in ListId
      BY <1>2, <2>2, Constants DEF ListOf, ListId
    <3>2. t \in ToSet(h.lists[c])
      BY <1>1, <1>2, <2>2, <3>1 DEF Filed
    <3>3. CASE h.spans[t].count < MAX_PAGES
      <4>1. c = h.spans[t].count /\ c \in n .. MAX_PAGES - 1
        BY <1>2, <2>2, <3>3 DEF ListOf
      <4>2. h.lists[c] # <<>>
        BY <3>2 DEF ToSet
      <4> QED  BY <1>6, <4>1, <4>2
    <3>4. CASE ~(h.spans[t].count < MAX_PAGES)
      <4>1. c = MAX_PAGES
        BY <3>4 DEF ListOf
      <4> QED  BY <1>6, <2>2, <3>2, <4>1
    <3> QED  BY <3>3, <3>4
  <2> QED  BY <2>1, <2>2 DEF FreeWith
<1> QED  BY <1>4, <1>5, <1>6
-----------------------------------------------------------------------------
(* The calls *)

\* Between h and k somebody was given n pages in a row, as span s.
Gains(h, k, s, n) ==
  /\ Held(k) = Held(h) \cup {s} /\ s \notin Held(h)
  /\ \A u \in Held(h) : Start(k, u) = Start(h, u) /\ End(k, u) = End(h, u)
  /\ End(k, s) = Start(k, s) + n

\* Nobody gained or lost anything.
Keeps(h, k) ==
  Held(k) = Held(h) /\ \A u \in Held(h) : Start(k, u) = Start(h, u) /\ End(k, u) = End(h, u)

\* register_span() changes what is known of a span, and not what anybody has.
LEMMA RegisterKeeps ==
  ASSUME NEW h, Good(h), NEW s \in Held(h), NEW k, k = register_span_in(h, s)
  PROVE  /\ Good(k) /\ Keeps(h, k)
         /\ k.spans[s].cached /\ k.spans[s].count = h.spans[s].count
         /\ \A u \in SpanId \ {s} : k.spans[u] = h.spans[u]
<1> DEFINE M == [p \in Page |-> IF p \in h.spans[s].start + 1 .. last_page(h.spans[s]) - 1 THEN s ELSE h.map[p]]
           q == [h.spans[s] EXCEPT !.cached = TRUE]
           S == [h.spans EXCEPT ![s] = q]
           k1 == [h EXCEPT !.map = M]
<1>1. Sound(h) /\ h.failed = FALSE /\ h.used = Cardinality(InUse(h))
  BY DEF Good
<1>2. Shape(h) /\ Apart(h) /\ Covered(h) /\ Mapped(h) /\ Filed(h, Null) /\ Merged(h, Null)
  BY <1>1 DEF Sound, Loose
<1>3. /\ h \in Heaps /\ s \in LiveIn(h) /\ s \in SpanId /\ h.spans[s].in_use /\ h.spans \in [SpanId -> Span]
      /\ h.map \in [Page -> SpanId \cup {Null}] /\ h.spans[s] \in Span
      /\ Start(h, s) \in Nat /\ End(h, s) \in Nat /\ Start(h, s) < End(h, s) /\ End(h, s) <= h.brk /\ h.brk \in Nat
  BY <1>2, Bounds, SpanTypes DEF Held
<1>4. /\ q \in Span /\ q.start = h.spans[s].start /\ q.count = h.spans[s].count
      /\ q.in_use = h.spans[s].in_use /\ q.live = h.spans[s].live /\ q.cached = TRUE
  BY <1>3 DEF Span
<1>5. M \in [Page -> SpanId \cup {Null}]
  BY <1>3
<1>6. \A p \in Page : M[p] = IF Start(h, s) < p /\ p < End(h, s) - 1 THEN s ELSE h.map[p]
  <2>1. last_page(h.spans[s]) = End(h, s) - 1 /\ h.spans[s].start = Start(h, s)
    BY <1>2, <1>3, Bounds DEF last_page, Start, End
  <2> TAKE p \in Page
  <2>2. p \in Nat
    BY Constants
  <2>3. M[p] = IF p \in Start(h, s) + 1 .. (End(h, s) - 1) - 1 THEN s ELSE h.map[p]
    BY <2>1
  <2>4. p \in Start(h, s) + 1 .. (End(h, s) - 1) - 1 <=> Start(h, s) < p /\ p < End(h, s) - 1
    BY <1>3, <2>2
  <2> HIDE DEF M
  <2> QED  BY <2>3, <2>4
<1>7. k = [k1 EXCEPT !.spans = S]
  <2>1. k1.spans = h.spans
    BY <1>3 DEF Heaps
  <2>2. k = [k1 EXCEPT !.spans[s].cached = TRUE]
    BY DEF register_span_in
  <2> HIDE DEF k1
  <2> QED  BY <2>1, <2>2
<1> HIDE DEF M, q
<1>8. S \in [SpanId -> Span] /\ S[s] = q /\ \A u \in SpanId \ {s} : S[u] = h.spans[u]
  BY <1>3, <1>4
<1> HIDE DEF S
<1>9. Is(k1, h.spans, M, h.lists, h.brk, h.real, h.used, h.failed)
  BY <1>3, <1>5, IsItself, SetMap
<1> HIDE DEF k1
<1>10. Is(k, S, M, h.lists, h.brk, h.real, h.used, h.failed)
  BY <1>7, <1>8, <1>9, SetSpans
<1>11. /\ k \in Heaps /\ k.spans = S /\ k.map = M /\ k.lists = h.lists /\ k.brk = h.brk
       /\ k.real = h.real /\ k.used = h.used /\ k.failed = h.failed
  BY <1>10 DEF Is
<1>12. \A u \in SpanId : /\ k.spans[u].live = h.spans[u].live /\ k.spans[u].in_use = h.spans[u].in_use
                         /\ k.spans[u].count = h.spans[u].count
                         /\ Start(k, u) = Start(h, u) /\ End(k, u) = End(h, u)
                         /\ u # s => k.spans[u] = h.spans[u]
  <2> TAKE u \in SpanId
  <2>1. CASE u = s
    BY <1>4, <1>8, <1>11, <2>1 DEF Start, End
  <2>2. CASE u # s
    BY <1>8, <1>11, <2>2 DEF Start, End
  <2> QED  BY <2>1, <2>2
<1>13. LiveIn(k) = LiveIn(h) /\ LiveIn(h) \subseteq SpanId
  BY <1>12 DEF LiveIn
<1>14. Held(k) = Held(h) /\ Held(h) \subseteq SpanId
  BY <1>12, <1>13 DEF Held
<1>15. InUse(k) = InUse(h)
  BY <1>12, <1>13 DEF InUse
<1>16. Shape(k)
  BY <1>2, <1>11, <1>12, <1>13 DEF Shape
<1>17. Apart(k)
  BY <1>2, <1>12, <1>13 DEF Apart
<1>18. Covered(k)
  BY <1>2, <1>11, <1>12, <1>13 DEF Covered
<1>19. Filed(k, Null)
  BY <1>2, <1>11, <1>12, <1>13 DEF Filed
<1>20. Merged(k, Null)
  BY <1>2, <1>12, <1>13 DEF Merged
<1>21. Mapped(k)
  <2>1. ASSUME NEW u \in LiveIn(h) \ {s}, NEW p \in Page, Start(h, u) <= p, p < End(h, u)
        PROVE  k.map[p] = h.map[p]
    <3>1. End(h, u) <= Start(h, s) \/ End(h, s) <= Start(h, u)
      BY <1>2, <1>3 DEF Apart
    <3>2. Start(h, u) \in Nat /\ End(h, u) \in Nat /\ p \in Nat
      BY <1>2, Bounds, Constants
    <3>3. ~(Start(h, s) < p /\ p < End(h, s) - 1)
      BY <1>3, <2>1, <3>1, <3>2
    <3> QED  BY <1>6, <1>11, <3>3
  <2>2. ASSUME NEW p \in Page, Start(h, s) <= p, p < End(h, s), \/ p = Start(h, s) \/ p = End(h, s) - 1
                                                                \/ Start(h, s) < p /\ p < End(h, s) - 1
        PROVE  k.map[p] = s
    BY <1>2, <1>3, <1>6, <1>11, <2>2 DEF Mapped
  <2>3. ASSUME NEW p \in Page, Start(h, s) <= p, p < End(h, s) PROVE k.map[p] = s
    BY <1>3, <2>2, <2>3, Constants
  <2>4. ASSUME NEW u \in LiveIn(k) PROVE k.map[Start(k, u)] = u /\ k.map[End(k, u) - 1] = u
    <3>1. /\ Start(h, u) \in Page /\ End(h, u) - 1 \in Page /\ Start(h, u) \in Nat /\ End(h, u) \in Nat
          /\ Start(h, u) < End(h, u) /\ h.map[Start(h, u)] = u /\ h.map[End(h, u) - 1] = u
          /\ Start(k, u) = Start(h, u) /\ End(k, u) = End(h, u) /\ u \in LiveIn(h)
      BY <1>2, <1>12, <1>13, Bounds DEF Mapped
    <3>2. k.map[Start(h, u)] = u
      BY <2>1, <2>3, <3>1
    <3>3. k.map[End(h, u) - 1] = u
      BY <2>1, <2>3, <3>1
    <3> QED  BY <3>1, <3>2, <3>3
  <2>5. ASSUME NEW u \in LiveIn(k), k.spans[u].cached
        PROVE  k.spans[u].in_use /\ \A p \in Page : Start(k, u) <= p /\ p < End(k, u) => k.map[p] = u
    <3>1. CASE u = s
      BY <1>3, <1>12, <2>3, <3>1
    <3>2. CASE u # s
      <4>1. u \in LiveIn(h) \ {s} /\ k.spans[u] = h.spans[u] /\ Start(k, u) = Start(h, u) /\ End(k, u) = End(h, u)
        BY <1>12, <1>13, <3>2
      <4> QED  BY <1>2, <2>1, <2>5, <4>1 DEF Mapped
    <3> QED  BY <3>1, <3>2
  <2>6. ASSUME NEW p \in Page, p >= k.brk PROVE k.map[p] = Null
    <3>1. p >= h.brk /\ ~(Start(h, s) < p /\ p < End(h, s) - 1)
      BY <1>3, <1>11, <2>6, Constants
    <3> QED  BY <1>2, <1>6, <1>11, <3>1 DEF Mapped
  <2> QED  BY <2>4, <2>5, <2>6 DEF Mapped
<1>22. Sound(k)
  BY <1>16, <1>17, <1>18, <1>19, <1>20, <1>21 DEF Sound, Loose
<1>23. k.spans[s].cached
  BY <1>3, <1>4, <1>8, <1>11
<1> QED  BY <1>1, <1>3, <1>11, <1>12, <1>14, <1>15, <1>22, <1>23 DEF Good, Keeps

\* A heap that was searched in vain was grown, if it could be.
LEMMA SearchedIs ==
  ASSUME SpanPool >= MmapPages, NEW h, Good(h), NEW n \in Nat \ {0}, NEW k, k = Searched(h, n)
  PROVE  /\ Good(k) /\ HeldAlike(h, k)
         /\ Existing(k, n) = Null => k = h /\ sbrk(h, n) = h /\ ~FreeWith(h, n)
<1>1. CASE Existing(h, n) # Null
  <2>1. k = h
    BY <1>1 DEF Searched
  <2> QED  BY <1>1, <2>1 DEF HeldAlike
<1>2. CASE Existing(h, n) = Null
  <2>1. k = grow_heap(h, n)
    BY <1>2 DEF Searched
  <2>2. Good(k) /\ HeldAlike(h, k) /\ ((k = h /\ sbrk(h, n) = h) \/ FreeWith(k, n))
    BY <2>1, GrowKeeps
  <2>3. Sound(h) /\ Sound(k)
    BY <2>2 DEF Good
  <2>4. ~FreeWith(h, n)
    BY <1>2, <2>3, ExistingIs
  <2>5. Existing(k, n) = Null => ~FreeWith(k, n)
    BY <2>3, ExistingIs
  <2> QED  BY <2>2, <2>4, <2>5
<1> QED  BY <1>1, <1>2

LEMMA AllocKeeps ==
  ASSUME SpanPool >= MmapPages, NEW h, Good(h), NEW n \in Nat \ {0}, NEW a, a = allocate_span_in(h, n)
  PROVE  /\ Good(a.heap) /\ \A u \in Held(h) : a.heap.spans[u] = h.spans[u]
         /\ \/ a.span = Null /\ Keeps(h, a.heap)
            \/ a.span # Null /\ Gains(h, a.heap, a.span, n)
<1> DEFINE f == Searched(h, n)
           s == Existing(f, n)
           k == Charged(carve(f, s, n), n)
<1>2. a.span = s /\ a.heap = IF s = Null THEN f ELSE k
  BY DEF allocate_span_in, CarveFrom, Charged
<1>2a. f = Searched(h, n)
  OBVIOUS
<1> HIDE DEF f, k
<1>1. Good(f) /\ HeldAlike(h, f)
  BY <1>2a, SearchedIs
<1>3. \A u \in Held(h) : Start(f, u) = Start(h, u) /\ End(f, u) = End(h, u)
  BY <1>1 DEF HeldAlike, Start, End
<1>4. Sound(f)
  BY <1>1 DEF Good
<1>5. CASE s = Null
  BY <1>1, <1>2, <1>3, <1>5 DEF HeldAlike, Keeps
<1>6. CASE s # Null
  <2>1. s \in LiveIn(f) /\ ~f.spans[s].in_use /\ f.spans[s].count >= n
    BY <1>4, <1>6, ExistingIs
  <2> HIDE DEF s
  <2>2. k = Charged(carve(f, s, n), n) /\ n > 0 /\ n <= f.spans[s].count
    <3>1. f.spans[s].count \in Int
      BY <1>4, <2>1, Bounds DEF Sound, Loose
    <3> QED  BY <2>1, <3>1 DEF k
  <2>3. /\ Good(k) /\ HandsOut(f, k, s)
        /\ Start(k, s) = Start(f, s) /\ End(k, s) = Start(f, s) + n
    BY <1>1, <2>1, <2>2, CarveKeeps
  <2>4. /\ Held(k) = Held(h) \cup {s} /\ s \notin Held(h)
        /\ \A u \in Held(h) : k.spans[u] = f.spans[u] /\ f.spans[u] = h.spans[u]
    BY <1>1, <2>3 DEF HandsOut, HeldAlike
  <2>5. \A u \in Held(h) : Start(k, u) = Start(h, u) /\ End(k, u) = End(h, u)
    BY <1>3, <2>4 DEF Start, End
  <2> QED  BY <1>2, <1>6, <2>3, <2>4, <2>5 DEF Gains
<1> QED  BY <1>5, <1>6
-----------------------------------------------------------------------------
(* The theorems.  They are about a metadata block with a span structure for *)
(* every page: with fewer, carve() hands out more than was asked for, and   *)
(* used_size is wrong.                                                      *)

\* A span is given back and nothing else changes hands.
Loses(h, k, s) ==
  /\ s \in Held(h) /\ Held(k) = Held(h) \ {s}
  /\ \A u \in Held(k) : Start(k, u) = Start(h, u) /\ End(k, u) = End(h, u)

LEMMA Becoming ==
  ASSUME NEW k \in Heaps, Becomes(k)
  PROVE  Heap' = k
<1>1. Heap' = [spans |-> k.spans, map |-> k.map, lists |-> k.lists, brk |-> k.brk, real |-> k.real,
               used |-> k.used, failed |-> k.failed]
  BY DEF Heap, Becomes
<1> QED  BY <1>1 DEF Heaps

\* The heap at the start: no block, no spans.
LEMMA InitGood == Init => IInv
<1> SUFFICES ASSUME Init PROVE Good(Heap)
  BY DEF IInv
<1> DEFINE h == Heap
<1>1. /\ h.spans = [s \in SpanId |-> Dead] /\ h.map = [p \in Page |-> Null] /\ h.lists = [c \in ListId |-> <<>>]
      /\ h.brk = 0 /\ h.real = 0 /\ h.used = 0 /\ h.failed = FALSE
  BY DEF Heap, Init
<1>2. h \in Heaps
  <2>1. Dead \in Span /\ <<>> \in Seq(SpanId)
    BY DEF Dead, Span
  <2>2. /\ [s \in SpanId |-> Dead] \in [SpanId -> Span] /\ [p \in Page |-> Null] \in [Page -> SpanId \cup {Null}]
        /\ [c \in ListId |-> <<>>] \in [ListId -> Seq(SpanId)]
    BY <2>1
  <2>3. /\ spans \in [SpanId -> Span] /\ span_map \in [Page -> SpanId \cup {Null}]
        /\ free_lists \in [ListId -> Seq(SpanId)] /\ used_pages \in Nat /\ real_pages \in Nat /\ used_size \in Int
    BY <2>2 DEF Init
  <2>4. failed \in BOOLEAN
    BY Zenon DEF Init
  <2> QED  BY <2>3, <2>4 DEF Heap, Heaps
<1>3. LiveIn(h) = {}
  BY <1>1 DEF LiveIn, Dead
<1> HIDE DEF h
<1>4. Shape(h) /\ Apart(h) /\ Covered(h) /\ Merged(h, Null)
  BY <1>1, <1>2, <1>3, Constants DEF Shape, Apart, Covered, Merged
<1>5. Mapped(h)
  BY <1>1, <1>3 DEF Mapped
<1>6. Filed(h, Null)
  <2>1. \A c \in ListId : h.lists[c] = <<>>
    BY <1>1
  <2>2. Once(<<>>) /\ ToSet(<<>>) = {}
    BY DEF Once, ToSet
  <2> QED  BY <1>3, <2>1, <2>2 DEF Filed
<1>7. h.used = Cardinality(InUse(h)) /\ h.failed = FALSE
  <2>1. InUse(h) = {}
    BY <1>3 DEF InUse
  <2> QED  BY <1>1, <2>1, FS_EmptySet
<1> QED  BY <1>4, <1>5, <1>6, <1>7 DEF Good, Sound, Loose, h

\* Every call keeps the invariant, and hands out or takes back one span.
LEMMA NextGood ==
  ASSUME SpanPool >= MmapPages, IInv, [Next]_vars
  PROVE  /\ IInv'
         /\ \/ Keeps(Heap, Heap')
            \/ \E n \in Requests \cup CachedRequests, s \in SpanId : Gains(Heap, Heap', s, n)
            \/ \E s \in SpanId : Loses(Heap, Heap', s)
<1> DEFINE h == Heap
           k == Heap'
<1> USE DEF IInv
<1>0. Requests \cup CachedRequests \subseteq Nat \ {0}
  BY HeapAssumption
<1>1. ASSUME NEW n \in Requests \cup CachedRequests, NEW cached \in BOOLEAN, allocate_span(n, cached)
      PROVE  Good(k) /\ (Keeps(h, k) \/ \E s \in SpanId : Gains(h, k, s, n))
  <2> DEFINE a == allocate_span_in(h, n)
             r == IF cached /\ a.span # Null THEN register_span_in(a.heap, a.span) ELSE a.heap
  <2>1. n \in Nat \ {0} /\ Becomes(r) /\ a = allocate_span_in(h, n)
    BY <1>0, <1>1 DEF allocate_span
  <2> HIDE DEF a, h
  <2>2. /\ Good(a.heap)
        /\ \/ a.span = Null /\ Keeps(h, a.heap)
           \/ a.span # Null /\ Gains(h, a.heap, a.span, n)
    BY <2>1, AllocKeeps DEF h
  <2>3. a.span # Null => a.span \in Held(a.heap) /\ a.span \in SpanId
    <3>1. a.span # Null => a.span \in Held(a.heap)
      BY <2>2 DEF Gains
    <3> QED  BY <3>1 DEF Held, LiveIn
  <2>4. Good(r) /\ Keeps(a.heap, r)
    <3>1. CASE cached /\ a.span # Null
      BY <2>2, <2>3, <3>1, RegisterKeeps
    <3>2. CASE ~(cached /\ a.span # Null)
      BY <2>2, <3>2 DEF Keeps
    <3> QED  BY <3>1, <3>2
  <2> HIDE DEF r
  <2>5. r \in Heaps
    BY <2>4, Bounds DEF Good, Sound, Loose
  <2>6. k = r
    BY <2>1, <2>5, Becoming
  <2> HIDE DEF k
  <2>7. CASE a.span = Null
    BY <2>2, <2>4, <2>6, <2>7 DEF Keeps
  <2>8. CASE a.span # Null
    <3>1. Gains(h, a.heap, a.span, n) /\ a.span \in SpanId
      BY <2>2, <2>3, <2>8
    <3>2. Gains(h, r, a.span, n)
      BY <2>4, <3>1 DEF Gains, Keeps
    <3> QED  BY <2>4, <2>6, <3>1, <3>2
  <2> QED  BY <2>7, <2>8
<1>2. ASSUME NEW s \in SpanId, deallocate_span(s)
      PROVE  Good(k) /\ Loses(h, k, s)
  <2> DEFINE r == deallocate_span_in(h, s)
  <2>1. s \in Held(h) /\ Becomes(r) /\ r = deallocate_span_in(h, s)
    BY <1>2 DEF deallocate_span, Held, LiveIn, Heap
  <2> HIDE DEF r, h
  <2>2. /\ Good(r) /\ Held(r) = Held(h) \ {s} /\ \A u \in Held(r) : r.spans[u] = h.spans[u]
    BY <2>1, DeallocKeeps DEF h
  <2>3. r \in Heaps
    BY <2>2, Bounds DEF Good, Sound, Loose
  <2>4. k = r
    BY <2>1, <2>3, Becoming
  <2>5. Loses(h, r, s)
    BY <2>1, <2>2 DEF Loses, Start, End
  <2> QED  BY <2>2, <2>4, <2>5
<1>3. CASE UNCHANGED vars
  <2>1. Heap' = Heap
    BY <1>3 DEF vars, Heap
  <2> QED  BY <2>1 DEF Keeps
<1>4. CASE \E n \in Requests : allocate_span(n, FALSE)
  <2>1. PICK n \in Requests : allocate_span(n, FALSE)
    BY <1>4
  <2> HIDE DEF IInv
  <2> QED  BY <1>1, <2>1 DEF IInv
<1>5. CASE \E n \in CachedRequests : allocate_span(n, TRUE)
  <2>1. PICK n \in CachedRequests : allocate_span(n, TRUE)
    BY <1>5
  <2> QED  BY <1>1, <2>1
<1>6. CASE \E s \in SpanId : deallocate_span(s)
  BY <1>2, <1>6
<1> QED  BY <1>3, <1>4, <1>5, <1>6 DEF Next

\* The invariant of every call: where spans lie, what the map and the lists
\* say of them, and the pages counted as in use.
THEOREM Invariance ==
  ASSUME SpanPool >= MmapPages
  PROVE  Spec => []IInv
<1>1. Init => IInv
  BY InitGood
<1>2. IInv /\ [Next]_vars => IInv'
  BY NextGood
<1> QED  BY <1>1, <1>2, PTL DEF Spec

\* No assertion of page_heap.cpp fails and no structure is read after it was
\* given back.
THEOREM AssertionsHold ==
  ASSUME SpanPool >= MmapPages
  PROVE  Spec => []NoAssertionFails
<1>1. IInv => NoAssertionFails
  BY DEF IInv, Good, Heap, NoAssertionFails
<1> QED  BY <1>1, Invariance, PTL

\* The spans as the properties of PageHeap name them.
LEMMA InHeap ==
  ASSUME IInv
  PROVE  /\ Shape(Heap) /\ Apart(Heap) /\ Covered(Heap) /\ Mapped(Heap) /\ Filed(Heap, Null) /\ Merged(Heap, Null)
         /\ Heap \in Heaps /\ Live = LiveIn(Heap) /\ Heap.spans = spans /\ Heap.map = span_map
         /\ Heap.lists = free_lists /\ Heap.brk = used_pages /\ Heap.real = real_pages /\ Heap.used = used_size
         /\ used_pages \in Nat /\ used_pages <= MmapPages /\ MmapPages \in Nat
         /\ \A s \in Live : /\ Pages(s) = Start(Heap, s) .. End(Heap, s) - 1
                            /\ Start(Heap, s) \in Nat /\ End(Heap, s) \in Nat /\ Start(Heap, s) < End(Heap, s)
                            /\ End(Heap, s) <= used_pages
                            /\ spans[s].start = Start(Heap, s) /\ last_page(spans[s]) = End(Heap, s) - 1
                            /\ s \in SpanId /\ s # Null
<1>1. Shape(Heap) /\ Apart(Heap) /\ Covered(Heap) /\ Mapped(Heap) /\ Filed(Heap, Null) /\ Merged(Heap, Null)
  BY DEF IInv, Good, Sound, Loose
<1>2. /\ Heap \in Heaps /\ Heap.spans = spans /\ Heap.map = span_map /\ Heap.lists = free_lists
      /\ Heap.brk = used_pages /\ Heap.real = real_pages /\ Heap.used = used_size
  BY <1>1, Bounds DEF Heap
<1>3. Live = LiveIn(Heap)
  BY <1>2 DEF Live, LiveIn
<1>4. ASSUME NEW s \in Live
      PROVE  /\ Pages(s) = Start(Heap, s) .. End(Heap, s) - 1
             /\ Start(Heap, s) \in Nat /\ End(Heap, s) \in Nat /\ Start(Heap, s) < End(Heap, s)
             /\ End(Heap, s) <= used_pages
             /\ spans[s].start = Start(Heap, s) /\ last_page(spans[s]) = End(Heap, s) - 1
             /\ s \in SpanId /\ s # Null
  <2>1. /\ Start(Heap, s) \in Nat /\ End(Heap, s) \in Nat /\ Start(Heap, s) < End(Heap, s)
        /\ End(Heap, s) <= used_pages /\ s \in SpanId /\ s # Null
        /\ spans[s].count = End(Heap, s) - Start(Heap, s)
    BY <1>1, <1>2, <1>3, Bounds
  <2>2. spans[s].start = Start(Heap, s)
    BY <1>2 DEF Start
  <2>3. last_page(spans[s]) = End(Heap, s) - 1
    BY <2>1, <2>2 DEF last_page
  <2> QED  BY <2>1, <2>2, <2>3 DEF Pages
<1>5. used_pages \in Nat /\ used_pages <= MmapPages /\ MmapPages \in Nat
  BY <1>1, <1>2, Bounds, Constants
<1> QED  BY <1>1, <1>2, <1>3, <1>4, <1>5

\* The pages in use, in both ways of saying it.
LEMMA SameInUse ==
  ASSUME IInv
  PROVE  UNION {Pages(s) : s \in {t \in Live : spans[t].in_use}} = InUse(Heap)
<1>1. ASSUME NEW p \in InUse(Heap) PROVE p \in UNION {Pages(s) : s \in {t \in Live : spans[t].in_use}}
  <2>1. PICK s \in LiveIn(Heap) : Heap.spans[s].in_use /\ Start(Heap, s) <= p /\ p < End(Heap, s) /\ p \in Page
    BY DEF InUse
  <2>2. s \in Live /\ spans[s].in_use /\ p \in Nat
    BY <2>1, InHeap, Constants
  <2>3. p \in Pages(s)
    BY <2>1, <2>2, InHeap
  <2> QED  BY <2>2, <2>3
<1>2. ASSUME NEW s \in Live, spans[s].in_use, NEW p \in Pages(s) PROVE p \in InUse(Heap)
  <2>1. p \in Start(Heap, s) .. End(Heap, s) - 1 /\ s \in LiveIn(Heap) /\ Heap.spans[s].in_use
    BY <1>2, InHeap
  <2>2. Start(Heap, s) \in Nat /\ End(Heap, s) \in Nat /\ End(Heap, s) <= MmapPages /\ MmapPages \in Nat
    BY InHeap
  <2>3. p \in Page /\ Start(Heap, s) <= p /\ p < End(Heap, s)
    BY <2>1, <2>2 DEF Page
  <2> QED  BY <2>1, <2>3 DEF InUse
<1> QED  BY <1>1, <1>2

\* The live spans partition the pages the heap has.
THEOREM Tiled ==
  ASSUME SpanPool >= MmapPages
  PROVE  Spec => []HeapTiled
<1>1. ASSUME IInv PROVE HeapTiled
  <2>1. TypeOK
    <3>1. /\ spans \in [SpanId -> Span] /\ span_map \in [Page -> SpanId \cup {Null}]
          /\ free_lists \in [ListId -> Seq(SpanId)] /\ real_pages \in Nat
      BY <1>1, InHeap, SpanTypes
    <3>2. \A c \in ListId : ToSet(free_lists[c]) \subseteq SpanId
      BY <3>1 DEF ToSet
    <3>3. used_pages \in 0 .. MmapPages /\ real_pages \in used_pages .. MmapPages
      BY <1>1, <3>1, InHeap DEF Shape
    <3>4. used_size \in 0 .. MmapPages
      <4>1. used_size = Cardinality(InUse(Heap))
        BY <1>1, InHeap DEF IInv, Good
      <4>2. InUse(Heap) \subseteq 0 .. MmapPages - 1
        <5> SUFFICES ASSUME NEW p \in InUse(Heap) PROVE p \in 0 .. MmapPages - 1
          OBVIOUS
        <5>1. PICK s \in LiveIn(Heap) : p < End(Heap, s) /\ p \in Page
          BY DEF InUse
        <5>2. End(Heap, s) \in Nat /\ End(Heap, s) <= MmapPages
          BY <1>1, InHeap
        <5> QED  BY <5>1, <5>2, Constants
      <4>3. IsFiniteSet(0 .. MmapPages - 1) /\ Cardinality(0 .. MmapPages - 1) = MmapPages
        <5>1. 0 \in Int /\ MmapPages - 1 \in Int /\ ~(0 > MmapPages - 1) /\ MmapPages - 1 - 0 + 1 = MmapPages
          BY Constants
        <5> QED  BY <5>1, FS_Interval
      <4>4. Cardinality(InUse(Heap)) <= MmapPages
        BY <4>2, <4>3, FS_Subset, Zenon
      <4>5. Cardinality(InUse(Heap)) \in Nat
        BY <1>1, InHeap, Counted
      <4> QED  BY <4>1, <4>4, <4>5, Constants
    <3> QED  BY <3>1, <3>2, <3>3, <3>4 DEF TypeOK, Span
  <2>2. UNION {Pages(s) : s \in Live} = 0 .. used_pages - 1
    <3>1. ASSUME NEW s \in Live, NEW p \in Pages(s) PROVE p \in 0 .. used_pages - 1
      <4>1. /\ p \in Start(Heap, s) .. End(Heap, s) - 1 /\ Start(Heap, s) \in Nat /\ End(Heap, s) \in Nat
            /\ End(Heap, s) <= used_pages /\ used_pages \in Nat
        BY <1>1, InHeap
      <4> QED  BY <4>1
    <3>2. ASSUME NEW p \in 0 .. used_pages - 1 PROVE \E s \in Live : p \in Pages(s)
      <4>1. PICK s \in LiveIn(Heap) : Start(Heap, s) <= p /\ p < End(Heap, s)
        BY <1>1, InHeap DEF Covered
      <4>2. s \in Live /\ p \in Pages(s)
        BY <1>1, <4>1, InHeap
      <4> QED  BY <4>2
    <3> QED  BY <3>1, <3>2
  <2>3. ASSUME NEW s \in Live, NEW t \in Live, s # t PROVE Pages(s) \cap Pages(t) = {}
    <3>1. End(Heap, s) <= Start(Heap, t) \/ End(Heap, t) <= Start(Heap, s)
      BY <1>1, <2>3, InHeap DEF Apart
    <3>2. /\ Pages(s) = Start(Heap, s) .. End(Heap, s) - 1 /\ Pages(t) = Start(Heap, t) .. End(Heap, t) - 1
          /\ Start(Heap, s) \in Nat /\ End(Heap, s) \in Nat /\ Start(Heap, t) \in Nat /\ End(Heap, t) \in Nat
      BY <1>1, InHeap
    <3> QED  BY <3>1, <3>2
  <2>4. \A s \in Live : spans[s].count > 0
    BY <1>1, InHeap DEF Shape
  <2> QED  BY <2>1, <2>2, <2>3, <2>4 DEF HeapTiled
<1>2. IInv => HeapTiled
  BY <1>1
<1> QED  BY <1>2, Invariance, PTL

\* A lookup in the map finds the right span.
THEOREM MapExact ==
  ASSUME SpanPool >= MmapPages
  PROVE  Spec => []SpanMapExact
<1>1. ASSUME IInv PROVE SpanMapExact
  <2> SUFFICES ASSUME NEW s \in Live
               PROVE  /\ span_map[spans[s].start] = s /\ span_map[last_page(spans[s])] = s
                      /\ spans[s].cached => \A p \in Pages(s) : span_map[p] = s
    BY DEF SpanMapExact
  <2>1. span_map[spans[s].start] = s /\ span_map[last_page(spans[s])] = s
    BY <1>1, InHeap DEF Mapped
  <2>2. ASSUME spans[s].cached, NEW p \in Pages(s) PROVE span_map[p] = s
    <3>1. /\ p \in Start(Heap, s) .. End(Heap, s) - 1 /\ Start(Heap, s) \in Nat /\ End(Heap, s) \in Nat
          /\ End(Heap, s) <= MmapPages /\ MmapPages \in Nat
      BY <1>1, InHeap
    <3>2. p \in Page /\ Start(Heap, s) <= p /\ p < End(Heap, s)
      BY <3>1 DEF Page
    <3> QED  BY <1>1, <2>2, <3>2, InHeap DEF Mapped
  <2> QED  BY <2>1, <2>2
<1>2. IInv => SpanMapExact
  BY <1>1
<1> QED  BY <1>2, Invariance, PTL

\* The free lists are exact, and free spans are merged.
THEOREM FreeMerged ==
  ASSUME SpanPool >= MmapPages
  PROVE  Spec => []FreeIsMerged
<1>1. ASSUME IInv PROVE FreeIsMerged
  <2>1. ASSUME NEW s \in SpanId, NEW c \in ListId
        PROVE  s \in ToSet(free_lists[c]) <=> s \in Live /\ ~spans[s].in_use /\ c = ListOf(spans[s].count)
    BY <1>1, InHeap, Constants DEF Filed
  <2>2. \A c \in ListId : Once(free_lists[c])
    BY <1>1, InHeap DEF Filed
  <2>3. ASSUME NEW s \in Live, NEW t \in Live, last_page(spans[s]) + 1 = spans[t].start
        PROVE  spans[s].in_use \/ spans[t].in_use
    <3>1. End(Heap, s) = Start(Heap, t) /\ s # Null /\ t # Null
      BY <1>1, <2>3, InHeap
    <3> QED  BY <1>1, <3>1, InHeap DEF Merged
  <2> QED  BY <2>1, <2>2, <2>3 DEF FreeIsMerged
<1>2. IInv => FreeIsMerged
  BY <1>1
<1> QED  BY <1>2, Invariance, PTL

\* A request is refused only when nowhere n pages in a row are free and the
\* block cannot grow.
THEOREM RefusedWhenFull ==
  ASSUME SpanPool >= MmapPages
  PROVE  Spec => []RefusedOnlyWhenFull
<1>1. ASSUME IInv PROVE RefusedOnlyWhenFull
  <2> SUFFICES ASSUME NEW n \in Requests \cup CachedRequests, Existing(Searched(Heap, n), n) = Null
               PROVE  /\ sbrk(Heap, n) = Heap
                      /\ \A p \in 0 .. used_pages - n :
                           \E s \in Live : spans[s].in_use /\ Pages(s) \cap (p .. p + n - 1) # {}
    BY DEF RefusedOnlyWhenFull
  <2>1. n \in Nat \ {0}
    BY HeapAssumption
  <2>2. Good(Heap)
    BY <1>1 DEF IInv
  <2>3. sbrk(Heap, n) = Heap /\ ~FreeWith(Heap, n)
    BY <2>1, <2>2, SearchedIs
  <2>4. ASSUME NEW p \in 0 .. used_pages - n
        PROVE  \E s \in Live : spans[s].in_use /\ Pages(s) \cap (p .. p + n - 1) # {}
    <3>1. used_pages \in Nat /\ p \in Nat /\ p \in 0 .. used_pages - 1 /\ p + n <= used_pages
      BY <1>1, <2>1, <2>4, InHeap
    <3>2. PICK s \in Live : Start(Heap, s) <= p /\ p < End(Heap, s)
      BY <1>1, <3>1, InHeap DEF Covered
    <3>3. /\ Start(Heap, s) \in Nat /\ End(Heap, s) \in Nat /\ Pages(s) = Start(Heap, s) .. End(Heap, s) - 1
          /\ s \in LiveIn(Heap) /\ spans[s].count = End(Heap, s) - Start(Heap, s)
      BY <1>1, InHeap, Bounds
    <3>4. CASE spans[s].in_use
      <4>1. p \in Pages(s) /\ p \in p .. p + n - 1
        BY <2>1, <3>1, <3>2, <3>3
      <4> QED  BY <3>4, <4>1
    <3>5. CASE ~spans[s].in_use
      <4>1. ~(spans[s].count >= n)
        BY <1>1, <2>3, <3>3, <3>5, InHeap DEF FreeWith
      <4>2. End(Heap, s) < p + n
        BY <2>1, <3>1, <3>2, <3>3, <4>1
      <4>3. PICK t \in LiveIn(Heap) : t # s /\ Start(Heap, t) = End(Heap, s)
        <5>1. End(Heap, s) < Heap.brk
          BY <1>1, <2>1, <3>1, <3>3, <4>2, InHeap
        <5> QED  BY <1>1, <3>3, <5>1, InHeap, NextSpan
      <4>4. t \in Live /\ spans[t].in_use
        BY <1>1, <3>3, <3>5, <4>3, InHeap DEF Merged
      <4>5. End(Heap, s) \in Pages(t)
        BY <1>1, <3>3, <4>3, <4>4, InHeap
      <4>6. End(Heap, s) \in p .. p + n - 1
        BY <2>1, <3>1, <3>2, <3>3, <4>2
      <4> QED  BY <4>4, <4>5, <4>6
    <3> QED  BY <3>4, <3>5
  <2> QED  BY <2>3, <2>4
<1>2. IInv => RefusedOnlyWhenFull
  BY <1>1
<1> QED  BY <1>2, Invariance, PTL

\* With a structure for every page, used_size is the number of pages in use.
THEOREM UsedExact ==
  ASSUME SpanPool >= MmapPages
  PROVE  Spec => []UsedIsInUse
<1>1. ASSUME IInv PROVE UsedIsInUse
  <2>1. used_size = Cardinality(InUse(Heap))
    BY <1>1, InHeap DEF IInv, Good
  <2>2. UNION {Pages(s) : s \in {t \in Live : spans[t].in_use}} = InUse(Heap)
    BY <1>1, SameInUse
  <2> QED  BY <2>1, <2>2 DEF UsedIsInUse
<1>2. IInv => UsedIsInUse
  BY <1>1
<1> QED  BY <1>2, Invariance, PTL
-----------------------------------------------------------------------------
(* What the callers see *)

Runs(h) == {Start(h, s) .. End(h, s) - 1 : s \in Held(h)}

LEMMA OwnedIs ==
  IInv => {Pages(s) : s \in {t \in Live : spans[t].in_use}} = Runs(Heap)
<1> SUFFICES ASSUME IInv PROVE {Pages(s) : s \in {t \in Live : spans[t].in_use}} = Runs(Heap)
  OBVIOUS
<1>1. {t \in Live : spans[t].in_use} = Held(Heap)
  BY InHeap DEF Held
<1>2. \A s \in Held(Heap) : Pages(s) = Start(Heap, s) .. End(Heap, s) - 1
  BY InHeap DEF Held
<1> QED  BY <1>1, <1>2 DEF Runs

LEMMA HeldApart ==
  ASSUME NEW h, Good(h)
  PROVE  /\ \A s \in Held(h) : /\ Start(h, s) \in Nat /\ End(h, s) \in Nat /\ Start(h, s) < End(h, s)
                               /\ End(h, s) <= MmapPages
                               /\ Start(h, s) \in Start(h, s) .. End(h, s) - 1
         /\ \A s, t \in Held(h) : s # t =>
              (Start(h, s) .. End(h, s) - 1) \cap (Start(h, t) .. End(h, t) - 1) = {}
<1>1. Shape(h) /\ Apart(h) /\ \A s \in Held(h) : s \in LiveIn(h)
  BY DEF Good, Sound, Loose, Held
<1>2. ASSUME NEW s \in Held(h)
      PROVE  /\ Start(h, s) \in Nat /\ End(h, s) \in Nat /\ Start(h, s) < End(h, s) /\ End(h, s) <= MmapPages
             /\ Start(h, s) \in Start(h, s) .. End(h, s) - 1
  <2>1. /\ Start(h, s) \in Nat /\ End(h, s) \in Nat /\ Start(h, s) < End(h, s) /\ End(h, s) <= h.brk
        /\ h.brk \in Nat /\ h.brk <= MmapPages
    BY <1>1, Bounds
  <2> QED  BY <2>1, Constants
<1>3. ASSUME NEW s \in Held(h), NEW t \in Held(h), s # t
      PROVE  (Start(h, s) .. End(h, s) - 1) \cap (Start(h, t) .. End(h, t) - 1) = {}
  <2>1. End(h, s) <= Start(h, t) \/ End(h, t) <= Start(h, s)
    BY <1>1, <1>3 DEF Apart
  <2>2. Start(h, s) \in Nat /\ End(h, s) \in Nat /\ Start(h, t) \in Nat /\ End(h, t) \in Nat
    BY <1>2
  <2> QED  BY <2>1, <2>2
<1> QED  BY <1>2, <1>3

LEMMA GainIsGrant ==
  ASSUME NEW h, NEW k, Good(k), NEW s, NEW n \in Nat \ {0}, Gains(h, k, s, n)
  PROVE  \E p \in 0 .. MmapPages - n :
           /\ \A o \in Runs(h) : o \cap (p .. p + n - 1) = {}
           /\ Runs(k) = Runs(h) \cup {p .. p + n - 1}
<1> DEFINE p == Start(k, s)
<1>1. /\ Held(k) = Held(h) \cup {s} /\ s \notin Held(h) /\ End(k, s) = p + n
      /\ \A u \in Held(h) : Start(k, u) = Start(h, u) /\ End(k, u) = End(h, u)
  BY DEF Gains
<1>2. p \in Nat /\ End(k, s) \in Nat /\ End(k, s) <= MmapPages
  BY <1>1, HeldApart
<1> HIDE DEF p
<1>3. p \in 0 .. MmapPages - n /\ p .. p + n - 1 = p .. End(k, s) - 1
  BY <1>1, <1>2, Constants
<1>4. \A u \in Held(h) : (Start(h, u) .. End(h, u) - 1) \cap (p .. p + n - 1) = {}
  BY <1>1, <1>3, HeldApart DEF p
<1>5. Runs(k) = Runs(h) \cup {p .. p + n - 1}
  <2>1. \A u \in Held(h) : Start(k, u) .. End(k, u) - 1 = Start(h, u) .. End(h, u) - 1
    BY <1>1
  <2>2. Start(k, s) .. End(k, s) - 1 = p .. p + n - 1
    BY <1>3 DEF p
  <2> QED  BY <1>1, <2>1, <2>2 DEF Runs
<1>6. \A o \in Runs(h) : o \cap (p .. p + n - 1) = {}
  BY <1>4 DEF Runs
<1> QED  BY <1>3, <1>5, <1>6

LEMMA LossIsGiveBack ==
  ASSUME NEW h, Good(h), NEW k, NEW s, Loses(h, k, s)
  PROVE  \E o \in Runs(h) : Runs(k) = Runs(h) \ {o}
<1> DEFINE o == Start(h, s) .. End(h, s) - 1
<1>1. /\ s \in Held(h) /\ Held(k) = Held(h) \ {s}
      /\ \A u \in Held(k) : Start(k, u) .. End(k, u) - 1 = Start(h, u) .. End(h, u) - 1
  BY DEF Loses
<1>2. o \in Runs(h)
  BY <1>1 DEF Runs
<1>3. \A u \in Held(h) \ {s} : Start(h, u) .. End(h, u) - 1 # o
  <2> TAKE u \in Held(h) \ {s}
  <2>1. /\ Start(h, s) \in Start(h, s) .. End(h, s) - 1
        /\ (Start(h, s) .. End(h, s) - 1) \cap (Start(h, u) .. End(h, u) - 1) = {}
    BY <1>1, HeldApart
  <2> QED  BY <2>1
<1> HIDE DEF o
<1>4. Runs(k) = {Start(h, u) .. End(h, u) - 1 : u \in Held(h) \ {s}}
  BY <1>1 DEF Runs
<1>5. Runs(k) = Runs(h) \ {o}
  <2>1. ASSUME NEW r \in Runs(k) PROVE r \in Runs(h) /\ r # o
    BY <1>3, <1>4 DEF Runs
  <2>2. ASSUME NEW r \in Runs(h), r # o PROVE r \in Runs(k)
    BY <1>1, <1>4, <2>2 DEF Runs, o
  <2> QED  BY <2>1, <2>2
<1> QED  BY <1>2, <1>5

\* The page heap implements PageOwners: whoever asks for n pages is given n
\* pages in a row that nobody has, and keeps them until giving them back.
THEOREM RefinesOwners ==
  ASSUME SpanPool >= MmapPages
  PROVE  Spec => ImplementsOwners
<1> DEFINE owned == {Pages(s) : s \in {t \in Live : spans[t].in_use}}
<1>1. Init => Owners!Init
  <2> SUFFICES ASSUME Init PROVE owned = {}
    BY DEF Owners!Init
  <2>1. \A s \in SpanId : ~spans[s].live
    BY DEF Init, Dead
  <2> QED  BY <2>1 DEF Live
<1>2. IInv /\ [Next]_vars => [Owners!Next]_owned
  <2> SUFFICES ASSUME IInv, [Next]_vars PROVE [Owners!Next]_owned
    OBVIOUS
  <2>1. /\ IInv'
        /\ \/ Keeps(Heap, Heap')
           \/ \E n \in Requests \cup CachedRequests, s \in SpanId : Gains(Heap, Heap', s, n)
           \/ \E s \in SpanId : Loses(Heap, Heap', s)
    BY NextGood
  <2>2. owned = Runs(Heap)
    BY OwnedIs
  <2>3. owned' = Runs(Heap')
    <3>1. (IInv => {Pages(s) : s \in {t \in Live : spans[t].in_use}} = Runs(Heap))'
      BY OwnedIs, PTL
    <3> QED  BY <2>1, <3>1
  <2>4. Good(Heap) /\ Good(Heap')
    BY <2>1 DEF IInv
  <2>5. CASE Keeps(Heap, Heap')
    <3>1. Runs(Heap') = Runs(Heap)
      BY <2>5 DEF Keeps, Runs
    <3> QED  BY <2>2, <2>3, <3>1
  <2>6. CASE \E n \in Requests \cup CachedRequests, s \in SpanId : Gains(Heap, Heap', s, n)
    <3>1. PICK n \in Requests \cup CachedRequests, s \in SpanId : Gains(Heap, Heap', s, n)
      BY <2>6
    <3>2. n \in Nat \ {0}
      BY HeapAssumption
    <3>3. PICK p \in 0 .. MmapPages - n :
            /\ \A o \in Runs(Heap) : o \cap (p .. p + n - 1) = {}
            /\ Runs(Heap') = Runs(Heap) \cup {p .. p + n - 1}
      BY <2>4, <3>1, <3>2, GainIsGrant
    <3> HIDE DEF owned
    <3>4. Owners!Grant(n)
      BY <2>2, <2>3, <3>3 DEF Owners!Grant, Owners!Run, owned
    <3> QED  BY <3>4 DEF Owners!Next
  <2>7. CASE \E s \in SpanId : Loses(Heap, Heap', s)
    <3>1. \E o \in Runs(Heap) : Runs(Heap') = Runs(Heap) \ {o}
      BY <2>4, <2>7, LossIsGiveBack
    <3>2. Owners!GiveBack
      BY <2>2, <2>3, <3>1 DEF Owners!GiveBack
    <3> QED  BY <3>2 DEF Owners!Next
  <2> QED  BY <2>1, <2>5, <2>6, <2>7
<1> HIDE DEF owned
<1> QED  BY <1>1, <1>2, Invariance, PTL DEF Spec, ImplementsOwners, Owners!Spec, owned
=============================================================================
