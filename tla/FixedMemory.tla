----------------------------- MODULE FixedMemory -----------------------------
(***************************************************************************)
(* The bitmap of fixed size (container/fixed_bitmap.h) and strings of      *)
(* fixed capacity (container/fixed_string.h), which keep what they hold in *)
(* an array of their own, and the stack in memory it is given              *)
(* (container/extensible_stack.h): what is beyond the last bit, character  *)
(* or item must show nowhere.  A behaviour is of one of the three.         *)
(***************************************************************************)
EXTENDS Integers, Sequences, SequencesExt, FiniteSets, FiniteSetsExt

CONSTANTS
  BitCount,   \* N of the bitmap
  WORD_BITS,
  Chars,      \* characters, 0 among them
  Capacity,   \* N of each of the two strings
  StackValues,
  MaxCounts   \* capacities create() is called with; the memory is enough for each

VARIABLES
  c,    \* the words of the bitmap; size_ and memory_ of each string; or the
        \* memory of the stack, and whether the process has it
  ref   \* the positions that should be set; or what each string or the stack should hold
------------------------------------------------------------------------------
(* The bitmap.  A word is the set of its bits that are one.  The last word *)
(* has bits that stand for nothing: count(), all() and find_first() rely   *)
(* on their being zero.                                                    *)

WORD_COUNT == (BitCount + WORD_BITS - 1) \div WORD_BITS
EXTRA_BITS == BitCount % WORD_BITS
WASTE_BITS == IF EXTRA_BITS = 0 THEN 0 ELSE WORD_BITS - EXTRA_BITS

Word == 0 .. WORD_COUNT - 1
Pos == 0 .. BitCount - 1
WORD_ZERO == {}
WORD_FULL == 0 .. WORD_BITS - 1

ShiftLeft(w, n) == {b + n : b \in w} \cap WORD_FULL
ShiftRight(w, n) == {b - n : b \in {x \in w : x >= n}}
Not(w) == WORD_FULL \ w
Bit(pos) == ShiftLeft({0}, pos % WORD_BITS)
WordOf(pos) == pos \div WORD_BITS

BitmapInit == c = [i \in Word |-> WORD_ZERO] /\ ref = {}

\* The last word without its extra bits.
Masked(ws) == [ws EXCEPT ![WORD_COUNT - 1] = @ \cap Not(ShiftLeft(WORD_FULL, EXTRA_BITS))]

set_all ==
  /\ \E full \in {[i \in Word |-> WORD_FULL]} : c' = IF EXTRA_BITS # 0 THEN Masked(full) ELSE full
  /\ ref' = Pos

\* The positions of the last word, if it has no bits to spare.  flip() masks
\* the word all the same, with a shift by 0, and all of them are lost.
Lost == IF EXTRA_BITS = 0 THEN {pos \in Pos : WordOf(pos) = WORD_COUNT - 1} ELSE {}

flip_all == c' = Masked([i \in Word |-> Not(c[i])]) /\ ref' = (Pos \ ref) \ Lost

reset_all == c' = [i \in Word |-> WORD_ZERO] /\ ref' = {}

set(pos) == c' = [c EXCEPT ![WordOf(pos)] = @ \cup Bit(pos)] /\ ref' = ref \cup {pos}
reset(pos) == c' = [c EXCEPT ![WordOf(pos)] = @ \cap Not(Bit(pos))] /\ ref' = ref \ {pos}
flip(pos) ==
  /\ c' = [c EXCEPT ![WordOf(pos)] = SymDiff(@, Bit(pos))]
  /\ ref' = IF pos \in ref THEN ref \ {pos} ELSE ref \cup {pos}

BitmapNext == set_all \/ flip_all \/ reset_all \/ \E pos \in Pos : set(pos) \/ reset(pos) \/ flip(pos)

test(pos) == c[WordOf(pos)] \cap Bit(pos) # WORD_ZERO
count == MapThenSumSet(LAMBDA i : Cardinality(c[i]), Word)
all == /\ \A i \in Word \ {WORD_COUNT - 1} : c[i] = WORD_FULL
       /\ c[WORD_COUNT - 1] = ShiftRight(WORD_FULL, WASTE_BITS)
any == \E i \in Word : c[i] # WORD_ZERO
find_first ==
  LET some == {i \in Word : c[i] # WORD_ZERO} IN
  IF some = {} THEN BitCount ELSE Min(some) * WORD_BITS + Min(c[Min(some)])

\* The bitmap answers every question as the set of positions would, after
\* whole words have been set or flipped, with bits to spare in the last word
\* and without; flip() is the complement except for the positions it loses
\* when there are none to spare.
BitmapSound ==
  /\ \A pos \in Pos : test(pos) <=> pos \in ref
  /\ count = Cardinality(ref)
  /\ all <=> ref = Pos
  /\ any <=> ref # {}
  /\ find_first = IF ref = {} THEN BitCount ELSE Min(ref)
------------------------------------------------------------------------------
(* Two strings that are assigned from outside and from each other.  A      *)
(* character is a number, 0 the one that ends a C string; a std::string    *)
(* may hold it anywhere.                                                   *)

Which == DOMAIN Capacity
MaxText == 2
Texts == UNION {[1 .. n -> Chars] : n \in 0 .. MaxText}
Uninitialised == -1
StringMin(a, b) == IF a < b THEN a ELSE b

\* copy(), to an array dst: the text is cut to leave room for the end.
Copied(dst, capacity, text) ==
  LET len == StringMin(capacity - 1, Len(text))
  IN  [size |-> len,
       memory |-> [k \in DOMAIN dst |-> IF k <= len THEN text[k] ELSE IF k = len + 1 THEN 0 ELSE dst[k]]]

\* strlen() of a C string
CString(text) == LET ends == SelectInSeq(text, LAMBDA x : x = 0)
                 IN  IF ends = 0 THEN text ELSE SubSeq(text, 1, ends - 1)

Text(s) == SubSeq(s.memory, 1, s.size)

StringInit ==
  /\ c = [k \in Which |-> [size |-> 0, memory |-> [p \in 1 .. Capacity[k] |-> IF p = 1 THEN 0 ELSE Uninitialised]]]
  /\ ref = [k \in Which |-> <<>>]

Assigns(k, text) ==
  /\ c' = [c EXCEPT ![k] = Copied(@.memory, Capacity[k], text)]
  /\ ref' = [ref EXCEPT ![k] = SubSeq(text, 1, StringMin(Len(text), Capacity[k] - 1))]

assign_string(k, text) == Assigns(k, text)
assign_cstr(k, text) == Assigns(k, CString(text))
assign_fixed(k, from) == Assigns(k, Text(c[from]))
clear(k) == c' = [c EXCEPT ![k].size = 0, ![k].memory[1] = 0] /\ ref' = [ref EXCEPT ![k] = <<>>]

StringNext ==
  \E k \in Which :
    \/ \E text \in Texts : assign_string(k, text) \/ assign_cstr(k, text)
    \/ \E from \in Which : assign_fixed(k, from)
    \/ clear(k)

eq(a, b) == a.size = b.size /\ \A k \in 1 .. a.size : a.memory[k] = b.memory[k]

\* strncmp() of the common length: the first difference before an end decides.
strncmp(a, b, n) ==
  LET differ == {k \in 1 .. n : a[k] # b[k] /\ \A j \in 1 .. k - 1 : a[j] # 0}
  IN  IF differ = {} THEN 0
      ELSE LET k == CHOOSE k \in differ : \A j \in differ : k <= j IN a[k] - b[k]

\* compare() < 0
less(a, b) ==
  LET ret == strncmp(a.memory, b.memory, StringMin(a.size, b.size))
  IN  IF ret # 0 THEN ret < 0 ELSE a.size < b.size

\* Each string holds what it was given as far as it has room, with the end
\* after it and never beyond its array, however short the text it held
\* before; what c_str() shows is the same up to its first 0.  Strings without
\* a 0 in them are ordered: exactly one of a < b, b < a and a == b.
StringSound ==
  /\ \A k \in Which : /\ Text(c[k]) = ref[k] /\ c[k].size < Capacity[k]
                      /\ CString(c[k].memory) = CString(ref[k])
  /\ \A a, b \in Which :
       /\ eq(c[a], c[b]) <=> ref[a] = ref[b]
       /\ 0 \notin ToSet(ref[a]) \cup ToSet(ref[b]) =>
            /\ ~(less(c[a], c[b]) /\ less(c[b], c[a]))
            /\ eq(c[a], c[b]) <=> ~less(c[a], c[b]) /\ ~less(c[b], c[a])
------------------------------------------------------------------------------
(* The stack.  Its memory outlives the process: create() with resume finds *)
(* the stack as it was, if it is asked for with the capacity it was made   *)
(* with.                                                                   *)

NoItem == "none"
LargestCount == CHOOSE n \in MaxCounts : \A m \in MaxCounts : m <= n

StackInit ==
  /\ c = [attached |-> FALSE, used_count |-> 0, total_count |-> 0,
          data |-> [k \in 1 .. LargestCount |-> NoItem]]
  /\ ref = <<>>

create(max_count, resume) ==
  /\ ~c.attached
  /\ IF resume THEN c' = [c EXCEPT !.attached = (c.total_count = max_count)] /\ UNCHANGED ref
     ELSE c' = [c EXCEPT !.attached = TRUE, !.used_count = 0, !.total_count = max_count] /\ ref' = <<>>

\* The process ends.
Detach == c.attached /\ c' = [c EXCEPT !.attached = FALSE] /\ UNCHANGED ref

empty == c.used_count <= 0
full == c.used_count >= c.total_count

push(x) ==
  /\ c.attached
  /\ c' = IF full THEN c ELSE [c EXCEPT !.data[c.used_count + 1] = x, !.used_count = @ + 1]
  /\ ref' = IF Len(ref) < c.total_count THEN Append(ref, x) ELSE ref

top == IF empty THEN NoItem ELSE c.data[c.used_count]

pop ==
  /\ c.attached
  /\ c' = IF top = NoItem THEN c ELSE [c EXCEPT !.used_count = @ - 1]
  /\ ref' = IF ref = <<>> THEN ref ELSE Front(ref)

StackNext ==
  \/ \E n \in MaxCounts, resume \in BOOLEAN : create(n, resume)
  \/ \E x \in StackValues : push(x)
  \/ pop \/ Detach

\* A process that has the stack finds in it what was pushed and not popped, by
\* it and by those it resumed, and no more than there is room for.
StackSound ==
  c.attached =>
    /\ c.used_count = Len(ref) /\ \A k \in 1 .. Len(ref) : c.data[k] = ref[k]
    /\ top = IF ref = <<>> THEN NoItem ELSE Last(ref)
    /\ Len(ref) <= c.total_count
==============================================================================
