---------------------------- MODULE ChannelProofs ----------------------------
(***************************************************************************)
(* Proofs about the channel, for a ring of any size, any messages and any  *)
(* number of crashes.  The invariant that makes the ring safe, IInv, says  *)
(* that the unread messages tile the ring from read_pos to write_pos and   *)
(* are stored there whole, that a push in progress still has the room it   *)
(* found, and what each half-finished call has copied so far.  The lemmas  *)
(* come in three groups: arithmetic of ring positions, where the units of  *)
(* a message lie, and one lemma per action.                                *)
(***************************************************************************)
EXTENDS Channel, FiniteSetTheorems, TLAPS

------------------------------------------------------------------------------
(* The inductive invariant *)

\* Nodes from r forward to p.
Gap(r, p) == IF p >= r THEN p - r ELSE p - r + NodeCount
UsedNodes == Gap(read_pos, write_pos)
Dist(i) == Gap(read_pos, log[i].at)

\* The unit that holds payload unit j of a message put at node p.
Slot(p, j) ==
  IF Base(p) + HeadSize + j < RingSize
  THEN Base(p) + HeadSize + j ELSE Base(p) + HeadSize + j - RingSize

\* Memory c holds, for a message m put at node p, its header, its first n
\* payload units, all of it.
HeadStored(c, p, m) == c[Base(p)] = HeadCell(m, 0)
PartStored(c, p, m, n) == \A j \in 0 .. n - 1 : c[Slot(p, j)] = DataCell(m, j)
Stored(c, p, m) == HeadStored(c, p, m) /\ PartStored(c, p, m, Length[m])

Oldest == log[nread + 1].msg

\* Unread messages lie one after another from read_pos to write_pos.
Tiling ==
  /\ nread = Len(log) => UsedNodes = 0
  /\ nread < Len(log) => Dist(nread + 1) = 0
  /\ \A i \in Unread : i < Len(log) => Dist(i + 1) = Dist(i) + Need(log[i].msg)
  /\ nread < Len(log) => Dist(Len(log)) + Need(log[Len(log)].msg) = UsedNodes
  /\ \A i \in Unread : Dist(i) + Need(log[i].msg) <= UsedNodes
  /\ \A i, k \in Unread : i < k => Dist(i) + Need(log[i].msg) <= Dist(k)

Pushing == ppc \in {"copy", "wrap", "head", "publish"}

\* The space a push found stays free until it publishes.
Room == Pushing => UsedNodes + Need(pmsg) <= NodeCount - 1

UnreadStored == \A i \in Unread : Stored(cells, log[i].at, log[i].msg)

PushProgress ==
  /\ ppc = "wrap" => /\ LoopsBack(write_pos, PNew)
                     /\ PartStored(cells, write_pos, pmsg, FirstPart(write_pos))
  /\ ppc \in {"head", "publish"} => PartStored(cells, write_pos, pmsg, Length[pmsg])
  /\ ppc = "publish" => HeadStored(cells, write_pos, pmsg)

PopProgress ==
  /\ cpc \in {"head", "copy", "wrap", "publish"} => nread < Len(log)
  /\ cpc \in {"copy", "wrap", "publish"} => cnew = Advance(read_pos, Need(Oldest))
  /\ cpc = "wrap" =>
       /\ LoopsBack(read_pos, cnew)
       /\ cbuf = [j \in 0 .. FirstPart(read_pos) - 1 |-> DataCell(Oldest, j)]
  /\ cpc = "publish" /\ cdata => Intact(cbuf, Oldest)

IInv ==
  /\ TypeOK
  /\ NoAssertionFails
  /\ Tiling
  /\ Room
  /\ UnreadStored
  /\ PushProgress
  /\ PopProgress
------------------------------------------------------------------------------
(* Arithmetic *)

\* Remainders of numbers below twice the modulus.
LEMMA ModSmall ==
  ASSUME NEW x \in Int, NEW n \in Nat \ {0}
  PROVE  /\ x % n \in 0 .. n - 1
         /\ 0 <= x /\ x < n => x % n = x
         /\ n <= x /\ x < 2 * n => x % n = x - n
<1>1. x % n \in 0 .. n - 1
  OBVIOUS
<1>2. x = n * (x \div n) + (x % n)
  OBVIOUS
<1>3. ASSUME 0 <= x, x < n PROVE x % n = x
  BY <1>3, SMT
<1>4. ASSUME n <= x, x < 2 * n PROVE x % n = x - n
  <2>1. x \div n = 1
    BY <1>1, <1>2, <1>4
  <2> QED BY <1>2, <2>1
<1> QED BY <1>1, <1>3, <1>4

\* Blocks of s units that start at different multiples of s are disjoint.
LEMMA MulMono ==
  ASSUME NEW p \in Nat, NEW q \in Nat, NEW s \in Nat, p < q
  PROVE  p * s + s <= q * s
<1>1. (q - p - 1) * s >= 0
  OBVIOUS
<1>2. (q - p - 1) * s = q * s - p * s - s
  OBVIOUS
<1> QED BY <1>1, <1>2

\* __calc_node_count gives the least number of nodes that hold the message.
LEMMA NodesOfSpan ==
  ASSUME NEW len \in Nat \ {0}
  PROVE  /\ NodesOf(len) \in Nat \ {0}
         /\ HeadSize + len <= NodesOf(len) * NodeSize
         /\ (NodesOf(len) - 1) * NodeSize < HeadSize + len
<1>0. HeadSize \in Nat \ {0} /\ NodeSize \in Nat \ {0}
  BY ChannelAssumption
<1>1. PICK x \in Nat : x = HeadSize + len - 1
  BY <1>0
<1>2. PICK q \in Nat : q = x \div NodeSize
  BY <1>0
<1>3. x = NodeSize * q + (x % NodeSize) /\ x % NodeSize \in 0 .. NodeSize - 1
  BY <1>0, <1>2
<1>4. NodesOf(len) = q + 1
  BY <1>1, <1>2 DEF NodesOf
<1>5. (q + 1) * NodeSize = NodeSize * q + NodeSize
  BY <1>0
<1> QED BY <1>0, <1>1, <1>3, <1>4, <1>5

\* A message's nodes: a natural number, at least one, whose units hold the
\* header and the payload while one node fewer would not.
LEMMA NeedSpan ==
  ASSUME NEW m \in Msg
  PROVE  /\ Length[m] \in Nat \ {0}
         /\ Need(m) \in Nat \ {0}
         /\ HeadSize + Length[m] <= Need(m) * NodeSize
         /\ (Need(m) - 1) * NodeSize < HeadSize + Length[m]
<1>1. Length[m] \in Nat \ {0}
  BY ChannelAssumption
<1> QED BY <1>1, NodesOfSpan DEF Need

\* Positions in the ring, without the remainder.
LEMMA AdvanceValue ==
  ASSUME NEW p \in Node, NEW k \in Nat, k <= NodeCount
  PROVE  /\ Advance(p, k) \in Node
         /\ Advance(p, k) = IF p + k < NodeCount THEN p + k ELSE p + k - NodeCount
<1>1. NodeCount \in Nat \ {0} /\ NodeCount > 1
  BY ChannelAssumption
<1>2. PICK x \in Int : x = p + k
  BY DEF Node
<1>3. 0 <= x /\ x < 2 * NodeCount
  BY <1>1, <1>2 DEF Node
<1>4. /\ x < NodeCount => x % NodeCount = x
      /\ NodeCount <= x => x % NodeCount = x - NodeCount
  BY <1>1, <1>3, ModSmall
<1>5. Advance(p, k) = x % NodeCount
  BY <1>2 DEF Advance
<1> QED BY <1>1, <1>2, <1>3, <1>4, <1>5 DEF Node

\* A position moved forward is a position.
LEMMA AdvanceType ==
  ASSUME NEW p \in Node, NEW k \in Nat
  PROVE  Advance(p, k) \in Node
<1>1. NodeCount \in Nat \ {0} /\ p + k \in Int
  BY ChannelAssumption DEF Node
<1>2. (p + k) % NodeCount \in 0 .. NodeCount - 1
  BY <1>1, ModSmall
<1> QED BY <1>2 DEF Advance, Node

\* Distances in the ring are below its size.
LEMMA GapType ==
  ASSUME NEW r \in Node, NEW p \in Node
  PROVE  Gap(r, p) \in 0 .. NodeCount - 1 /\ Gap(r, r) = 0
BY ChannelAssumption DEF Gap, Node

\* The remainder by which the model measures a distance.
LEMMA GapMod ==
  ASSUME NEW r \in Node, NEW p \in Node
  PROVE  (p - r + NodeCount) % NodeCount = Gap(r, p)
<1>1. NodeCount \in Nat \ {0} /\ NodeCount > 1
  BY ChannelAssumption
<1>2. PICK x \in Int : x = p - r + NodeCount
  BY <1>1 DEF Node
<1>3. 0 <= x /\ x < 2 * NodeCount
  BY <1>1, <1>2 DEF Node
<1>4. /\ x < NodeCount => x % NodeCount = x
      /\ NodeCount <= x => x % NodeCount = x - NodeCount
  BY <1>1, <1>3, ModSmall
<1> QED BY <1>1, <1>2, <1>3, <1>4 DEF Gap, Node

\* Two positions at the same distance from the reader are one.
LEMMA GapInjective ==
  ASSUME NEW r \in Node, NEW p \in Node, NEW q \in Node, Gap(r, p) = Gap(r, q)
  PROVE  p = q
BY ChannelAssumption DEF Gap, Node

\* Moving forward adds to the distance from the reader, short of a full turn.
LEMMA GapAdvance ==
  ASSUME NEW r \in Node, NEW p \in Node, NEW k \in Nat,
         Gap(r, p) + k <= NodeCount - 1
  PROVE  Gap(r, Advance(p, k)) = Gap(r, p) + k
<1>1. NodeCount \in Nat /\ NodeCount > 1
  BY ChannelAssumption
<1>2. k <= NodeCount
  BY <1>1 DEF Gap, Node
<1>3. /\ Advance(p, k) \in Node
      /\ Advance(p, k) = IF p + k < NodeCount THEN p + k ELSE p + k - NodeCount
  BY <1>2, AdvanceValue
<1> QED BY <1>1, <1>2, <1>3 DEF Gap, Node

\* A reader that moves forward comes nearer to everything ahead of it.
LEMMA GapShift ==
  ASSUME NEW r \in Node, NEW p \in Node, NEW k \in Nat, k <= Gap(r, p)
  PROVE  Gap(Advance(r, k), p) = Gap(r, p) - k
<1>1. NodeCount \in Nat /\ NodeCount > 1
  BY ChannelAssumption
<1>2. k <= NodeCount
  BY <1>1 DEF Gap, Node
<1>3. /\ Advance(r, k) \in Node
      /\ Advance(r, k) = IF r + k < NodeCount THEN r + k ELSE r + k - NodeCount
  BY <1>2, AdvanceValue
<1> QED BY <1>1, <1>2, <1>3 DEF Gap, Node

\* The free space the code computes.
LEMMA AvailableValue ==
  ASSUME read_pos \in Node, write_pos \in Node
  PROVE  Available = NodeCount - 1 - UsedNodes
<1>1. NodeCount \in Nat \ {0} /\ NodeCount > 1
  BY ChannelAssumption
<1>2. PICK x \in Int : x = read_pos - write_pos + NodeCount - 1
  BY <1>1 DEF Node
<1>3. 0 <= x /\ x < 2 * NodeCount
  BY <1>1, <1>2 DEF Node
<1>4. /\ x < NodeCount => x % NodeCount = x
      /\ NodeCount <= x => x % NodeCount = x - NodeCount
  BY <1>1, <1>3, ModSmall
<1>5. Available = x % NodeCount
  BY <1>2 DEF Available
<1> QED BY <1>1, <1>2, <1>3, <1>4, <1>5 DEF UsedNodes, Gap, Node
------------------------------------------------------------------------------
(* Addresses *)

\* Unit a belongs to node p.
InNode(a, p) == Base(p) <= a /\ a < Base(p) + NodeSize

\* A node's units lie inside the ring.
LEMMA BaseType ==
  ASSUME NEW p \in Node
  PROVE  /\ Base(p) \in Nat /\ RingSize \in Nat
         /\ Base(p) + NodeSize <= RingSize
         /\ InNode(Base(p), p)
<1>1. p \in Nat /\ NodeCount \in Nat /\ NodeSize \in Nat \ {0} /\ p < NodeCount
  BY ChannelAssumption DEF Node
<1>2. p * NodeSize \in Nat /\ NodeCount * NodeSize \in Nat
  BY <1>1
<1>3. p * NodeSize + NodeSize <= NodeCount * NodeSize
  BY <1>1, MulMono
<1> QED BY <1>1, <1>2, <1>3 DEF Base, RingSize, InNode

\* A unit belongs to one node only.
LEMMA OneNode ==
  ASSUME NEW p \in Node, NEW q \in Node, NEW a \in Int, InNode(a, p), InNode(a, q)
  PROVE  p = q
<1>1. p \in Nat /\ q \in Nat /\ NodeSize \in Nat
  BY ChannelAssumption DEF Node
<1>2. p < q => Base(p) + NodeSize <= Base(q)
  BY <1>1, MulMono DEF Base
<1>3. q < p => Base(q) + NodeSize <= Base(p)
  BY <1>1, MulMono DEF Base
<1>4. Base(p) \in Nat /\ Base(q) \in Nat
  BY BaseType
<1> QED BY <1>1, <1>2, <1>3, <1>4 DEF InNode

\* Every payload unit of a message lies in one of the message's nodes.
LEMMA SlotNode ==
  ASSUME NEW p \in Node, NEW m \in Msg, Need(m) <= NodeCount,
         NEW j \in 0 .. Length[m] - 1
  PROVE  /\ Slot(p, j) \in Unit
         /\ \E d \in 0 .. Need(m) - 1 : InNode(Slot(p, j), Advance(p, d))
<1>0. /\ HeadSize \in Nat \ {0} /\ NodeSize \in Nat \ {0} /\ NodeCount \in Nat
      /\ p \in Nat /\ p < NodeCount
  BY ChannelAssumption DEF Node
<1>1. Length[m] \in Nat \ {0} /\ Need(m) \in Nat \ {0} /\ j \in Nat
      /\ HeadSize + j < Need(m) * NodeSize
  BY <1>0, NeedSpan
<1>2. PICK x \in Nat : x = HeadSize + j
  BY <1>0, <1>1
<1>3. PICK d \in Nat : d = x \div NodeSize
  BY <1>0
<1>4. PICK u \in 0 .. NodeSize - 1 : u = x % NodeSize
  BY <1>0
<1>5. x = d * NodeSize + u
  BY <1>0, <1>3, <1>4
<1>6. d < Need(m)
  <2>1. CASE d >= Need(m)
    <3>1. Need(m) * NodeSize <= d * NodeSize
      BY <1>0, <1>1, <2>1
    <3> QED BY <1>0, <1>1, <1>2, <1>5, <3>1
  <2> QED BY <2>1, <1>1
<1>7. CASE p + d < NodeCount
  <2>1. Advance(p, d) = p + d /\ p + d \in Node
    BY <1>0, <1>1, <1>6, <1>7, AdvanceValue DEF Node
  <2>2. (p + d) * NodeSize = p * NodeSize + d * NodeSize
    BY <1>0
  <2>3. Base(p + d) = Base(p) + d * NodeSize
    BY <2>2 DEF Base
  <2>4. Base(p + d) + u = Base(p) + HeadSize + j
    BY <1>0, <1>1, <1>2, <1>5, <2>3, BaseType
  <2>5. Base(p + d) + NodeSize <= RingSize /\ Base(p + d) \in Nat /\ RingSize \in Nat
    BY <2>1, BaseType
  <2>6. Slot(p, j) = Base(p + d) + u
    BY <1>0, <2>4, <2>5 DEF Slot
  <2> QED BY <1>0, <1>1, <1>6, <2>1, <2>5, <2>6 DEF InNode, Unit
<1>8. CASE p + d >= NodeCount
  <2>1. Advance(p, d) = p + d - NodeCount /\ p + d - NodeCount \in Node
    BY <1>0, <1>1, <1>6, <1>8, AdvanceValue DEF Node
  <2>2. (p + d - NodeCount) * NodeSize = p * NodeSize + d * NodeSize - NodeCount * NodeSize
    BY <1>0
  <2>3. Base(p + d - NodeCount) = Base(p) + d * NodeSize - RingSize
    BY <2>2 DEF Base, RingSize
  <2>5. Base(p + d - NodeCount) + NodeSize <= RingSize
        /\ Base(p + d - NodeCount) \in Nat /\ RingSize \in Nat /\ Base(p) \in Nat
    BY <2>1, BaseType
  <2>6. Slot(p, j) = Base(p + d - NodeCount) + u
    BY <1>0, <1>1, <1>2, <1>5, <2>3, <2>5 DEF Slot
  <2> QED BY <1>0, <1>1, <1>6, <2>1, <2>5, <2>6 DEF InNode, Unit
<1> QED BY <1>0, <1>7, <1>8

\* A message that does not wrap lies in one stretch.
LEMMA StraightSlots ==
  ASSUME NEW p \in Node, NEW m \in Msg, Need(m) <= NodeCount - 1,
         ~LoopsBack(p, Advance(p, Need(m)))
  PROVE  /\ Base(p) + HeadSize + Length[m] <= RingSize
         /\ \A j \in 0 .. Length[m] - 1 : Slot(p, j) = Base(p) + HeadSize + j
<1>0. /\ HeadSize \in Nat \ {0} /\ NodeSize \in Nat \ {0}
      /\ NodeCount \in Nat /\ NodeCount > 1 /\ p \in Nat /\ p < NodeCount
  BY ChannelAssumption DEF Node
<1>1. Length[m] \in Nat \ {0} /\ Need(m) \in Nat \ {0}
      /\ HeadSize + Length[m] <= Need(m) * NodeSize
  BY NeedSpan
<1>2. p + Need(m) <= NodeCount
  <2>1. Advance(p, Need(m))
          = IF p + Need(m) < NodeCount THEN p + Need(m) ELSE p + Need(m) - NodeCount
    BY <1>0, <1>1, AdvanceValue
  <2> QED BY <1>0, <1>1, <2>1 DEF LoopsBack
<1>3. p * NodeSize + Need(m) * NodeSize <= NodeCount * NodeSize
  <2>1. p * NodeSize + Need(m) * NodeSize = (p + Need(m)) * NodeSize
    BY <1>0, <1>1
  <2>2. (p + Need(m)) * NodeSize <= NodeCount * NodeSize
    BY <1>0, <1>1, <1>2
  <2> QED BY <2>1, <2>2
<1>4. Base(p) + Need(m) * NodeSize <= RingSize
  BY <1>3 DEF Base, RingSize
<1>5. Base(p) \in Nat /\ RingSize \in Nat /\ Need(m) * NodeSize \in Nat
  BY <1>0, <1>1, BaseType
<1> QED BY <1>0, <1>1, <1>4, <1>5 DEF Slot

\* A message that wraps lies in two: the assertions of push() and pop() on
\* the two sizes hold, and the second part ends before the first begins.
LEMMA WrappedSlots ==
  ASSUME NEW p \in Node, NEW m \in Msg, Need(m) <= NodeCount - 1,
         LoopsBack(p, Advance(p, Need(m)))
  PROVE  /\ FirstPart(p) \in Nat
         /\ FirstPart(p) < Length[m]
         /\ Length[m] - FirstPart(p) <= Base(Advance(p, Need(m)))
         /\ Base(Advance(p, Need(m))) + NodeSize <= Base(p)
         /\ Base(p) + HeadSize + FirstPart(p) = RingSize
         /\ \A j \in 0 .. Length[m] - 1 :
              Slot(p, j) = IF j < FirstPart(p) THEN Base(p) + HeadSize + j
                                               ELSE j - FirstPart(p)
<1>0. /\ HeadSize \in Nat \ {0} /\ NodeSize \in Nat \ {0} /\ HeadSize <= NodeSize
      /\ NodeCount \in Nat /\ NodeCount > 1 /\ p \in Nat /\ p < NodeCount
  BY ChannelAssumption DEF Node
<1>1. Length[m] \in Nat \ {0} /\ Need(m) \in Nat \ {0}
      /\ HeadSize + Length[m] <= Need(m) * NodeSize
      /\ (Need(m) - 1) * NodeSize < HeadSize + Length[m]
  BY NeedSpan
<1>2. PICK q \in Nat : q = p + Need(m) - NodeCount /\ q = Advance(p, Need(m)) /\ q < p /\ q > 0
  <2>1. Advance(p, Need(m))
          = IF p + Need(m) < NodeCount THEN p + Need(m) ELSE p + Need(m) - NodeCount
    BY <1>0, <1>1, AdvanceValue
  <2> QED BY <1>0, <1>1, <2>1 DEF LoopsBack
<1>3. Base(q) + NodeSize <= Base(p)
  BY <1>0, <1>2, MulMono DEF Base
<1>4. PICK t \in Nat : t = NodeCount - p /\ t >= 1
  BY <1>0
<1>5. t * NodeSize = RingSize - Base(p) /\ FirstPart(p) = t * NodeSize - HeadSize
  <2>1. t * NodeSize = NodeCount * NodeSize - p * NodeSize
    BY <1>0, <1>4
  <2> QED BY <1>4, <2>1 DEF RingSize, Base, FirstPart
<1>6. t * NodeSize <= (Need(m) - 1) * NodeSize
  <2>1. t <= Need(m) - 1
    BY <1>0, <1>1, <1>2, <1>4
  <2> QED BY <1>0, <1>1, <2>1, <1>4
<1>7. t * NodeSize >= NodeSize
  BY <1>0, <1>4
<1>8. Base(q) = Need(m) * NodeSize - t * NodeSize
  <2>1. q = Need(m) - t
    BY <1>0, <1>1, <1>2, <1>4
  <2>2. (Need(m) - t) * NodeSize = Need(m) * NodeSize - t * NodeSize
    BY <1>0, <1>1, <1>4
  <2> QED BY <2>1, <2>2 DEF Base
<1>9. /\ Base(p) \in Nat /\ RingSize \in Nat /\ Base(q) \in Int
      /\ t * NodeSize \in Nat /\ Need(m) * NodeSize \in Nat /\ (Need(m) - 1) * NodeSize \in Nat
  BY <1>0, <1>1, <1>4, <1>2, BaseType DEF Base
<1>10. /\ FirstPart(p) \in Nat
       /\ FirstPart(p) < Length[m]
       /\ Length[m] - FirstPart(p) <= Base(q)
       /\ Base(p) + HeadSize + FirstPart(p) = RingSize
  <2>1. PICK ts \in Nat : ts = t * NodeSize
    BY <1>9
  <2>2. PICK ns \in Nat : ns = Need(m) * NodeSize
    BY <1>9
  <2>3. PICK ls \in Nat : ls = (Need(m) - 1) * NodeSize
    BY <1>9
  <2>4. /\ HeadSize + Length[m] <= ns /\ ls < HeadSize + Length[m]
        /\ ts = RingSize - Base(p) /\ FirstPart(p) = ts - HeadSize
        /\ ts <= ls /\ ts >= NodeSize /\ Base(q) = ns - ts
    BY <1>1, <1>5, <1>6, <1>7, <1>8, <2>1, <2>2, <2>3
  <2>5. Length[m] \in Nat /\ HeadSize \in Nat /\ NodeSize \in Nat /\ HeadSize <= NodeSize
        /\ Base(p) \in Nat /\ RingSize \in Nat /\ Base(q) \in Int
    BY <1>0, <1>1, <1>9
  <2> QED BY <2>4, <2>5
<1>11. ASSUME NEW j \in 0 .. Length[m] - 1
       PROVE  Slot(p, j) = IF j < FirstPart(p) THEN Base(p) + HeadSize + j
                                               ELSE j - FirstPart(p)
  BY <1>0, <1>1, <1>9, <1>10 DEF Slot
<1> QED BY <1>2, <1>3, <1>10, <1>11
------------------------------------------------------------------------------
(* Memory *)

\* Header and payload units are cells.
LEMMA CellType ==
  ASSUME NEW m \in Msg, NEW j \in Nat
  PROVE  HeadCell(m, j) \in Cell /\ DataCell(m, j) \in Cell
BY DEF HeadCell, DataCell, Cell

\* A log with one more message is a log.
LEMMA LogType ==
  ASSUME TypeOK, NEW i \in 1 .. Len(log)
  PROVE  log[i].msg \in Msg /\ log[i].at \in Node
<1> DEFINE R == [msg : Msg, at : Node]
<1>1. log \in Seq(R)
  BY DEF TypeOK
<1> HIDE DEF R
<1>2. log[i] \in R
  BY <1>1
<1> QED BY <1>2 DEF R

\* An unread message is a message, at a node of the ring.
LEMMA UnreadType ==
  ASSUME TypeOK
  PROVE  /\ nread \in Nat /\ Len(log) \in Nat /\ nread <= Len(log)
         /\ \A i \in Unread : /\ i \in 1 .. Len(log)
                               /\ log[i].msg \in Msg /\ log[i].at \in Node
<1>1. nread \in 0 .. Len(log)
  BY DEF TypeOK
<1>2. Len(log) \in Nat
  <2> DEFINE R == [msg : Msg, at : Node]
  <2>1. log \in Seq(R)
    BY DEF TypeOK
  <2> HIDE DEF R
  <2> QED BY <2>1
<1>3. \A i \in Unread : i \in 1 .. Len(log)
  BY <1>1, <1>2 DEF Unread
<1> QED BY <1>1, <1>2, <1>3, LogType

\* The units of the nodes a push is filling.
Fresh(a) == \E d \in 0 .. Need(pmsg) - 1 : InNode(a, Advance(write_pos, d))

\* Every unit of an unread message lies outside them.
LEMMA UnreadNotFresh ==
  ASSUME TypeOK, Tiling, Room, Pushing,
         NEW i \in Unread, NEW e \in 0 .. Need(log[i].msg) - 1,
         NEW a \in Int, InNode(a, Advance(log[i].at, e))
  PROVE  ~Fresh(a)
<1>0. /\ log[i].msg \in Msg /\ log[i].at \in Node /\ pmsg \in Msg
      /\ read_pos \in Node /\ write_pos \in Node
  BY UnreadType DEF TypeOK
<1>1. Need(log[i].msg) \in Nat /\ Need(pmsg) \in Nat /\ NodeCount \in Nat
  BY <1>0, NeedSpan, ChannelAssumption
<1>2. UsedNodes \in 0 .. NodeCount - 1 /\ Dist(i) \in 0 .. NodeCount - 1
  BY <1>0, GapType DEF UsedNodes, Dist
<1>3. Dist(i) + Need(log[i].msg) <= UsedNodes
  BY DEF Tiling
<1>4. Gap(read_pos, Advance(log[i].at, e)) = Dist(i) + e
  <2>1. Gap(read_pos, log[i].at) + e <= NodeCount - 1 /\ e \in Nat
    BY <1>1, <1>2, <1>3 DEF Dist
  <2> QED BY <1>0, <2>1, GapAdvance DEF Dist
<1>5. SUFFICES ASSUME NEW d \in 0 .. Need(pmsg) - 1, InNode(a, Advance(write_pos, d))
               PROVE  FALSE
  BY DEF Fresh
<1>6. UsedNodes + Need(pmsg) <= NodeCount - 1
  BY DEF Room
<1>7. Gap(read_pos, Advance(write_pos, d)) = UsedNodes + d
  <2>1. Gap(read_pos, write_pos) + d <= NodeCount - 1 /\ d \in Nat
    BY <1>1, <1>2, <1>6 DEF UsedNodes
  <2> QED BY <1>0, <2>1, GapAdvance DEF UsedNodes
<1>8. Advance(write_pos, d) \in Node /\ Advance(log[i].at, e) \in Node
  BY <1>0, <1>1, AdvanceType
<1>9. Advance(write_pos, d) = Advance(log[i].at, e)
  BY <1>5, <1>8, OneNode
<1> QED BY <1>1, <1>2, <1>3, <1>4, <1>7, <1>9

\* A step that writes only there leaves every unread message as it was.
LEMMA UnreadKept ==
  ASSUME TypeOK, Tiling, Room, Pushing, UnreadStored, UNCHANGED <<log, nread>>,
         \A a \in Unit : cells'[a] = cells[a] \/ Fresh(a)
  PROVE  UnreadStored'
<1> SUFFICES ASSUME NEW i \in Unread
             PROVE  Stored(cells', log[i].at, log[i].msg)
  BY DEF UnreadStored, Unread
<1>0. /\ log[i].msg \in Msg /\ log[i].at \in Node /\ read_pos \in Node /\ write_pos \in Node
  BY UnreadType DEF TypeOK
<1>1. Need(log[i].msg) \in Nat \ {0} /\ NodeCount \in Nat
  BY <1>0, NeedSpan, ChannelAssumption
<1>2. Need(log[i].msg) <= NodeCount - 1
  <2>1. UsedNodes \in 0 .. NodeCount - 1 /\ Dist(i) \in 0 .. NodeCount - 1
    BY <1>0, GapType DEF UsedNodes, Dist
  <2>2. Dist(i) + Need(log[i].msg) <= UsedNodes
    BY DEF Tiling
  <2> QED BY <1>1, <2>1, <2>2
<1>3. Stored(cells, log[i].at, log[i].msg)
  BY DEF UnreadStored
<1>4. HeadStored(cells', log[i].at, log[i].msg)
  <2>1. InNode(Base(log[i].at), Advance(log[i].at, 0))
    <3>1. Advance(log[i].at, 0) = log[i].at
      BY <1>0, <1>1, AdvanceValue DEF Node
    <3> QED BY <1>0, <3>1, BaseType
  <2>2. Base(log[i].at) \in Unit
    BY <1>0, BaseType, ChannelAssumption DEF Unit
  <2>3. 0 \in 0 .. Need(log[i].msg) - 1 /\ Base(log[i].at) \in Int
    BY <1>1, <2>2 DEF Unit
  <2>4. ~Fresh(Base(log[i].at))
    BY <2>1, <2>3, UnreadNotFresh
  <2> QED BY <1>3, <2>2, <2>4 DEF Stored, HeadStored
<1>5. ASSUME NEW j \in 0 .. Length[log[i].msg] - 1
      PROVE  cells'[Slot(log[i].at, j)] = DataCell(log[i].msg, j)
  <2>1. /\ Slot(log[i].at, j) \in Unit
        /\ \E d \in 0 .. Need(log[i].msg) - 1 :
             InNode(Slot(log[i].at, j), Advance(log[i].at, d))
    BY <1>0, <1>1, <1>2, SlotNode
  <2>2. Slot(log[i].at, j) \in Int
    BY <2>1 DEF Unit
  <2>3. ~Fresh(Slot(log[i].at, j))
    BY <2>1, <2>2, UnreadNotFresh
  <2> QED BY <1>3, <1>5, <2>1, <2>3 DEF Stored, PartStored
<1> QED BY <1>4, <1>5 DEF Stored, PartStored

\* What one memcpy of push() does, given that the units it writes are the
\* slots of payload units lo .. hi - 1.
LEMMA CopyEffect ==
  ASSUME TypeOK, Room, Pushing,
         NEW addr \in Int, NEW lo \in Nat, NEW hi \in Nat, hi <= Length[pmsg], lo <= hi,
         \A j \in lo .. hi - 1 : Slot(write_pos, j) = addr + (j - lo),
         cells' = CopyIn(addr, pmsg, lo, hi - lo)
  PROVE  /\ cells' \in [Unit -> Cell]
         /\ \A j \in lo .. hi - 1 : cells'[Slot(write_pos, j)] = DataCell(pmsg, j)
         /\ \A a \in Unit : (addr <= a /\ a < addr + (hi - lo)) \/ cells'[a] = cells[a]
         /\ \A a \in Unit : cells'[a] = cells[a] \/ Fresh(a)
<1>0. pmsg \in Msg /\ write_pos \in Node /\ read_pos \in Node /\ cells \in [Unit -> Cell]
  BY DEF TypeOK
<1>1. Need(pmsg) \in Nat \ {0} /\ Length[pmsg] \in Nat /\ NodeCount \in Nat
  BY <1>0, NeedSpan, ChannelAssumption
<1>2. Need(pmsg) <= NodeCount
  <2>1. UsedNodes \in 0 .. NodeCount - 1
    BY <1>0, GapType DEF UsedNodes
  <2> QED BY <1>1, <2>1 DEF Room
<1>3. \A j \in 0 .. Length[pmsg] - 1 : Slot(write_pos, j) \in Unit /\ Fresh(Slot(write_pos, j))
  BY <1>0, <1>2, SlotNode DEF Fresh
<1>4. \A a \in Unit : cells'[a] = IF addr <= a /\ a < addr + (hi - lo)
                                  THEN DataCell(pmsg, lo + (a - addr)) ELSE cells[a]
  BY DEF CopyIn
<1>5. cells' \in [Unit -> Cell]
  <2> SUFFICES ASSUME NEW a \in Unit, addr <= a, a < addr + (hi - lo)
               PROVE  DataCell(pmsg, lo + (a - addr)) \in Cell
    BY <1>0 DEF CopyIn
  <2>1. lo + (a - addr) \in Nat
    BY DEF Unit
  <2> QED BY <1>0, <2>1, CellType
<1>6. ASSUME NEW j \in lo .. hi - 1
      PROVE  cells'[Slot(write_pos, j)] = DataCell(pmsg, j)
  <2>1. j \in 0 .. Length[pmsg] - 1
    BY <1>1
  <2>2. Slot(write_pos, j) \in Unit /\ Slot(write_pos, j) = addr + (j - lo)
    BY <1>3, <2>1
  <2> QED BY <1>4, <2>2
<1>7. ASSUME NEW a \in Unit, addr <= a, a < addr + (hi - lo)
      PROVE  Fresh(a)
  <2>1. PICK j \in Int : j = lo + (a - addr)
    BY DEF Unit
  <2>2. j \in lo .. hi - 1 /\ j \in 0 .. Length[pmsg] - 1
    BY <1>1, <1>7, <2>1 DEF Unit
  <2>3. a = Slot(write_pos, j)
    BY <2>1, <2>2 DEF Unit
  <2> QED BY <1>3, <2>2, <2>3
<1> QED BY <1>4, <1>5, <1>6, <1>7
------------------------------------------------------------------------------
(* The steps of push() *)

\* A channel just initialised: nothing is unread, nobody is in a call.
LEMMA InitInv == Init => IInv
<1> SUFFICES ASSUME Init PROVE IInv
  OBVIOUS
<1>0. NodeCount \in Nat /\ NodeCount > 1 /\ RingSize \in Nat
  BY ChannelAssumption DEF RingSize
<1>1. TypeOK
  <2>1. (CHOOSE m \in Msg : TRUE) \in Msg
    BY ChannelAssumption
  <2>2. ZeroCell \in Cell
    BY <2>1 DEF ZeroCell, Cell
  <2>3. cells \in [Unit -> Cell]
    BY <2>2 DEF Init
  <2>4. log \in Seq([msg : Msg, at : Node]) /\ nread \in 0 .. Len(log)
    BY DEF Init
  <2>5. failed \in BOOLEAN /\ cdata \in BOOLEAN /\ lost \in BOOLEAN
    BY DEF Init
  <2> QED BY <1>0, <2>3, <2>4, <2>5, ChannelAssumption DEF Init, TypeOK, Node
<1>2. NoAssertionFails
  BY DEF Init, NoAssertionFails
<1>3. Unread = {} /\ nread = Len(log)
  BY DEF Init, Unread
<1>4. UsedNodes = 0
  BY DEF Init, UsedNodes, Gap
<1>5. Tiling
  BY <1>3, <1>4 DEF Tiling, Init
<1>6. Room /\ UnreadStored /\ PushProgress /\ PopProgress
  BY <1>3 DEF Init, Room, Pushing, UnreadStored, PushProgress, PopProgress
<1> QED BY <1>1, <1>2, <1>5, <1>6 DEF IInv

\* What a step of push() before publication leaves alone.
LEMMA PushFrame ==
  ASSUME IInv, UNCHANGED <<read_pos, write_pos, push_count, pop_count, pmsg, consumer,
                           crashes, history, signalling>>,
         cells' \in [Unit -> Cell], failed' = failed,
         ppc' \in {"idle", "copy", "wrap", "head", "publish", "count", "signal"}
  PROVE  /\ TypeOK' /\ NoAssertionFails' /\ Tiling' /\ PopProgress'
         /\ UsedNodes' = UsedNodes /\ Unread' = Unread /\ PNew' = PNew
         /\ Need(pmsg)' = Need(pmsg)
<1>1. TypeOK'
  BY DEF IInv, TypeOK, consumer, history, signalling
<1>2. NoAssertionFails'
  BY DEF IInv, NoAssertionFails
<1>3. UsedNodes' = UsedNodes /\ Unread' = Unread /\ PNew' = PNew /\ Need(pmsg)' = Need(pmsg)
  BY DEF UsedNodes, Unread, PNew, Need, history
<1>4. Tiling'
  BY DEF IInv, Tiling, UsedNodes, Dist, Unread, history
<1>5. PopProgress'
  BY DEF IInv, PopProgress, Oldest, history, consumer
<1> QED BY <1>1, <1>2, <1>3, <1>4, <1>5

\* The space check establishes Room.
LEMMA PushBeginInv ==
  ASSUME IInv, NEW m \in Msg, PushBegin(m)
  PROVE  IInv'
<1>1. Need(m) + UsedNodes <= NodeCount - 1
  <2>1. UsedNodes \in 0 .. NodeCount - 1 /\ Available = NodeCount - 1 - UsedNodes
    BY AvailableValue, GapType DEF IInv, TypeOK, UsedNodes
  <2>2. Need(m) \in Nat /\ NodeCount \in Nat
    BY NeedSpan, ChannelAssumption
  <2> QED BY <2>1, <2>2 DEF PushBegin
<1>2. TypeOK' /\ NoAssertionFails'
  BY DEF IInv, TypeOK, NoAssertionFails, PushBegin, ring, consumer, history, signalling
<1>3. Tiling' /\ UnreadStored' /\ PopProgress'
  BY DEF IInv, Tiling, UnreadStored, PopProgress, PushBegin, ring, consumer, history,
         UsedNodes, Dist, Unread, Oldest
<1>4. Room' /\ PushProgress'
  <2>1. UsedNodes' = UsedNodes /\ Need(pmsg') = Need(m)
    BY DEF PushBegin, UsedNodes, ring
  <2>2. UsedNodes \in Int /\ Need(m) \in Int
    BY NeedSpan, GapType, ChannelAssumption DEF IInv, TypeOK, UsedNodes
  <2> QED BY <1>1, <2>1, <2>2 DEF Room, PushProgress, PushBegin, UsedNodes
<1> QED BY <1>2, <1>3, <1>4 DEF IInv

\* A refused push changes nothing the invariant speaks of.
LEMMA PushNoSpaceInv ==
  ASSUME IInv, NEW m \in Msg, PushNoSpace(m)
  PROVE  IInv'
<1>1. TypeOK' /\ NoAssertionFails'
  BY DEF IInv, TypeOK, NoAssertionFails, PushNoSpace, ring, consumer, history, signalling
<1>2. Tiling' /\ UnreadStored' /\ PopProgress'
  BY DEF IInv, Tiling, UnreadStored, PopProgress, PushNoSpace, ring, consumer, history,
         UsedNodes, Dist, Unread, Oldest
<1>3. Room' /\ PushProgress'
  BY DEF Room, Pushing, PushProgress, PushNoSpace
<1> QED BY <1>1, <1>2, <1>3 DEF IInv

\* A push in progress has a message that fits in the ring.
LEMMA PushFits ==
  ASSUME TypeOK, Room, Pushing
  PROVE  /\ pmsg \in Msg /\ write_pos \in Node /\ read_pos \in Node
         /\ Need(pmsg) \in Nat \ {0} /\ Need(pmsg) <= NodeCount - 1
         /\ Length[pmsg] \in Nat \ {0} /\ NodeCount \in Nat
         /\ PNew = Advance(write_pos, Need(pmsg)) /\ PNew \in Node
<1>1. pmsg \in Msg /\ write_pos \in Node /\ read_pos \in Node
  BY DEF TypeOK
<1>2. Need(pmsg) \in Nat \ {0} /\ Length[pmsg] \in Nat \ {0} /\ NodeCount \in Nat
  BY <1>1, NeedSpan, ChannelAssumption
<1>3. UsedNodes \in 0 .. NodeCount - 1
  BY <1>1, GapType DEF UsedNodes
<1>4. Need(pmsg) <= NodeCount - 1
  BY <1>2, <1>3 DEF Room
<1> QED BY <1>1, <1>2, <1>4, AdvanceType DEF PNew

\* The first memcpy of push() writes free nodes only and stores its part.
LEMMA PushCopyInv ==
  ASSUME IInv, PushCopy
  PROVE  IInv'
<1>0. Pushing /\ TypeOK /\ Room /\ Tiling /\ UnreadStored /\ ppc = "copy"
  BY DEF PushCopy, IInv, Pushing
<1>1. /\ pmsg \in Msg /\ write_pos \in Node
      /\ Need(pmsg) \in Nat \ {0} /\ Need(pmsg) <= NodeCount - 1
      /\ Length[pmsg] \in Nat \ {0} /\ NodeCount \in Nat
      /\ PNew = Advance(write_pos, Need(pmsg))
  BY <1>0, PushFits
<1>2. Base(write_pos) + HeadSize \in Int
  BY <1>1, BaseType, ChannelAssumption
<1>3. CASE LoopsBack(write_pos, PNew)
  <2> DEFINE sz == FirstPart(write_pos)
  <2>1. /\ sz \in Nat /\ sz < Length[pmsg] /\ Length[pmsg] - sz <= Base(PNew)
        /\ \A j \in 0 .. Length[pmsg] - 1 :
             Slot(write_pos, j) = IF j < sz THEN Base(write_pos) + HeadSize + j ELSE j - sz
    BY <1>1, <1>3, WrappedSlots
  <2>2. /\ cells' = CopyIn(Base(write_pos) + HeadSize, pmsg, 0, sz)
        /\ ppc' = "wrap"
        /\ failed' = (failed \/ sz >= Length[pmsg] \/ Length[pmsg] - sz > Base(PNew))
        /\ UNCHANGED <<read_pos, write_pos, push_count, pop_count, pmsg, consumer,
                       crashes, history, signalling>>
    BY <1>3 DEF PushCopy
  <2> HIDE DEF sz
  <2>3. failed' = failed
    <3>1. Base(PNew) \in Nat
      BY <1>0, PushFits, BaseType
    <3>2. ~(sz >= Length[pmsg]) /\ ~(Length[pmsg] - sz > Base(PNew))
      BY <1>1, <2>1, <3>1
    <3>3. failed \in BOOLEAN
      BY <1>0 DEF TypeOK
    <3> QED BY <2>2, <3>2, <3>3, Zenon
  <2>4. \A j \in 0 .. sz - 1 : Slot(write_pos, j) = Base(write_pos) + HeadSize + (j - 0)
    BY <1>1, <1>2, <2>1
  <2>5. sz <= Length[pmsg] /\ 0 <= sz /\ 0 \in Nat /\ sz - 0 = sz
    BY <1>1, <2>1
  <2>6. cells' = CopyIn(Base(write_pos) + HeadSize, pmsg, 0, sz - 0)
    BY <2>2, <2>5
  <2>7. /\ cells' \in [Unit -> Cell]
        /\ \A j \in 0 .. sz - 1 : cells'[Slot(write_pos, j)] = DataCell(pmsg, j)
        /\ \A a \in Unit : cells'[a] = cells[a] \/ Fresh(a)
    BY <1>0, <1>2, <2>1, <2>4, <2>5, <2>6, CopyEffect
  <2>8. UnreadStored'
    BY <1>0, <2>2, <2>7, UnreadKept DEF history
  <2>9. /\ TypeOK' /\ NoAssertionFails' /\ Tiling' /\ PopProgress'
        /\ UsedNodes' = UsedNodes /\ PNew' = PNew /\ Need(pmsg)' = Need(pmsg)
    BY <2>2, <2>3, <2>7, PushFrame
  <2>10. Room'
    BY <1>0, <2>2, <2>9 DEF Room, Pushing, Need
  <2>11. PushProgress'
    BY <1>3, <2>2, <2>7, <2>9 DEF PushProgress, PartStored, sz, LoopsBack, FirstPart
  <2> QED BY <2>8, <2>9, <2>10, <2>11 DEF IInv
<1>4. CASE ~LoopsBack(write_pos, PNew)
  <2>1. \A j \in 0 .. Length[pmsg] - 1 : Slot(write_pos, j) = Base(write_pos) + HeadSize + j
    BY <1>1, <1>4, StraightSlots
  <2>2. /\ cells' = CopyIn(Base(write_pos) + HeadSize, pmsg, 0, Length[pmsg])
        /\ ppc' = "head" /\ failed' = failed
        /\ UNCHANGED <<read_pos, write_pos, push_count, pop_count, pmsg, consumer,
                       crashes, history, signalling>>
    BY <1>4 DEF PushCopy
  <2>4. \A j \in 0 .. Length[pmsg] - 1 :
          Slot(write_pos, j) = Base(write_pos) + HeadSize + (j - 0)
    BY <1>1, <1>2, <2>1
  <2>5. Length[pmsg] <= Length[pmsg] /\ 0 <= Length[pmsg] /\ 0 \in Nat
        /\ Length[pmsg] - 0 = Length[pmsg]
    BY <1>1
  <2>6. cells' = CopyIn(Base(write_pos) + HeadSize, pmsg, 0, Length[pmsg] - 0)
    BY <2>2, <2>5
  <2>7. /\ cells' \in [Unit -> Cell]
        /\ \A j \in 0 .. Length[pmsg] - 1 : cells'[Slot(write_pos, j)] = DataCell(pmsg, j)
        /\ \A a \in Unit : cells'[a] = cells[a] \/ Fresh(a)
    BY <1>0, <1>1, <1>2, <2>4, <2>5, <2>6, CopyEffect
  <2>8. UnreadStored'
    BY <1>0, <2>2, <2>7, UnreadKept DEF history
  <2>9. /\ TypeOK' /\ NoAssertionFails' /\ Tiling' /\ PopProgress'
        /\ UsedNodes' = UsedNodes /\ PNew' = PNew /\ Need(pmsg)' = Need(pmsg)
    BY <2>2, <2>7, PushFrame
  <2>10. Room'
    BY <1>0, <2>2, <2>9 DEF Room, Pushing, Need
  <2>11. PushProgress'
    BY <2>2, <2>7 DEF PushProgress, PartStored
  <2> QED BY <2>8, <2>9, <2>10, <2>11 DEF IInv
<1> QED BY <1>3, <1>4

\* The second memcpy completes the payload of a message that wraps.
LEMMA PushWrapInv ==
  ASSUME IInv, PushWrap
  PROVE  IInv'
<1>0. Pushing /\ TypeOK /\ Room /\ Tiling /\ UnreadStored /\ ppc = "wrap"
      /\ LoopsBack(write_pos, PNew)
      /\ PartStored(cells, write_pos, pmsg, FirstPart(write_pos))
  BY DEF PushWrap, IInv, Pushing, PushProgress
<1>1. /\ pmsg \in Msg /\ write_pos \in Node
      /\ Need(pmsg) \in Nat \ {0} /\ Need(pmsg) <= NodeCount - 1
      /\ Length[pmsg] \in Nat \ {0} /\ NodeCount \in Nat
      /\ PNew = Advance(write_pos, Need(pmsg)) /\ PNew \in Node
  BY <1>0, PushFits
<1>2. PICK sz \in Nat : sz = FirstPart(write_pos)
  BY <1>0, <1>1, WrappedSlots
<1>3. /\ sz < Length[pmsg] /\ Length[pmsg] - sz <= Base(PNew)
      /\ Base(PNew) + NodeSize <= Base(write_pos)
      /\ \A j \in 0 .. Length[pmsg] - 1 :
           Slot(write_pos, j) = IF j < sz THEN Base(write_pos) + HeadSize + j ELSE j - sz
  BY <1>0, <1>1, <1>2, WrappedSlots
<1>4. /\ cells' = CopyIn(0, pmsg, sz, Length[pmsg] - sz)
      /\ ppc' = "head" /\ failed' = failed
      /\ UNCHANGED <<read_pos, write_pos, push_count, pop_count, pmsg, consumer,
                     crashes, history, signalling>>
  BY <1>2 DEF PushWrap
<1>5. \A j \in sz .. Length[pmsg] - 1 : Slot(write_pos, j) = 0 + (j - sz)
  BY <1>1, <1>3
<1>6. /\ cells' \in [Unit -> Cell]
      /\ \A j \in sz .. Length[pmsg] - 1 : cells'[Slot(write_pos, j)] = DataCell(pmsg, j)
      /\ \A a \in Unit : (0 <= a /\ a < 0 + (Length[pmsg] - sz)) \/ cells'[a] = cells[a]
      /\ \A a \in Unit : cells'[a] = cells[a] \/ Fresh(a)
  <2>1. Length[pmsg] <= Length[pmsg] /\ sz <= Length[pmsg] /\ 0 \in Int /\ Length[pmsg] \in Nat
    BY <1>1, <1>3
  <2> QED BY <1>0, <1>4, <1>5, <2>1, CopyEffect
<1>7. \A j \in 0 .. Length[pmsg] - 1 : cells'[Slot(write_pos, j)] = DataCell(pmsg, j)
  <2> SUFFICES ASSUME NEW j \in 0 .. Length[pmsg] - 1, j < sz
               PROVE  cells'[Slot(write_pos, j)] = DataCell(pmsg, j)
    BY <1>1, <1>6
  <2>1. j \in 0 .. sz - 1
    BY <1>1
  <2>2. cells[Slot(write_pos, j)] = DataCell(pmsg, j)
    BY <1>0, <1>2, <2>1 DEF PartStored
  <2>3. Slot(write_pos, j) \in Unit /\ Slot(write_pos, j) = Base(write_pos) + HeadSize + j
    <3>1. Need(pmsg) <= NodeCount
      BY <1>1
    <3> QED BY <1>1, <1>3, <3>1, SlotNode
  <2>4. ~(Slot(write_pos, j) < 0 + (Length[pmsg] - sz))
    <3>1. Base(write_pos) \in Nat /\ Base(PNew) \in Nat /\ HeadSize \in Nat /\ NodeSize \in Nat
      BY <1>1, BaseType, ChannelAssumption
    <3> QED BY <1>1, <1>3, <2>3, <3>1
  <2> QED BY <1>6, <2>2, <2>3, <2>4
<1>8. UnreadStored'
  BY <1>0, <1>4, <1>6, UnreadKept DEF history
<1>9. /\ TypeOK' /\ NoAssertionFails' /\ Tiling' /\ PopProgress'
      /\ UsedNodes' = UsedNodes /\ Need(pmsg)' = Need(pmsg)
  BY <1>4, <1>6, PushFrame
<1>10. Room'
  BY <1>0, <1>4, <1>9 DEF Room, Pushing, Need
<1>11. PushProgress'
  BY <1>4, <1>7 DEF PushProgress, PartStored
<1> QED BY <1>8, <1>9, <1>10, <1>11 DEF IInv

\* Writing the header leaves the payload just copied alone.
LEMMA PushHeadInv ==
  ASSUME IInv, PushHead
  PROVE  IInv'
<1>0. Pushing /\ TypeOK /\ Room /\ Tiling /\ UnreadStored /\ ppc = "head"
      /\ PartStored(cells, write_pos, pmsg, Length[pmsg])
  BY DEF PushHead, IInv, Pushing, PushProgress
<1>1. /\ pmsg \in Msg /\ write_pos \in Node
      /\ Need(pmsg) \in Nat \ {0} /\ Need(pmsg) <= NodeCount - 1
      /\ Length[pmsg] \in Nat \ {0} /\ NodeCount \in Nat
      /\ PNew = Advance(write_pos, Need(pmsg)) /\ PNew \in Node
  BY <1>0, PushFits
<1>2. /\ Base(write_pos) \in Nat /\ HeadSize \in Nat \ {0} /\ NodeSize \in Nat
      /\ HeadSize <= NodeSize /\ Base(write_pos) + NodeSize <= RingSize /\ RingSize \in Nat
  BY <1>1, BaseType, ChannelAssumption
<1>3. /\ cells' = [a \in Unit |->
                     IF Base(write_pos) <= a /\ a < Base(write_pos) + HeadSize
                     THEN HeadCell(pmsg, a - Base(write_pos)) ELSE cells[a]]
      /\ ppc' = "publish" /\ failed' = failed
      /\ UNCHANGED <<read_pos, write_pos, push_count, pop_count, pmsg, consumer,
                     crashes, history, signalling>>
  BY DEF PushHead
<1>4. cells' \in [Unit -> Cell]
  <2>1. cells \in [Unit -> Cell]
    BY <1>0 DEF TypeOK
  <2>2. \A a \in Unit : Base(write_pos) <= a => a - Base(write_pos) \in Nat
    BY <1>2 DEF Unit
  <2> QED BY <1>1, <1>3, <2>1, <2>2, CellType
<1>5. ASSUME NEW a \in Unit PROVE cells'[a] = cells[a] \/ Fresh(a)
  <2>1. CASE Base(write_pos) <= a /\ a < Base(write_pos) + HeadSize
    <3>1. Advance(write_pos, 0) = write_pos
      BY <1>1, AdvanceValue DEF Node
    <3>2. InNode(a, Advance(write_pos, 0)) /\ 0 \in 0 .. Need(pmsg) - 1
      BY <1>1, <1>2, <2>1, <3>1 DEF InNode, Unit
    <3> QED BY <3>2 DEF Fresh
  <2>2. CASE ~(Base(write_pos) <= a /\ a < Base(write_pos) + HeadSize)
    BY <1>3, <2>2
  <2> QED BY <2>1, <2>2
<1>6. HeadStored(cells', write_pos, pmsg)
  <2>1. Base(write_pos) \in Unit /\ Base(write_pos) <= Base(write_pos)
        /\ Base(write_pos) < Base(write_pos) + HeadSize
        /\ Base(write_pos) - Base(write_pos) = 0
    BY <1>2 DEF Unit
  <2> QED BY <1>3, <2>1 DEF HeadStored
<1>7. PartStored(cells', write_pos, pmsg, Length[pmsg])
  <2> SUFFICES ASSUME NEW j \in 0 .. Length[pmsg] - 1
               PROVE  cells'[Slot(write_pos, j)] = DataCell(pmsg, j)
    BY DEF PartStored
  <2>1. cells[Slot(write_pos, j)] = DataCell(pmsg, j)
    BY <1>0 DEF PartStored
  <2>2. Slot(write_pos, j) \in Unit
    <3>1. Need(pmsg) <= NodeCount
      BY <1>1
    <3> QED BY <1>1, <3>1, SlotNode
  <2>3. ~(Base(write_pos) <= Slot(write_pos, j) /\ Slot(write_pos, j) < Base(write_pos) + HeadSize)
    <3>1. CASE LoopsBack(write_pos, PNew)
      <4>1. PICK sz \in Nat : sz = FirstPart(write_pos)
        BY <1>1, <3>1, WrappedSlots
      <4>2. /\ sz < Length[pmsg] /\ Length[pmsg] - sz <= Base(PNew)
            /\ Base(PNew) + NodeSize <= Base(write_pos)
            /\ Slot(write_pos, j) = IF j < sz THEN Base(write_pos) + HeadSize + j ELSE j - sz
        BY <1>1, <3>1, <4>1, WrappedSlots
      <4>3. Base(PNew) \in Nat
        BY <1>1, BaseType
      <4> QED BY <1>1, <1>2, <4>2, <4>3
    <3>2. CASE ~LoopsBack(write_pos, PNew)
      <4>1. Slot(write_pos, j) = Base(write_pos) + HeadSize + j
        BY <1>1, <3>2, StraightSlots
      <4> QED BY <1>1, <1>2, <4>1
    <3> QED BY <3>1, <3>2
  <2> QED BY <1>3, <2>1, <2>2, <2>3
<1>8. UnreadStored'
  BY <1>0, <1>3, <1>5, UnreadKept DEF history
<1>9. /\ TypeOK' /\ NoAssertionFails' /\ Tiling' /\ PopProgress'
      /\ UsedNodes' = UsedNodes /\ Need(pmsg)' = Need(pmsg)
  BY <1>3, <1>4, PushFrame
<1>10. Room'
  BY <1>0, <1>3, <1>9 DEF Room, Pushing, Need
<1>11. PushProgress'
  BY <1>3, <1>6, <1>7 DEF PushProgress
<1> QED BY <1>8, <1>9, <1>10, <1>11 DEF IInv

\* Publication appends to the tiling.
LEMMA PushPublishInv ==
  ASSUME IInv, PushPublish
  PROVE  IInv'
<1>0. Pushing /\ TypeOK /\ Room /\ Tiling /\ UnreadStored /\ PopProgress /\ ppc = "publish"
      /\ Stored(cells, write_pos, pmsg) /\ NoAssertionFails
  BY DEF PushPublish, IInv, Pushing, PushProgress, Stored
<1>1. /\ pmsg \in Msg /\ write_pos \in Node /\ read_pos \in Node
      /\ Need(pmsg) \in Nat \ {0} /\ Need(pmsg) <= NodeCount - 1
      /\ NodeCount \in Nat
      /\ PNew = Advance(write_pos, Need(pmsg)) /\ PNew \in Node
  BY <1>0, PushFits
<1> DEFINE e == [msg |-> pmsg, at |-> write_pos]
<1>2. /\ write_pos' = PNew /\ log' = Append(log, e) /\ ppc' = "count"
      /\ UNCHANGED <<cells, read_pos, push_count, pop_count, pmsg, consumer, failed,
                     crashes, nread, signalling>>
  BY DEF PushPublish
<1>3. nread \in Nat /\ Len(log) \in Nat /\ nread <= Len(log)
      /\ \A i \in Unread : i \in 1 .. Len(log) /\ log[i].msg \in Msg /\ log[i].at \in Node
  BY <1>0, UnreadType
<1>31. PICK n \in Nat : n = Len(log)
  BY <1>3
<1>32. PICK f \in Nat : f = nread + 1
  BY <1>3
<1>4. /\ Len(log') = n + 1 /\ log'[n + 1] = e
      /\ \A i \in 1 .. Len(log) : log'[i] = log[i]
      /\ log' \in Seq([msg : Msg, at : Node])
  <2> DEFINE R == [msg : Msg, at : Node]
  <2>1. log \in Seq(R) /\ e \in R
    BY <1>0, <1>1 DEF TypeOK
  <2> HIDE DEF R, e
  <2>2. log' \in Seq(R)
    BY <1>2, <2>1
  <2>3. Len(log') = Len(log) + 1 /\ log'[Len(log) + 1] = e
        /\ \A i \in 1 .. Len(log) : log'[i] = log[i]
    BY <1>2, <2>1
  <2> QED BY <1>31, <2>2, <2>3 DEF R
<1>5. e.msg = pmsg /\ e.at = write_pos
  OBVIOUS
<1> HIDE DEF e
<1>6. TypeOK'
  <2>1. nread' \in 0 .. Len(log')
    BY <1>2, <1>3, <1>4, <1>31
  <2> QED BY <1>0, <1>1, <1>2, <1>4, <2>1 DEF TypeOK, consumer, signalling
<1>7. NoAssertionFails'
  BY <1>0, <1>2 DEF NoAssertionFails
<1>8. UsedNodes' = UsedNodes + Need(pmsg) /\ UsedNodes \in 0 .. NodeCount - 1
  <2>1. Gap(read_pos, write_pos) + Need(pmsg) <= NodeCount - 1
    BY <1>0 DEF Room, UsedNodes
  <2>2. Gap(read_pos, write_pos) \in 0 .. NodeCount - 1
    BY <1>1, GapType
  <2> QED BY <1>1, <1>2, <2>1, <2>2, GapAdvance DEF UsedNodes
<1>9. Unread' = Unread \cup {n + 1}
  BY <1>2, <1>3, <1>4, <1>31 DEF Unread
<1>10. \A i \in Unread : /\ Dist(i)' = Dist(i) /\ log'[i] = log[i]
                         /\ Dist(i) \in Nat /\ Need(log[i].msg) \in Nat
  <2> SUFFICES ASSUME NEW i \in Unread
               PROVE  /\ Dist(i)' = Dist(i) /\ log'[i] = log[i]
                      /\ Dist(i) \in Nat /\ Need(log[i].msg) \in Nat
    OBVIOUS
  <2>1. log'[i] = log[i] /\ log[i].at \in Node /\ log[i].msg \in Msg
    BY <1>3, <1>4
  <2>2. Dist(i) \in 0 .. NodeCount - 1 /\ Need(log[i].msg) \in Nat
    BY <1>1, <2>1, GapType, NeedSpan DEF Dist
  <2> QED BY <1>1, <1>2, <2>1, <2>2 DEF Dist
<1>11. Dist(n + 1)' = UsedNodes /\ log'[n + 1].msg = pmsg
       /\ log'[n + 1].at = write_pos
  BY <1>2, <1>4, <1>5 DEF Dist, UsedNodes
<1>12. Tiling'
  <2>1. nread' # Len(log') /\ nread' < Len(log')
    BY <1>2, <1>3, <1>4, <1>31
  <2>2. Dist(f)' = 0
    <3>1. CASE nread = Len(log)
      <4>1. UsedNodes = 0 /\ f = n + 1
        BY <1>0, <1>31, <1>32, <3>1 DEF Tiling
      <4> QED BY <1>11, <4>1
    <3>2. CASE nread < Len(log)
      <4>1. f \in Unread /\ Dist(f) = 0
        BY <1>0, <1>3, <1>32, <3>2 DEF Unread, Tiling
      <4> QED BY <1>10, <4>1
    <3> QED BY <1>3, <3>1, <3>2
  <2>3. ASSUME NEW i \in Unread', i < Len(log')
        PROVE  Dist(i + 1)' = Dist(i)' + Need(log'[i].msg)
    <3>1. i \in Unread /\ i <= Len(log)
      BY <1>3, <1>4, <1>9, <1>31, <2>3 DEF Unread
    <3>2. CASE i < Len(log)
      <4>1. i + 1 \in Unread
        BY <1>3, <3>1, <3>2 DEF Unread
      <4>2. Dist(i + 1) = Dist(i) + Need(log[i].msg)
        BY <1>0, <3>1, <3>2 DEF Tiling
      <4> QED BY <1>10, <3>1, <4>1, <4>2
    <3>3. CASE i = Len(log)
      <4>1. nread < Len(log)
        BY <1>3, <3>1, <3>3 DEF Unread
      <4>2. Dist(Len(log)) + Need(log[Len(log)].msg) = UsedNodes
        BY <1>0, <4>1 DEF Tiling
      <4> QED BY <1>10, <1>11, <1>31, <3>1, <3>3, <4>2
    <3> QED BY <1>3, <3>1, <3>2, <3>3
  <2>4. Dist(n + 1)' + Need(log'[n + 1].msg) = UsedNodes'
    BY <1>8, <1>11
  <2>5. ASSUME NEW i \in Unread' PROVE Dist(i)' + Need(log'[i].msg) <= UsedNodes'
    <3>1. CASE i \in Unread
      <4>1. Dist(i) + Need(log[i].msg) <= UsedNodes
        BY <1>0, <3>1 DEF Tiling
      <4> QED BY <1>1, <1>8, <1>10, <3>1, <4>1
    <3>2. CASE i = n + 1
      BY <1>1, <1>8, <1>11, <3>2
    <3> QED BY <1>9, <3>1, <3>2
  <2>6. ASSUME NEW i \in Unread', NEW k \in Unread', i < k
        PROVE  Dist(i)' + Need(log'[i].msg) <= Dist(k)'
    <3>1. i \in Unread
      BY <1>3, <1>4, <1>9, <1>31, <2>6 DEF Unread
    <3>2. CASE k \in Unread
      <4>1. Dist(i) + Need(log[i].msg) <= Dist(k)
        BY <1>0, <2>6, <3>1, <3>2 DEF Tiling
      <4> QED BY <1>10, <3>1, <3>2, <4>1
    <3>3. CASE k = n + 1
      <4>1. Dist(i) + Need(log[i].msg) <= UsedNodes
        BY <1>0, <3>1 DEF Tiling
      <4> QED BY <1>10, <1>11, <3>1, <3>3, <4>1
    <3> QED BY <1>9, <3>2, <3>3
  <2>7. Len(log') = n + 1 /\ nread' + 1 = f
    BY <1>2, <1>4, <1>32
  <2>8. /\ nread' < Len(log') => Dist(nread + 1)' = 0
        /\ Dist(Len(log))' + Need(log'[Len(log')].msg) = UsedNodes'
    BY <2>2, <2>4, <2>7
  <2> QED BY <2>1, <2>3, <2>5, <2>6, <2>8 DEF Tiling
<1>13. Room' /\ PushProgress'
  BY <1>2 DEF Room, Pushing, PushProgress
<1>14. UnreadStored'
  <2> SUFFICES ASSUME NEW i \in Unread' PROVE Stored(cells, log'[i].at, log'[i].msg)
    BY <1>2 DEF UnreadStored
  <2>1. CASE i \in Unread
    BY <1>0, <1>10, <2>1 DEF UnreadStored
  <2>2. CASE i = n + 1
    BY <1>0, <1>11, <2>2
  <2> QED BY <1>9, <2>1, <2>2
<1>15. PopProgress'
  <2>1. cpc' = cpc /\ cnew' = cnew /\ cdata' = cdata /\ cbuf' = cbuf
        /\ read_pos' = read_pos /\ nread' = nread
    BY <1>2 DEF consumer
  <2>2. nread < Len(log) => Oldest' = Oldest /\ nread' < Len(log')
    <3> SUFFICES ASSUME nread < Len(log) PROVE Oldest' = Oldest /\ nread' < Len(log')
      OBVIOUS
    <3>1. nread + 1 \in 1 .. Len(log)
      BY <1>3
    <3> QED BY <1>2, <1>3, <1>4, <3>1 DEF Oldest
  <2>3. cpc \in {"head", "copy", "wrap", "publish"} => nread < Len(log)
    BY <1>0 DEF PopProgress
  <2> QED BY <1>0, <2>1, <2>2, <2>3 DEF PopProgress
<1> QED BY <1>6, <1>7, <1>12, <1>13, <1>14, <1>15 DEF IInv

\* push_count plays no part in the layout.
LEMMA PushCountInv ==
  ASSUME IInv, PushCount
  PROVE  IInv'
<1>1. (push_count + 1) % CountMod \in 0 .. CountMod - 1
  BY ChannelAssumption DEF IInv, TypeOK
<1>2. TypeOK' /\ NoAssertionFails'
  BY <1>1 DEF IInv, TypeOK, NoAssertionFails, PushCount, consumer, history, signalling
<1>3. Tiling' /\ UnreadStored' /\ PopProgress'
  BY DEF IInv, Tiling, UnreadStored, PopProgress, PushCount, consumer, history,
         UsedNodes, Dist, Unread, Oldest
<1>4. Room' /\ PushProgress'
  BY DEF Room, Pushing, PushProgress, PushCount
<1> QED BY <1>2, <1>3, <1>4 DEF IInv

\* The signal is no part of the channel.
LEMMA PushSignalInv ==
  ASSUME IInv, PushSignal
  PROVE  IInv'
<1>1. signals' \in 0 .. MaxSignals
  BY ChannelAssumption DEF IInv, TypeOK, PushSignal
<1>2. lost' \in BOOLEAN
  BY DEF IInv, TypeOK, PushSignal
<1>3. TypeOK' /\ NoAssertionFails'
  BY <1>1, <1>2 DEF IInv, TypeOK, NoAssertionFails, PushSignal, ring, consumer, history
<1>4. Tiling' /\ UnreadStored' /\ PopProgress'
  BY DEF IInv, Tiling, UnreadStored, PopProgress, PushSignal, ring, consumer, history,
         UsedNodes, Dist, Unread, Oldest
<1>5. Room' /\ PushProgress'
  BY DEF Room, Pushing, PushProgress, PushSignal
<1> QED BY <1>3, <1>4, <1>5 DEF IInv
------------------------------------------------------------------------------
(* The steps of pop() *)

\* The header at read_pos is the oldest unread message's.
LEMMA AtOldest ==
  ASSUME TypeOK, Tiling, UnreadStored, nread < Len(log)
  PROVE  /\ nread + 1 \in Unread /\ Oldest \in Msg /\ log[nread + 1].at = read_pos
         /\ read_pos \in Node /\ write_pos \in Node
         /\ CurrentMsg = Oldest /\ HeadAt(read_pos).kind = "head"
         /\ Stored(cells, read_pos, Oldest)
         /\ Need(Oldest) \in Nat \ {0} /\ Need(Oldest) <= UsedNodes
         /\ Need(Oldest) <= NodeCount - 1 /\ UsedNodes \in 0 .. NodeCount - 1
         /\ NodeCount \in Nat /\ Length[Oldest] \in Nat \ {0}
<1>1. nread + 1 \in Unread
  BY UnreadType DEF Unread
<1>2. Oldest \in Msg /\ log[nread + 1].at \in Node /\ read_pos \in Node /\ write_pos \in Node
  BY <1>1, UnreadType DEF Oldest, TypeOK
<1>3. log[nread + 1].at = read_pos
  <2>1. Gap(read_pos, log[nread + 1].at) = 0
    BY DEF Tiling, Dist
  <2>2. Gap(read_pos, read_pos) = 0
    BY <1>2, GapType
  <2> QED BY <1>2, <2>1, <2>2, GapInjective
<1>4. Stored(cells, read_pos, Oldest)
  BY <1>1, <1>3 DEF UnreadStored, Oldest
<1>5. CurrentMsg = Oldest /\ HeadAt(read_pos).kind = "head"
  BY <1>4 DEF Stored, HeadStored, CurrentMsg, HeadAt, HeadCell
<1>6. Need(Oldest) \in Nat \ {0} /\ NodeCount \in Nat /\ Length[Oldest] \in Nat \ {0}
  BY <1>2, NeedSpan, ChannelAssumption
<1>7. UsedNodes \in 0 .. NodeCount - 1
  BY <1>2, GapType DEF UsedNodes
<1>8. Need(Oldest) <= UsedNodes
  <2>1. Dist(nread + 1) + Need(log[nread + 1].msg) <= UsedNodes /\ Dist(nread + 1) = 0
    BY <1>1 DEF Tiling
  <2> QED BY <1>6, <1>7, <2>1 DEF Oldest
<1> QED BY <1>1, <1>2, <1>3, <1>4, <1>5, <1>6, <1>7, <1>8

\* A step of pop() before publication touches only the consumer.
LEMMA PopFrame ==
  ASSUME IInv, UNCHANGED <<ring, producer, crashes, history, signalling>>, failed' = failed,
         cpc' \in {"idle", "head", "copy", "wrap", "publish", "count"},
         cpc' # "idle" => batch > 0,
         cnew' \in Node, cdata' \in BOOLEAN, cap' \in Nat
  PROVE  /\ TypeOK' /\ NoAssertionFails' /\ Tiling' /\ Room' /\ UnreadStored' /\ PushProgress'
         /\ Oldest' = Oldest
<1>1. TypeOK' /\ NoAssertionFails'
  BY DEF IInv, TypeOK, NoAssertionFails, ring, producer, history, signalling
<1>2. Tiling' /\ UnreadStored' /\ Oldest' = Oldest
  BY DEF IInv, Tiling, UnreadStored, ring, history, UsedNodes, Dist, Unread, Oldest
<1>3. Room' /\ PushProgress'
  BY DEF IInv, Room, Pushing, PushProgress, ring, producer, UsedNodes, PNew
<1> QED BY <1>1, <1>2, <1>3

\* A pop goes ahead only when a message is unread.
LEMMA PopBeginInv ==
  ASSUME IInv, NEW d \in BOOLEAN, PopBegin(d)
  PROVE  IInv'
<1>1. /\ UNCHANGED <<ring, producer, crashes, history, signalling>> /\ failed' = failed
      /\ cpc' = "head" /\ cdata' = d /\ UNCHANGED <<cnew, cap, cbuf>>
  BY DEF PopBegin
<1>2. cnew' \in Node /\ cdata' \in BOOLEAN /\ cap' \in Nat /\ batch > 0
  BY <1>1 DEF IInv, TypeOK, PopBegin
<1>3. /\ TypeOK' /\ NoAssertionFails' /\ Tiling' /\ Room' /\ UnreadStored' /\ PushProgress'
  BY <1>1, <1>2, PopFrame
<1>4. nread < Len(log)
  <2>1. nread \in Nat /\ Len(log) \in Nat /\ nread <= Len(log)
    BY UnreadType DEF IInv
  <2>2. read_pos # write_pos /\ read_pos \in Node /\ write_pos \in Node
    BY DEF PopBegin, IInv, TypeOK
  <2>3. UsedNodes # 0
    BY <2>2, GapType, GapInjective DEF UsedNodes
  <2> QED BY <2>1, <2>3 DEF IInv, Tiling
<1>5. PopProgress'
  BY <1>1, <1>4 DEF PopProgress, history
<1> QED BY <1>3, <1>5 DEF IInv

\* pop() finds the header of the oldest message, and of the one after it.
LEMMA PopHeadInv ==
  ASSUME IInv, PopHead
  PROVE  IInv'
<1>0. TypeOK /\ Tiling /\ UnreadStored /\ nread < Len(log) /\ cpc = "head"
  BY DEF IInv, PopHead, PopProgress
<1>1. /\ nread + 1 \in Unread /\ Oldest \in Msg /\ read_pos \in Node /\ write_pos \in Node
      /\ CurrentMsg = Oldest /\ HeadAt(read_pos).kind = "head"
      /\ Need(Oldest) \in Nat \ {0} /\ Need(Oldest) <= UsedNodes
      /\ UsedNodes \in 0 .. NodeCount - 1 /\ NodeCount \in Nat /\ Length[Oldest] \in Nat
  BY <1>0, AtOldest
<1> DEFINE new == Advance(read_pos, Need(Oldest))
<1>2. new \in Node /\ Gap(read_pos, new) = Need(Oldest)
  <2>1. Gap(read_pos, read_pos) = 0
    BY <1>1, GapType
  <2>2. Gap(read_pos, read_pos) + Need(Oldest) <= NodeCount - 1
    BY <1>1, <2>1
  <2> QED BY <1>1, <2>1, <2>2, GapAdvance, AdvanceType
<1>3. /\ failed' = (failed \/ (new # write_pos /\ HeadAt(new).kind # "head"))
      /\ \/ cap' = Length[Oldest] /\ cpc' = "idle" /\ cnew' = cnew
         \/ /\ cpc' = IF cdata THEN "copy" ELSE "publish"
            /\ cnew' = new /\ cap' = cap
      /\ UNCHANGED <<ring, producer, cdata, cbuf, received, crashes, history, signalling>>
  BY <1>1 DEF PopHead, ReportLength
<1> HIDE DEF new
<1>4. ~(new # write_pos /\ HeadAt(new).kind # "head")
  <2>0. nread \in Nat /\ Len(log) \in Nat
    BY <1>0, UnreadType
  <2>1. CASE nread + 1 = Len(log)
    <3>1. Dist(nread + 1) + Need(Oldest) = UsedNodes /\ Dist(nread + 1) = 0
      BY <1>0, <2>1 DEF Tiling, Oldest
    <3>2. Gap(read_pos, new) = Gap(read_pos, write_pos)
      BY <1>1, <1>2, <3>1 DEF UsedNodes
    <3> QED BY <1>1, <1>2, <3>2, GapInjective
  <2>2. CASE nread + 1 < Len(log)
    <3>1. nread + 2 \in Unread
      BY <2>0, <2>2 DEF Unread
    <3>2. log[nread + 2].at \in Node /\ log[nread + 2].msg \in Msg
      BY <1>0, <3>1, UnreadType
    <3>3. Dist((nread + 1) + 1) = Dist(nread + 1) + Need(Oldest) /\ Dist(nread + 1) = 0
      BY <1>0, <1>1, <2>2 DEF Tiling, Oldest
    <3>4. (nread + 1) + 1 = nread + 2
      BY <2>0
    <3>5. Gap(read_pos, log[nread + 2].at) = Need(Oldest)
      BY <1>1, <3>3, <3>4 DEF Dist
    <3>6. new = log[nread + 2].at
      BY <1>1, <1>2, <3>2, <3>5, GapInjective
    <3>7. HeadStored(cells, log[nread + 2].at, log[nread + 2].msg)
      BY <1>0, <3>1 DEF UnreadStored, Stored
    <3> QED BY <3>6, <3>7 DEF HeadStored, HeadAt, HeadCell
  <2> QED BY <1>0, <2>0, <2>1, <2>2
<1>5. failed' = failed
  <2>1. failed \in BOOLEAN
    BY <1>0 DEF TypeOK
  <2> QED BY <1>3, <1>4, <2>1, Zenon
<1>6. /\ cpc' \in {"idle", "copy", "publish"} /\ cnew' \in Node /\ cdata' \in BOOLEAN
      /\ cap' \in Nat /\ batch > 0
  BY <1>0, <1>1, <1>2, <1>3 DEF TypeOK
<1>7. /\ TypeOK' /\ NoAssertionFails' /\ Tiling' /\ Room' /\ UnreadStored' /\ PushProgress'
      /\ Oldest' = Oldest
  BY <1>3, <1>5, <1>6, PopFrame
<1>8. PopProgress'
  <2>1. nread' < Len(log') /\ read_pos' = read_pos /\ cdata' = cdata
    BY <1>0, <1>3 DEF history, ring
  <2>2. CASE cpc' = "idle"
    BY <2>2 DEF PopProgress
  <2>3. CASE cpc' = (IF cdata THEN "copy" ELSE "publish") /\ cnew' = new
    BY <1>7, <2>1, <2>3 DEF PopProgress, new
  <2> QED BY <1>3, <2>2, <2>3
<1> QED BY <1>7, <1>8 DEF IInv

\* The last memcpy of pop() has put the oldest message in the buffer.
LEMMA VerifyInv ==
  ASSUME IInv, cpc \in {"copy", "wrap"},
         UNCHANGED <<ring, producer, cnew, cdata, cap, received, crashes, history, signalling>>,
         NEW buf, Verify(buf), Intact(buf, Oldest), CurrentMsg = Oldest
  PROVE  IInv'
<1>1. cpc' = "publish" /\ failed' = failed /\ cbuf' = buf
  BY DEF Verify
<1>2. cnew' \in Node /\ cdata' \in BOOLEAN /\ cap' \in Nat /\ batch > 0
  BY DEF IInv, TypeOK
<1>3. /\ TypeOK' /\ NoAssertionFails' /\ Tiling' /\ Room' /\ UnreadStored' /\ PushProgress'
      /\ Oldest' = Oldest
  BY <1>1, <1>2, PopFrame
<1>4. PopProgress'
  <2>1. nread < Len(log) /\ cnew = Advance(read_pos, Need(Oldest))
    BY DEF IInv, PopProgress
  <2>2. nread' < Len(log') /\ cnew' = Advance(read_pos', Need(Oldest'))
    BY <1>3, <2>1 DEF history, ring
  <2> QED BY <1>1, <1>3, <2>2 DEF PopProgress
<1> QED BY <1>3, <1>4 DEF IInv

\* The first memcpy of pop() reads the oldest message's payload, or its
\* part before the end of the ring.
LEMMA PopCopyInv ==
  ASSUME IInv, PopCopy
  PROVE  IInv'
<1>0. TypeOK /\ Tiling /\ UnreadStored /\ nread < Len(log) /\ cpc = "copy"
      /\ cnew = Advance(read_pos, Need(Oldest))
  BY DEF IInv, PopCopy, PopProgress
<1>1. /\ Oldest \in Msg /\ read_pos \in Node /\ CurrentMsg = Oldest
      /\ Need(Oldest) \in Nat \ {0} /\ Need(Oldest) <= NodeCount - 1
      /\ Length[Oldest] \in Nat \ {0} /\ NodeCount \in Nat
      /\ PartStored(cells, read_pos, Oldest, Length[Oldest])
  BY <1>0, AtOldest DEF Stored
<1>2. UNCHANGED <<ring, producer, cnew, cdata, cap, received, crashes, history, signalling>>
  BY DEF PopCopy
<1>3. CASE ~LoopsBack(read_pos, cnew)
  <2> DEFINE buf == [j \in 0 .. Length[Oldest] - 1 |-> cells[Base(read_pos) + HeadSize + j]]
  <2>1. Verify(buf)
    BY <1>1, <1>3 DEF PopCopy
  <2>2. \A j \in 0 .. Length[Oldest] - 1 : Slot(read_pos, j) = Base(read_pos) + HeadSize + j
    BY <1>0, <1>1, <1>3, StraightSlots
  <2>3. Intact(buf, Oldest)
    BY <1>1, <2>2 DEF Intact, PartStored
  <2> HIDE DEF buf
  <2> QED BY <1>0, <1>1, <1>2, <2>1, <2>3, VerifyInv
<1>4. CASE LoopsBack(read_pos, cnew)
  <2>1. PICK sz \in Nat : sz = FirstPart(read_pos)
    BY <1>0, <1>1, <1>4, WrappedSlots
  <2>2. /\ sz < Length[Oldest] /\ Length[Oldest] - sz <= Base(cnew)
        /\ \A j \in 0 .. Length[Oldest] - 1 :
             Slot(read_pos, j) = IF j < sz THEN Base(read_pos) + HeadSize + j ELSE j - sz
    BY <1>0, <1>1, <1>4, <2>1, WrappedSlots
  <2>3. /\ failed' = (failed \/ sz >= Length[Oldest] \/ Length[Oldest] - sz > Base(cnew))
        /\ cbuf' = [j \in 0 .. sz - 1 |-> cells[Base(read_pos) + HeadSize + j]]
        /\ cpc' = "wrap"
    BY <1>1, <1>4, <2>1 DEF PopCopy
  <2>4. failed' = failed
    <3>1. Base(cnew) \in Nat
      BY <1>0, BaseType DEF TypeOK
    <3>2. ~(sz >= Length[Oldest]) /\ ~(Length[Oldest] - sz > Base(cnew))
      BY <1>1, <2>2, <3>1
    <3>3. failed \in BOOLEAN
      BY <1>0 DEF TypeOK
    <3> QED BY <2>3, <3>2, <3>3, Zenon
  <2>5. cbuf' = [j \in 0 .. sz - 1 |-> DataCell(Oldest, j)]
    <3>1. \A j \in 0 .. sz - 1 :
            cells[Base(read_pos) + HeadSize + j] = DataCell(Oldest, j)
      BY <1>1, <2>2 DEF PartStored
    <3> QED BY <2>3, <3>1
  <2>6. cnew' \in Node /\ cdata' \in BOOLEAN /\ cap' \in Nat /\ batch > 0
    BY <1>0, <1>2 DEF TypeOK, PopCopy
  <2>7. /\ TypeOK' /\ NoAssertionFails' /\ Tiling' /\ Room' /\ UnreadStored' /\ PushProgress'
        /\ Oldest' = Oldest
    BY <1>2, <2>3, <2>4, <2>6, PopFrame
  <2>8. PopProgress'
    <3>1. /\ nread' < Len(log') /\ cnew' = Advance(read_pos', Need(Oldest'))
          /\ LoopsBack(read_pos', cnew') /\ FirstPart(read_pos') = sz
      BY <1>0, <1>2, <1>4, <2>1, <2>7 DEF history, ring
    <3> QED BY <2>3, <2>5, <2>7, <3>1 DEF PopProgress
  <2> QED BY <2>7, <2>8 DEF IInv
<1> QED BY <1>3, <1>4

\* The second memcpy of pop() completes the payload of a message that wraps.
LEMMA PopWrapInv ==
  ASSUME IInv, PopWrap
  PROVE  IInv'
<1>0. TypeOK /\ Tiling /\ UnreadStored /\ nread < Len(log) /\ cpc = "wrap"
      /\ cnew = Advance(read_pos, Need(Oldest)) /\ LoopsBack(read_pos, cnew)
      /\ cbuf = [j \in 0 .. FirstPart(read_pos) - 1 |-> DataCell(Oldest, j)]
  BY DEF IInv, PopWrap, PopProgress
<1>1. /\ Oldest \in Msg /\ read_pos \in Node /\ CurrentMsg = Oldest
      /\ Need(Oldest) <= NodeCount - 1 /\ Length[Oldest] \in Nat \ {0}
      /\ PartStored(cells, read_pos, Oldest, Length[Oldest])
  BY <1>0, AtOldest DEF Stored
<1>2. UNCHANGED <<ring, producer, cnew, cdata, cap, received, crashes, history, signalling>>
  BY DEF PopWrap
<1>3. PICK sz \in Nat : sz = FirstPart(read_pos)
  BY <1>0, <1>1, WrappedSlots
<1>4. \A j \in 0 .. Length[Oldest] - 1 :
        Slot(read_pos, j) = IF j < sz THEN Base(read_pos) + HeadSize + j ELSE j - sz
  BY <1>0, <1>1, <1>3, WrappedSlots
<1> DEFINE buf == [j \in 0 .. Length[Oldest] - 1 |->
                     IF j < sz THEN cbuf[j] ELSE cells[j - sz]]
<1>5. Verify(buf)
  BY <1>1, <1>3 DEF PopWrap
<1>6. ASSUME NEW j \in 0 .. Length[Oldest] - 1
      PROVE  (IF j < sz THEN cbuf[j] ELSE cells[j - sz]) = DataCell(Oldest, j)
  <2>1. CASE j < sz
    BY <1>0, <1>3, <2>1
  <2>2. CASE ~(j < sz)
    BY <1>1, <1>4, <2>2 DEF PartStored
  <2> QED BY <2>1, <2>2
<1>7. Intact(buf, Oldest)
  BY <1>6 DEF Intact
<1> HIDE DEF buf
<1> QED BY <1>0, <1>1, <1>2, <1>5, <1>7, VerifyInv

\* Consuming the oldest message moves the reader; everything ahead of it
\* comes nearer by the nodes consumed.
LEMMA PopPublishInv ==
  ASSUME IInv, PopPublish
  PROVE  IInv'
<1>0. TypeOK /\ Tiling /\ UnreadStored /\ Room /\ PushProgress /\ NoAssertionFails
      /\ nread < Len(log) /\ cpc = "publish" /\ cnew = Advance(read_pos, Need(Oldest))
  BY DEF IInv, PopPublish, PopProgress
<1>1. /\ nread + 1 \in Unread /\ Oldest \in Msg /\ read_pos \in Node /\ write_pos \in Node
      /\ Need(Oldest) \in Nat \ {0} /\ Need(Oldest) <= UsedNodes
      /\ Need(Oldest) <= NodeCount - 1 /\ UsedNodes \in 0 .. NodeCount - 1 /\ NodeCount \in Nat
  BY <1>0, AtOldest
<1>2. /\ read_pos' = Advance(read_pos, Need(Oldest)) /\ nread' = nread + 1 /\ cpc' = "count"
      /\ UNCHANGED <<cells, write_pos, push_count, pop_count, producer, cnew, cdata,
                     cap, cbuf, failed, crashes, log, signalling>>
  BY <1>0 DEF PopPublish
<1>3. nread \in Nat /\ Len(log) \in Nat /\ nread <= Len(log)
      /\ \A i \in Unread : i \in 1 .. Len(log) /\ log[i].msg \in Msg /\ log[i].at \in Node
  BY <1>0, UnreadType
<1>4. TypeOK' /\ NoAssertionFails'
  <2>1. read_pos' \in Node
    BY <1>1, <1>2, AdvanceType
  <2>2. nread' \in 0 .. Len(log')
    BY <1>0, <1>2, <1>3
  <2> QED BY <1>0, <1>2, <2>1, <2>2 DEF TypeOK, NoAssertionFails, producer, signalling
<1>5. UsedNodes' = UsedNodes - Need(Oldest)
  BY <1>1, <1>2, GapShift DEF UsedNodes
<1>6. PICK f \in Nat : f = nread + 1
  BY <1>3
<1>7. Unread' = Unread \ {f} /\ \A i \in Unread' : i \in Unread /\ f < i
  BY <1>2, <1>3, <1>6 DEF Unread
<1>8. Dist(f) = 0 /\ log[f].msg = Oldest
  BY <1>0, <1>6 DEF Tiling, Oldest
<1>9. ASSUME NEW i \in Unread'
      PROVE  /\ Dist(i)' = Dist(i) - Need(Oldest) /\ Need(Oldest) <= Dist(i)
             /\ log'[i] = log[i] /\ Dist(i) \in Nat /\ Need(log[i].msg) \in Nat
  <2>1. i \in Unread /\ f \in Unread /\ f < i
    BY <1>1, <1>6, <1>7
  <2>2. Dist(f) + Need(log[f].msg) <= Dist(i)
    BY <1>0, <2>1 DEF Tiling
  <2>3. log[i].at \in Node /\ log[i].msg \in Msg
    BY <1>3, <2>1
  <2>4. Dist(i) \in 0 .. NodeCount - 1 /\ Need(log[i].msg) \in Nat
    BY <1>1, <2>3, GapType, NeedSpan DEF Dist
  <2>5. Need(Oldest) <= Gap(read_pos, log[i].at)
    BY <1>1, <1>8, <2>2, <2>4 DEF Dist
  <2>6. Gap(Advance(read_pos, Need(Oldest)), log[i].at) = Gap(read_pos, log[i].at) - Need(Oldest)
    BY <1>1, <2>3, <2>5, GapShift
  <2> QED BY <1>1, <1>2, <2>4, <2>5, <2>6 DEF Dist
<1>10. Tiling'
  <2>1. nread' = Len(log') => UsedNodes' = 0
    <3> SUFFICES ASSUME nread + 1 = Len(log) PROVE UsedNodes' = 0
      BY <1>2
    <3>1. Dist(f) + Need(log[f].msg) = UsedNodes
      BY <1>0, <1>6 DEF Tiling
    <3> QED BY <1>1, <1>5, <1>8, <3>1
  <2>2. nread' < Len(log') => Dist(nread + 1)' = 0
    <3> SUFFICES ASSUME nread + 1 < Len(log) PROVE Dist(nread + 1)' = 0
      BY <1>2
    <3>1. PICK g \in Nat : g = f + 1
      OBVIOUS
    <3>2. g \in Unread' /\ nread' + 1 = g
      BY <1>2, <1>3, <1>6, <3>1 DEF Unread
    <3>3. Dist(f + 1) = Dist(f) + Need(log[f].msg)
      BY <1>0, <1>1, <1>6 DEF Tiling
    <3>4. Dist(g)' = 0
      BY <1>1, <1>8, <1>9, <3>1, <3>2, <3>3
    <3> QED BY <3>2, <3>4
  <2>3. ASSUME NEW i \in Unread', i < Len(log')
        PROVE  Dist(i + 1)' = Dist(i)' + Need(log'[i].msg)
    <3>1. i \in Unread /\ i < Len(log) /\ i + 1 \in Unread'
      BY <1>2, <1>3, <1>6, <1>7, <2>3 DEF Unread
    <3>2. Dist(i + 1) = Dist(i) + Need(log[i].msg)
      BY <1>0, <3>1 DEF Tiling
    <3> QED BY <1>1, <1>9, <3>1, <3>2
  <2>4. nread' < Len(log') => Dist(Len(log))' + Need(log'[Len(log')].msg) = UsedNodes'
    <3> SUFFICES ASSUME nread + 1 < Len(log)
                 PROVE  Dist(Len(log))' + Need(log'[Len(log')].msg) = UsedNodes'
      BY <1>2
    <3>1. PICK n \in Nat : n = Len(log)
      BY <1>3
    <3>2. n \in Unread' /\ Len(log') = n
      BY <1>2, <1>3, <1>6, <3>1 DEF Unread
    <3>3. Dist(n) + Need(log[n].msg) = UsedNodes
      BY <1>0, <3>1 DEF Tiling
    <3>4. Dist(n)' + Need(log'[n].msg) = UsedNodes'
      BY <1>1, <1>5, <1>9, <3>2, <3>3
    <3> QED BY <3>2, <3>4
  <2>5. ASSUME NEW i \in Unread' PROVE Dist(i)' + Need(log'[i].msg) <= UsedNodes'
    <3>1. Dist(i) + Need(log[i].msg) <= UsedNodes
      BY <1>0, <1>7 DEF Tiling
    <3> QED BY <1>1, <1>5, <1>9, <3>1
  <2>6. ASSUME NEW i \in Unread', NEW k \in Unread', i < k
        PROVE  Dist(i)' + Need(log'[i].msg) <= Dist(k)'
    <3>1. Dist(i) + Need(log[i].msg) <= Dist(k)
      BY <1>0, <1>7, <2>6 DEF Tiling
    <3> QED BY <1>1, <1>9, <3>1
  <2> QED BY <2>1, <2>2, <2>3, <2>4, <2>5, <2>6 DEF Tiling
<1>11. Room'
  <2>1. pmsg' = pmsg /\ ppc' = ppc
    BY <1>2 DEF producer
  <2>2. Pushing' => UsedNodes + Need(pmsg) <= NodeCount - 1 /\ Need(pmsg') = Need(pmsg)
    BY <1>0, <2>1 DEF Room, Pushing
  <2>3. Need(pmsg) \in Nat
    BY <1>0, NeedSpan DEF TypeOK
  <2> QED BY <1>1, <1>5, <2>2, <2>3 DEF Room
<1>12. UnreadStored'
  BY <1>0, <1>2, <1>7 DEF UnreadStored
<1>13. PushProgress'
  BY <1>0, <1>2 DEF PushProgress, PNew, producer
<1>14. PopProgress'
  BY <1>2 DEF PopProgress
<1> QED BY <1>4, <1>10, <1>11, <1>12, <1>13, <1>14 DEF IInv

\* pop_count plays no part in the layout.
LEMMA PopCountInv ==
  ASSUME IInv, PopCount
  PROVE  IInv'
<1>1. (pop_count + 1) % CountMod \in 0 .. CountMod - 1 /\ batch - 1 \in 0 .. Rate
  BY ChannelAssumption DEF IInv, TypeOK, PopCount
<1>2. TypeOK' /\ NoAssertionFails'
  BY <1>1 DEF IInv, TypeOK, NoAssertionFails, PopCount, producer, history
<1>3. Tiling' /\ UnreadStored'
  BY DEF IInv, Tiling, UnreadStored, PopCount, history, UsedNodes, Dist, Unread
<1>4. Room' /\ PushProgress'
  BY DEF IInv, Room, Pushing, PushProgress, PopCount, producer, UsedNodes, PNew
<1>5. PopProgress'
  BY DEF PopProgress, PopCount
<1> QED BY <1>2, <1>3, <1>4, <1>5 DEF IInv

\* The handler begins and ends outside pop().
LEMMA HandlerInv ==
  ASSUME IInv, HandleSignal \/ PopEmpty
  PROVE  IInv'
<1>1. /\ signals' \in 0 .. MaxSignals /\ batch' \in 0 .. Rate /\ cpc = "idle"
      /\ UNCHANGED <<ring, producer, consumer, failed, crashes, history, lost>>
  BY ChannelAssumption DEF IInv, TypeOK, HandleSignal, PopEmpty
<1>2. TypeOK' /\ NoAssertionFails'
  BY <1>1 DEF IInv, TypeOK, NoAssertionFails, ring, producer, consumer, history
<1>3. Tiling' /\ UnreadStored' /\ Room' /\ PushProgress'
  BY <1>1 DEF IInv, Tiling, UnreadStored, Room, Pushing, PushProgress, ring, producer, history,
              UsedNodes, Dist, Unread, PNew
<1>4. PopProgress'
  BY <1>1 DEF PopProgress, consumer
<1> QED BY <1>2, <1>3, <1>4 DEF IInv
------------------------------------------------------------------------------
(* Crashes, and the whole *)

\* A crash forgets the call in progress and leaves the memory alone.
LEMMA CrashInv ==
  ASSUME IInv, ProducerCrash \/ ConsumerCrash
  PROVE  IInv'
<1>1. CASE ProducerCrash
  <2>1. TypeOK' /\ NoAssertionFails'
    BY <1>1, ChannelAssumption
       DEF IInv, TypeOK, NoAssertionFails, ProducerCrash, ring, consumer, history, signalling
  <2>2. Tiling' /\ UnreadStored' /\ PopProgress'
    BY <1>1 DEF IInv, Tiling, UnreadStored, PopProgress, ProducerCrash, ring, consumer,
                history, UsedNodes, Dist, Unread, Oldest
  <2>3. Room' /\ PushProgress'
    BY <1>1 DEF Room, Pushing, PushProgress, ProducerCrash
  <2> QED BY <2>1, <2>2, <2>3 DEF IInv
<1>2. CASE ConsumerCrash
  <2>1. TypeOK' /\ NoAssertionFails'
    BY <1>2, ChannelAssumption
       DEF IInv, TypeOK, NoAssertionFails, ConsumerCrash, ring, producer, history
  <2>2. Tiling' /\ UnreadStored'
    BY <1>2 DEF IInv, Tiling, UnreadStored, ConsumerCrash, ring, history, UsedNodes, Dist,
                Unread
  <2>3. Room' /\ PushProgress'
    BY <1>2 DEF IInv, Room, Pushing, PushProgress, ConsumerCrash, ring, producer, UsedNodes,
                PNew
  <2>4. PopProgress'
    BY <1>2 DEF PopProgress, ConsumerCrash
  <2> QED BY <2>1, <2>2, <2>3, <2>4 DEF IInv
<1> QED BY <1>1, <1>2

\* The invariant is about the variables only.
LEMMA StutterInv ==
  ASSUME IInv, UNCHANGED vars
  PROVE  IInv'
<1>1. UNCHANGED <<ring, producer, crashes, history, signalling>> /\ failed' = failed
      /\ UNCHANGED <<cpc, cnew, cdata, cap, cbuf, received>>
  BY DEF vars, consumer
<1>2. /\ cpc' \in {"idle", "head", "copy", "wrap", "publish", "count"}
      /\ cpc' # "idle" => batch > 0
      /\ cnew' \in Node /\ cdata' \in BOOLEAN /\ cap' \in Nat
  BY <1>1 DEF IInv, TypeOK
<1>3. /\ TypeOK' /\ NoAssertionFails' /\ Tiling' /\ Room' /\ UnreadStored' /\ PushProgress'
      /\ Oldest' = Oldest
  BY <1>1, <1>2, PopFrame
<1>4. PopProgress'
  BY <1>1, <1>3 DEF IInv, PopProgress, history, ring
<1> QED BY <1>3, <1>4 DEF IInv

\* Every step preserves the invariant.
LEMMA NextInv == IInv /\ [Next]_vars => IInv'
<1> SUFFICES ASSUME IInv, [Next]_vars PROVE IInv'
  OBVIOUS
<1>1. ASSUME NEW m \in Msg, PushBegin(m) \/ PushNoSpace(m) PROVE IInv'
  BY <1>1, PushBeginInv, PushNoSpaceInv
<1>2. CASE PushStep
  BY <1>2, PushCopyInv, PushWrapInv, PushHeadInv, PushPublishInv, PushCountInv,
     PushSignalInv DEF PushStep
<1>3. ASSUME NEW d \in BOOLEAN, PopBegin(d) PROVE IInv'
  BY <1>3, PopBeginInv
<1>4. CASE PopStep
  BY <1>4, PopHeadInv, PopCopyInv, PopWrapInv, PopPublishInv, PopCountInv DEF PopStep
<1>5. CASE ProducerCrash \/ ConsumerCrash
  BY <1>5, CrashInv
<1>6. CASE HandleSignal \/ PopEmpty
  BY <1>6, HandlerInv
<1>7. CASE UNCHANGED vars
  BY <1>7, StutterInv
<1> QED BY <1>1, <1>2, <1>3, <1>4, <1>5, <1>6, <1>7 DEF Next

\* The inductive invariant holds in every reachable state, for every ring,
\* every set of messages and any number of crashes.
THEOREM Invariance == Spec => []IInv
BY InitInv, NextInv, PTL DEF Spec

\* Type correctness of struct channel and of the calls in progress.
THEOREM TypeCorrect == Spec => []TypeOK
<1>1. IInv => TypeOK
  BY DEF IInv
<1> QED BY <1>1, Invariance, PTL

\* No assertion of push() or pop() ever fails.
THEOREM AssertionsHold == Spec => []NoAssertionFails
<1>1. IInv => NoAssertionFails
  BY DEF IInv
<1> QED BY <1>1, Invariance, PTL

\* A push in progress never writes a node of a message not yet consumed.
THEOREM WriterSafe == Spec => []WriterKeepsOffUnread
<1>1. IInv => WriterKeepsOffUnread
  <2> SUFFICES ASSUME IInv, Pushing, NEW i \in Unread, NEW p \in Node,
                      InRun(p, log[i].at, Need(log[i].msg)), InRun(p, write_pos, Need(pmsg))
               PROVE  FALSE
    BY DEF WriterKeepsOffUnread, Pushing
  <2>0. /\ log[i].msg \in Msg /\ log[i].at \in Node /\ write_pos \in Node /\ read_pos \in Node
        /\ Need(log[i].msg) \in Nat /\ Need(pmsg) \in Nat /\ NodeCount \in Nat /\ NodeCount > 1
    BY UnreadType, NeedSpan, ChannelAssumption DEF IInv, TypeOK
  <2>1. Gap(log[i].at, p) < Need(log[i].msg) /\ Gap(write_pos, p) < Need(pmsg)
    BY <2>0, GapMod DEF InRun
  <2>2. Dist(i) + Need(log[i].msg) <= UsedNodes /\ UsedNodes + Need(pmsg) <= NodeCount - 1
    BY DEF IInv, Tiling, Room
  <2> QED BY <2>0, <2>1, <2>2 DEF Gap, Dist, UsedNodes, Node
<1> QED BY <1>1, Invariance, PTL
------------------------------------------------------------------------------
(* The counters *)

\* A number is a multiple of n plus its remainder.
LEMMA Quotient ==
  ASSUME NEW a \in Int, NEW n \in Nat \ {0}
  PROVE  \E x \in Int : x * n \in Int /\ a = x * n + (a % n) /\ a % n \in 0 .. n - 1
<1>1. a = n * (a \div n) + (a % n) /\ a % n \in 0 .. n - 1 /\ a \div n \in Int
  OBVIOUS
<1>2. n * (a \div n) = (a \div n) * n /\ (a \div n) * n \in Int
  BY <1>1
<1> QED BY <1>1, <1>2

\* Multiplication distributes over subtraction.
LEMMA MulMinus ==
  ASSUME NEW x \in Int, NEW y \in Int, NEW n \in Int
  PROVE  (x - y) * n = x * n - y * n
OBVIOUS

\* No multiple of n but 0 lies between -n and n.
LEMMA SmallMultiple ==
  ASSUME NEW z \in Int, NEW n \in Nat \ {0}, -n < z * n, z * n < n
  PROVE  z * n = 0
<1>1. z >= 1 => z * n >= n
  OBVIOUS
<1>2. z <= -1 => z * n <= -n
  OBVIOUS
<1>3. z = 0 => z * n = 0
  OBVIOUS
<1>4. z * n \in Int
  OBVIOUS
<1> QED BY <1>1, <1>2, <1>3, <1>4

\* A number below the modulus is its own remainder.
LEMMA ModIdentity ==
  ASSUME NEW x \in Nat, NEW n \in Nat \ {0}, x < n
  PROVE  x % n = x
BY ModSmall

\* Numbers that differ by a multiple of the modulus have the same remainder.
LEMMA ModShift ==
  ASSUME NEW b \in Int, NEW q \in Int, NEW n \in Nat \ {0}
  PROVE  (b + q * n) % n = b % n
<1>0. PICK a \in Int : a = b + q * n
  OBVIOUS
<1>1. PICK x \in Int : x * n \in Int /\ a = x * n + (a % n) /\ a % n \in 0 .. n - 1
  BY Quotient
<1>2. PICK y \in Int : y * n \in Int /\ b = y * n + (b % n) /\ b % n \in 0 .. n - 1
  BY Quotient
<1>3. PICK z \in Int : z = (x - y) - q
  OBVIOUS
<1>4. z * n = (x * n - y * n) - q * n
  BY <1>3, MulMinus
<1>5. PICK X \in Int, Y \in Int, Q \in Int : X = x * n /\ Y = y * n /\ Q = q * n
  BY <1>1, <1>2
<1>6. z * n = (b % n) - (a % n)
  <2>1. z * n = (X - Y) - Q
    BY <1>4, <1>5
  <2>2. a = X + (a % n) /\ b = Y + (b % n) /\ a = b + Q
    BY <1>0, <1>1, <1>2, <1>5
  <2>3. PICK r \in Int : r = a % n
    BY <1>1
  <2>4. PICK t \in Int : t = b % n
    BY <1>2
  <2>5. (X - Y) - Q = t - r
    BY <2>2, <2>3, <2>4
  <2> QED BY <2>1, <2>3, <2>4, <2>5
<1>7. -n < z * n /\ z * n < n
  BY <1>1, <1>2, <1>6
<1>8. z * n = 0
  BY <1>7, SmallMultiple
<1>9. a % n = b % n
  BY <1>1, <1>2, <1>6, <1>8
<1> QED BY <1>0, <1>9

\* Counting up modulo n, and subtracting two counters.
LEMMA ModCount ==
  ASSUME NEW a \in Int, NEW b \in Int, NEW n \in Nat \ {0}
  PROVE  /\ ((a % n) + 1) % n = (a + 1) % n
         /\ ((a % n) - (b % n)) % n = (a - b) % n
<1>1. PICK x \in Int : x * n \in Int /\ a = x * n + (a % n) /\ a % n \in 0 .. n - 1
  BY Quotient
<1>2. PICK y \in Int : y * n \in Int /\ b = y * n + (b % n) /\ b % n \in 0 .. n - 1
  BY Quotient
<1>3. PICK r \in Int : r = a % n
  BY <1>1
<1>4. PICK t \in Int : t = b % n
  BY <1>2
<1>5. PICK X \in Int : X = x * n
  BY <1>1
<1>6. PICK Y \in Int : Y = y * n
  BY <1>2
<1>7. a = X + r /\ b = Y + t
  BY <1>1, <1>2, <1>3, <1>4, <1>5, <1>6
<1>8. (a + 1) % n = (r + 1) % n
  <2>1. a + 1 = (r + 1) + x * n
    BY <1>5, <1>7
  <2> DEFINE c == a + 1
             d == r + 1
  <2>2. c \in Int /\ d \in Int /\ c = d + x * n
    BY <2>1
  <2> HIDE DEF c, d
  <2>3. (d + x * n) % n = d % n
    BY <2>2, ModShift, Zenon
  <2> QED BY <2>2, <2>3 DEF c, d
<1>9. (a - b) % n = (r - t) % n
  <2>1. (x - y) * n = X - Y
    BY <1>5, <1>6, MulMinus
  <2> DEFINE c == a - b
             d == r - t
             z == x - y
  <2>2. c \in Int /\ d \in Int /\ z \in Int /\ c = d + z * n
    BY <1>7, <2>1
  <2> HIDE DEF c, d, z
  <2>3. (d + z * n) % n = d % n
    BY <2>2, ModShift, Zenon
  <2> QED BY <2>2, <2>3 DEF c, d
<1> QED BY <1>3, <1>4, <1>8, <1>9

\* What the counters count: push_count the messages published less those whose
\* producer died before counting them, pop_count likewise, and there is a
\* crash for every message that went uncounted.
CounterInv ==
  \E lp, lc \in Nat :
    /\ lp + lc <= crashes
    /\ lp + Uncounted(ppc) <= Len(log) /\ lc + Uncounted(cpc) <= nread
    /\ push_count = (Len(log) - lp - Uncounted(ppc)) % CountMod
    /\ pop_count = (nread - lc - Uncounted(cpc)) % CountMod

\* Only publishing, counting and dying in between concern the counters.
LEMMA CounterNext == IInv /\ CounterInv /\ [Next]_vars => CounterInv'
<1> SUFFICES ASSUME IInv, CounterInv, [Next]_vars PROVE CounterInv'
  OBVIOUS
<1>0. Len(log) \in Nat /\ nread \in Nat /\ crashes \in Nat /\ CountMod \in Nat \ {0}
  BY ChannelAssumption DEF IInv, TypeOK
<1>1. PICK lp \in Nat, lc \in Nat :
        /\ lp + lc <= crashes
        /\ lp + Uncounted(ppc) <= Len(log) /\ lc + Uncounted(cpc) <= nread
        /\ push_count = (Len(log) - lp - Uncounted(ppc)) % CountMod
        /\ pop_count = (nread - lc - Uncounted(cpc)) % CountMod
  BY DEF CounterInv
<1>2. CASE PushPublish
  <2>1. /\ Len(log') = Len(log) + 1 /\ Uncounted(ppc) = 0 /\ Uncounted(ppc') = 1
        /\ UNCHANGED <<push_count, pop_count, cpc, crashes, nread>>
    <3>1. log \in Seq([msg : Msg, at : Node])
      BY DEF IInv, TypeOK
    <3>2. Len(Append(log, [msg |-> pmsg, at |-> write_pos])) = Len(log) + 1
      BY <3>1
    <3> QED BY <1>2, <3>2 DEF PushPublish, Uncounted, consumer
  <2>2. /\ Len(log') - lp - Uncounted(ppc') = Len(log) - lp - Uncounted(ppc)
        /\ lp + Uncounted(ppc') <= Len(log')
    BY <1>0, <1>1, <2>1
  <2> QED BY <1>1, <2>1, <2>2 DEF CounterInv
<1>3. CASE PushCount
  <2>1. /\ Uncounted(ppc) = 1 /\ Uncounted(ppc') = 0 /\ push_count' = (push_count + 1) % CountMod
        /\ UNCHANGED <<pop_count, cpc, crashes, log, nread>>
    BY <1>3 DEF PushCount, Uncounted, consumer, history
  <2>2. PICK a \in Int : a = Len(log) - lp - 1
    <3>1. Len(log) - lp - 1 \in Int
      BY <1>0
    <3> QED BY <3>1, Zenon
  <2>3. push_count = a % CountMod
    BY <1>1, <2>1, <2>2
  <2>4. push_count' = (a + 1) % CountMod
    BY <1>0, <2>1, <2>3, ModCount
  <2>5. a + 1 = Len(log') - lp - Uncounted(ppc') /\ lp + Uncounted(ppc') <= Len(log')
    BY <1>0, <1>1, <2>1, <2>2
  <2> QED BY <1>1, <2>1, <2>4, <2>5 DEF CounterInv
<1>4. CASE PopPublish
  <2>1. /\ nread' = nread + 1 /\ Uncounted(cpc) = 0 /\ Uncounted(cpc') = 1
        /\ UNCHANGED <<push_count, pop_count, ppc, crashes, log>>
    BY <1>4 DEF PopPublish, Uncounted, producer
  <2>2. /\ nread' - lc - Uncounted(cpc') = nread - lc - Uncounted(cpc)
        /\ lc + Uncounted(cpc') <= nread'
    BY <1>0, <1>1, <2>1
  <2> QED BY <1>1, <2>1, <2>2 DEF CounterInv
<1>5. CASE PopCount
  <2>1. /\ Uncounted(cpc) = 1 /\ Uncounted(cpc') = 0 /\ pop_count' = (pop_count + 1) % CountMod
        /\ UNCHANGED <<push_count, ppc, crashes, log, nread>>
    BY <1>5 DEF PopCount, Uncounted, producer, history
  <2>2. PICK a \in Int : a = nread - lc - 1
    BY <1>0
  <2>3. pop_count = a % CountMod
    BY <1>1, <2>1, <2>2
  <2>4. pop_count' = (a + 1) % CountMod
    BY <1>0, <2>1, <2>3, ModCount
  <2>5. a + 1 = nread' - lc - Uncounted(cpc') /\ lc + Uncounted(cpc') <= nread'
    BY <1>0, <1>1, <2>1, <2>2
  <2> QED BY <1>1, <2>1, <2>4, <2>5 DEF CounterInv
<1>6. CASE ProducerCrash
  <2>1. /\ crashes' = crashes + 1 /\ Uncounted(ppc') = 0 /\ Uncounted(ppc) \in {0, 1}
        /\ UNCHANGED <<push_count, pop_count, cpc, log, nread>>
    BY <1>6 DEF ProducerCrash, Uncounted, ring, consumer, history
  <2>2. PICK l \in Nat : l = lp + Uncounted(ppc)
    BY <2>1
  <2>3. /\ l + lc <= crashes' /\ l + Uncounted(ppc') <= Len(log')
        /\ Len(log') - l - Uncounted(ppc') = Len(log) - lp - Uncounted(ppc)
    <3>1. PICK u \in {0, 1} : u = Uncounted(ppc)
      BY <2>1
    <3>2. lp + lc <= crashes /\ lp + u <= Len(log) /\ Uncounted(ppc') = 0 /\ log' = log
      BY <1>1, <2>1, <3>1
    <3> QED BY <1>0, <2>1, <2>2, <3>1, <3>2
  <2> QED BY <1>1, <2>1, <2>3 DEF CounterInv
<1>7. CASE ConsumerCrash
  <2>1. /\ crashes' = crashes + 1 /\ Uncounted(cpc') = 0 /\ Uncounted(cpc) \in {0, 1}
        /\ UNCHANGED <<push_count, pop_count, ppc, log, nread>>
    BY <1>7 DEF ConsumerCrash, Uncounted, ring, producer, history
  <2>2. PICK l \in Nat : l = lc + Uncounted(cpc)
    BY <2>1
  <2>3. lp + l <= crashes' /\ l + Uncounted(cpc') <= nread'
    BY <1>0, <1>1, <2>1, <2>2
  <2>4. nread' - l - Uncounted(cpc') = nread - lc - Uncounted(cpc)
    BY <1>0, <2>1, <2>2
  <2> QED BY <1>1, <2>1, <2>3, <2>4 DEF CounterInv
<1>8. ASSUME /\ UNCHANGED <<push_count, pop_count, crashes, log, nread>>
             /\ Uncounted(ppc') = Uncounted(ppc) /\ Uncounted(cpc') = Uncounted(cpc)
      PROVE  CounterInv'
  BY <1>1, <1>8 DEF CounterInv
<1>9. CASE \E m \in Msg : PushBegin(m) \/ PushNoSpace(m)
  BY <1>8, <1>9 DEF PushBegin, PushNoSpace, Uncounted, ring, consumer, history
<1>10. CASE PushCopy \/ PushWrap \/ PushHead \/ PushSignal
  BY <1>8, <1>10 DEF PushCopy, PushWrap, PushHead, PushSignal, Uncounted, ring, consumer, history
<1>11. CASE \E d \in BOOLEAN : PopBegin(d)
  BY <1>8, <1>11 DEF PopBegin, Uncounted, ring, producer, history
<1>12. CASE PopHead
  BY <1>8, <1>12 DEF PopHead, Uncounted, ring, producer, history
<1>13. CASE PopCopy \/ PopWrap
  BY <1>8, <1>13 DEF PopCopy, PopWrap, Verify, Uncounted, ring, producer, history
<1>14. CASE UNCHANGED vars
  BY <1>8, <1>14 DEF vars, ring, producer, consumer, history
<1>15. CASE HandleSignal \/ PopEmpty
  BY <1>8, <1>15 DEF HandleSignal, PopEmpty, Uncounted, ring, producer, consumer, history
<1> QED BY <1>2, <1>3, <1>4, <1>5, <1>6, <1>7, <1>9, <1>10, <1>11, <1>12, <1>13, <1>14, <1>15
        DEF Next, PushStep, PopStep

\* A message takes a node, so the ring holds fewer messages than nodes: their
\* distances from read_pos are different.
LEMMA FewUnread ==
  ASSUME IInv
  PROVE  Len(log) - nread < NodeCount
<1>0. /\ nread \in Nat /\ Len(log) \in Nat /\ nread <= Len(log)
      /\ NodeCount \in Nat /\ NodeCount > 1 /\ read_pos \in Node /\ write_pos \in Node
  BY UnreadType, ChannelAssumption DEF IInv, TypeOK
<1>1. UsedNodes \in 0 .. NodeCount - 1
  BY <1>0, GapType DEF UsedNodes
<1>2. ASSUME NEW i \in Unread
      PROVE  /\ Dist(i) \in 0 .. NodeCount - 1 /\ Need(log[i].msg) \in Nat \ {0}
             /\ Dist(i) + Need(log[i].msg) <= UsedNodes
  <2>1. log[i].msg \in Msg /\ log[i].at \in Node
    BY UnreadType DEF IInv
  <2> QED BY <1>0, <2>1, NeedSpan, GapType DEF IInv, Tiling, Dist
<1>3. ASSUME NEW i \in Unread, NEW k \in Unread, i < k PROVE Dist(i) # Dist(k)
  <2>1. Dist(i) + Need(log[i].msg) <= Dist(k)
    BY <1>3 DEF IInv, Tiling
  <2> QED BY <1>2, <2>1
<1> DEFINE T == 0 .. NodeCount - 2
           f == [i \in Unread |-> Dist(i)]
<1>4. f \in [Unread -> T]
  <2>1. \A i \in Unread : Dist(i) \in T
    BY <1>0, <1>1, <1>2
  <2> QED BY <2>1
<1>5. f \in Injection(Unread, T)
  <2>1. \A i, k \in Unread : i # k => f[i] # f[k]
    <3> SUFFICES ASSUME NEW i \in Unread, NEW k \in Unread, i # k PROVE Dist(i) # Dist(k)
      OBVIOUS
    <3>1. i < k \/ k < i
      BY <1>0 DEF Unread
    <3> QED BY <1>3, <3>1
  <2> QED BY <1>4, <2>1 DEF Injection, IsInjective
<1>6. IsFiniteSet(T) /\ Cardinality(T) = NodeCount - 1
  <2>1. PICK b \in Int : b = NodeCount - 2
    BY <1>0
  <2>2. IsFiniteSet(0 .. b) /\ Cardinality(0 .. b) = IF 0 > b THEN 0 ELSE b - 0 + 1
    BY FS_Interval
  <2> QED BY <1>0, <2>1, <2>2
<1>7. Cardinality(Unread) = Len(log) - nread
  <2>1. PICK a \in Int, b \in Int : a = nread + 1 /\ b = Len(log)
    BY <1>0
  <2>2. Cardinality(a .. b) = IF a > b THEN 0 ELSE b - a + 1
    BY FS_Interval
  <2> QED BY <1>0, <2>1, <2>2 DEF Unread
<1> HIDE DEF T, f
<1>8. Cardinality(Unread) <= Cardinality(T)
  BY <1>5, <1>6, FS_Injection
<1> QED BY <1>0, <1>6, <1>7, <1>8

\* message_count() is off by no more than the positions moved and not counted
\* until push_count wraps, and after that right or 0 unless a process died.
THEOREM CountersBounded == Spec => []CountersAgree
<1>1. Init => CounterInv
  <2> SUFFICES ASSUME Init PROVE CounterInv
    OBVIOUS
  <2>1. CountMod \in Nat \ {0} /\ 0 % CountMod = 0
    BY ChannelAssumption, ModSmall
  <2>2. /\ 0 + 0 <= crashes /\ Len(log) - 0 - Uncounted(ppc) = 0
        /\ nread - 0 - Uncounted(cpc) = 0
        /\ 0 + Uncounted(ppc) <= Len(log) /\ 0 + Uncounted(cpc) <= nread
    BY DEF Init, Uncounted
  <2>3. push_count = 0 /\ pop_count = 0
    BY DEF Init
  <2> QED BY <2>1, <2>2, <2>3 DEF CounterInv
<1>2. IInv /\ CounterInv => CountersAgree
  <2> SUFFICES ASSUME IInv, CounterInv PROVE CountersAgree
    OBVIOUS
  <2>0. /\ Len(log) \in Nat /\ nread \in Nat /\ nread <= Len(log) /\ crashes \in Nat
        /\ CountMod \in Nat \ {0} /\ NodeCount \in Nat /\ NodeCount <= CountMod
        /\ push_count \in 0 .. CountMod - 1 /\ pop_count \in 0 .. CountMod - 1
    BY ChannelAssumption DEF IInv, TypeOK
  <2>1. PICK lp \in Nat, lc \in Nat :
          /\ lp + lc <= crashes
          /\ lp + Uncounted(ppc) <= Len(log) /\ lc + Uncounted(cpc) <= nread
          /\ push_count = (Len(log) - lp - Uncounted(ppc)) % CountMod
          /\ pop_count = (nread - lc - Uncounted(cpc)) % CountMod
    BY DEF CounterInv
  <2>2. PICK up \in {0, 1}, uc \in {0, 1} :
          up = Uncounted(ppc) /\ uc = Uncounted(cpc) /\ Slack = crashes + up + uc
    BY <2>0 DEF Uncounted, Slack
  <2>3. PICK a \in Nat, b \in Nat : a = Len(log) - lp - up /\ b = nread - lc - uc
    <3>1. lp + up <= Len(log) /\ lc + uc <= nread
      BY <2>1, <2>2
    <3>2. Len(log) - lp - up \in Nat /\ nread - lc - uc \in Nat
      BY <2>0, <3>1
    <3> QED BY <3>2
  <2>4. push_count = a % CountMod /\ pop_count = b % CountMod
    BY <2>1, <2>2, <2>3
  <2>5. lp + lc <= crashes /\ CountMod \in Nat \ {0}
    BY <2>0, <2>1
  <2>6. ASSUME Len(log) < CountMod
        PROVE  /\ message_count <= Len(log) - nread + Slack
               /\ Len(log) - nread <= message_count + Slack
    <3>1. a < CountMod /\ b < CountMod
      BY <2>0, <2>3, <2>6
    <3>2. a % CountMod = a /\ b % CountMod = b
      BY <2>5, <3>1, ModIdentity
    <3>3. push_count = a /\ pop_count = b
      BY <2>4, <3>2
    <3>4. message_count = IF a >= b THEN a - b ELSE 0
      BY <3>3 DEF message_count
    <3>5. PICK n \in Nat, r \in Nat, c \in Nat :
            n = Len(log) /\ r = nread /\ c = crashes /\ r <= n
      BY <2>0, Zenon
    <3>6. lp + lc <= c /\ a = n - lp - up /\ b = r - lc - uc /\ Slack = c + up + uc
      BY <2>2, <2>3, <2>5, <3>5, Zenon
    <3>7. message_count <= n - r + Slack /\ n - r <= message_count + Slack
      <4>1. up \in Nat /\ uc \in Nat
        OBVIOUS
      <4>2. PICK s \in Nat, m \in Nat : s = Slack /\ m = message_count
        <5>1. Slack \in Nat /\ message_count \in Nat
          BY <3>4, <3>6, <4>1
        <5> QED BY <5>1, Zenon
      <4>3. m <= n - r + s
        BY <3>4, <3>5, <3>6, <4>1, <4>2
      <4>4. n - r <= m + s
        BY <3>4, <3>5, <3>6, <4>1, <4>2
      <4> QED BY <4>2, <4>3, <4>4
    <3> QED BY <3>5, <3>7, Zenon
  <2>7. ASSUME Slack = 0 PROVE message_count \in {0, Len(log) - nread}
    <3>1. a = Len(log) /\ b = nread
      BY <2>0, <2>2, <2>3, <2>5, <2>7
    <3>2. PICK h \in Nat : h = Len(log) - nread /\ h < CountMod
      BY <2>0, FewUnread
    <3>3. (push_count - pop_count) % CountMod = h
      <4>1. ((a % CountMod) - (b % CountMod)) % CountMod = (a - b) % CountMod
        <5>1. a \in Int /\ b \in Int
          OBVIOUS
        <5> QED BY <2>5, <5>1, ModCount, Zenon
      <4>2. h % CountMod = h
        BY <2>5, <3>2, ModIdentity
      <4> QED BY <2>4, <3>1, <3>2, <4>1, <4>2, Zenon
    <3>4. ASSUME push_count >= pop_count PROVE push_count - pop_count = h
      <4>1. PICK d \in Nat : d = push_count - pop_count /\ d < CountMod
        BY <2>0, <3>4
      <4>2. d % CountMod = d
        BY <2>5, <4>1, ModIdentity
      <4> QED BY <3>3, <4>1, <4>2, Zenon
    <3> QED BY <3>2, <3>4 DEF message_count
  <2> QED BY <2>6, <2>7 DEF CountersAgree
<1> QED BY <1>1, <1>2, CounterNext, Invariance, PTL DEF Spec
------------------------------------------------------------------------------
(* The signals *)

\* A published message whose signal is still to be sent.
Owed == IF ppc \in {"count", "signal"} THEN 1 ELSE 0

\* As long as no signal is lost and nobody dies, every unread message has a
\* signal of its own: pending, being handled or about to be sent.
Signalled ==
  ~lost /\ crashes = 0 => Len(log) - nread <= signals + (batch - Uncounted(cpc)) + Owed

\* An empty ring has no unread message.
LEMMA EmptyRing ==
  ASSUME IInv, read_pos = write_pos
  PROVE  nread = Len(log)
<1>1. nread \in Nat /\ Len(log) \in Nat /\ nread <= Len(log)
  BY UnreadType DEF IInv
<1>2. UsedNodes = 0
  BY GapType DEF IInv, TypeOK, UsedNodes
<1>3. CASE nread < Len(log)
  <2>1. Need(Oldest) \in Nat \ {0} /\ Need(Oldest) <= UsedNodes
    BY <1>3, AtOldest DEF IInv
  <2> QED BY <1>2, <2>1
<1> QED BY <1>1, <1>3

\* A message that waits in the ring of two live processes is never forgotten:
\* its signal is under way.
THEOREM SignalForEach == Spec => []Signalled
<1>1. Init => Signalled
  BY DEF Init, Signalled, Owed, Uncounted
<1>2. IInv /\ Signalled /\ [Next]_vars => Signalled'
  <2> SUFFICES ASSUME IInv, Signalled, [Next]_vars, ~lost', crashes' = 0
               PROVE  Len(log') - nread' <= signals' + (batch' - Uncounted(cpc')) + Owed'
    BY DEF Signalled
  <2>0. /\ Len(log) \in Nat /\ nread \in Nat /\ signals \in Nat /\ batch \in Nat
        /\ crashes \in Nat /\ Rate \in Nat \ {0} /\ lost \in BOOLEAN
        /\ Uncounted(cpc) \in {0, 1} /\ Owed \in {0, 1}
    BY ChannelAssumption DEF IInv, TypeOK, Uncounted, Owed
  <2>1. ~lost /\ crashes = 0
    BY <2>0 DEF Next, PushBegin, PushNoSpace, PushStep, PushCopy, PushWrap, PushHead, PushPublish,
                PushCount, PushSignal, PopBegin, PopStep, PopHead, PopCopy, PopWrap, PopPublish,
                PopCount, HandleSignal, PopEmpty, ProducerCrash, ConsumerCrash, vars, signalling
  <2>2. Len(log) - nread <= signals + (batch - Uncounted(cpc)) + Owed
    BY <2>1 DEF Signalled
  <2>3. ASSUME UNCHANGED <<log, nread, signals, batch>>, Uncounted(cpc') = Uncounted(cpc),
               Owed' \in {0, 1}, Owed' >= Owed
        PROVE  Len(log') - nread' <= signals' + (batch' - Uncounted(cpc')) + Owed'
    BY <2>0, <2>2, <2>3
  <2>4. CASE PushPublish
    <3>1. /\ Len(log') = Len(log) + 1 /\ UNCHANGED <<nread, signals, batch, cpc>>
          /\ Owed = 0 /\ Owed' = 1
      <4>1. log \in Seq([msg : Msg, at : Node])
        BY DEF IInv, TypeOK
      <4>2. Len(Append(log, [msg |-> pmsg, at |-> write_pos])) = Len(log) + 1
        BY <4>1
      <4> QED BY <2>4, <4>2 DEF PushPublish, Owed, consumer, signalling
    <3> QED BY <2>0, <2>2, <3>1 DEF Uncounted
  <2>5. CASE PushSignal
    <3>1. /\ UNCHANGED <<log, nread, batch, cpc>> /\ signals' = signals + 1
          /\ Owed = 1 /\ Owed' = 0
      BY <2>5 DEF PushSignal, Owed, consumer, history
    <3> QED BY <2>0, <2>2, <3>1 DEF Uncounted
  <2>6. CASE HandleSignal
    <3>1. /\ UNCHANGED <<log, nread, cpc>> /\ signals' = signals - 1
          /\ batch = 0 /\ batch' = Rate /\ Owed' = Owed
      BY <2>6 DEF HandleSignal, Owed, consumer, producer, history
    <3> QED BY <2>0, <2>2, <3>1 DEF Uncounted
  <2>7. CASE PopEmpty
    <3>1. /\ UNCHANGED <<log, nread, signals>> /\ batch' = 0 /\ cpc' = "idle" /\ Owed' = Owed
      BY <2>7 DEF PopEmpty, Owed, consumer, producer, history
    <3>2. nread = Len(log)
      BY <2>7, EmptyRing DEF PopEmpty
    <3> QED BY <2>0, <3>1, <3>2 DEF Uncounted
  <2>8. CASE PopPublish
    <3>1. /\ UNCHANGED <<log, signals, batch>> /\ nread' = nread + 1
          /\ Uncounted(cpc) = 0 /\ Uncounted(cpc') = 1 /\ Owed' = Owed
      BY <2>8 DEF PopPublish, Owed, Uncounted, producer, signalling
    <3> QED BY <2>0, <2>2, <3>1
  <2>9. CASE PopCount
    <3>1. /\ UNCHANGED <<log, nread, signals>> /\ batch' = batch - 1
          /\ Uncounted(cpc) = 1 /\ Uncounted(cpc') = 0 /\ Owed' = Owed
      BY <2>9 DEF PopCount, Owed, Uncounted, producer, history
    <3> QED BY <2>0, <2>2, <3>1
  <2>10. CASE \E m \in Msg : PushBegin(m) \/ PushNoSpace(m)
    BY <2>3, <2>10 DEF PushBegin, PushNoSpace, Owed, Uncounted, consumer, history, signalling
  <2>11. CASE PushCopy \/ PushWrap \/ PushHead \/ PushCount
    BY <2>3, <2>11 DEF PushCopy, PushWrap, PushHead, PushCount, Owed, Uncounted, consumer,
                       history, signalling
  <2>12. CASE \E d \in BOOLEAN : PopBegin(d)
    BY <2>3, <2>12 DEF PopBegin, Owed, Uncounted, producer, history, signalling
  <2>13. CASE PopHead \/ PopCopy \/ PopWrap
    BY <2>3, <2>13 DEF PopHead, PopCopy, PopWrap, Verify, Owed, Uncounted, producer, history,
                       signalling
  <2>14. CASE UNCHANGED vars
    BY <2>3, <2>14 DEF vars, producer, consumer, history, signalling, Owed, Uncounted
  <2>15. ~ProducerCrash /\ ~ConsumerCrash
    BY <2>0 DEF ProducerCrash, ConsumerCrash
  <2> QED BY <2>4, <2>5, <2>6, <2>7, <2>8, <2>9, <2>10, <2>11, <2>12, <2>13, <2>14, <2>15
          DEF Next, PushStep, PopStep
<1> QED BY <1>1, <1>2, Invariance, PTL DEF Spec
------------------------------------------------------------------------------
(* The refinement *)

\* The queue and the received message of the abstract channel.
AbsUsed == (write_pos - read_pos + NodeCount) % NodeCount
AbsReceived ==
  IF received = <<>> THEN <<>>
  ELSE IF Intact(received[2], received[1]) THEN <<received[1]>>
  ELSE <<received>>
AbsNodes == [m \in Msg |-> Need(m)]

\* A sequence, and what is left of it, as functions.
LEMMA SeqFunction ==
  ASSUME NEW S, NEW s \in Seq(S), NEW n \in Nat, Len(s) = n
  PROVE  s = [i \in 1 .. n |-> s[i]]
OBVIOUS

LEMMA TailFunction ==
  ASSUME NEW S, NEW s \in Seq(S), NEW n \in Nat, Len(s) = n + 1
  PROVE  Tail(s) = [i \in 1 .. n |-> s[i + 1]]
<1>1. Tail(s) \in Seq(S) /\ Len(Tail(s)) = n
  OBVIOUS
<1>2. \A i \in 1 .. n : Tail(s)[i] = s[i + 1]
  OBVIOUS
<1>3. Tail(s) = [i \in 1 .. n |-> Tail(s)[i]]
  BY <1>1, SeqFunction
<1> QED BY <1>2, <1>3

\* The queue is a sequence of messages; its head is the oldest one.
LEMMA PendingType ==
  ASSUME TypeOK
  PROVE  /\ Pending \in Seq(Msg) /\ Len(Pending) = Len(log) - nread
         /\ nread < Len(log) => Pending # <<>> /\ Head(Pending) = Oldest
<1>1. PICK n \in Nat : n = Len(log) - nread
  BY DEF TypeOK
<1>2. nread \in Nat /\ Len(log) \in Nat
  BY DEF TypeOK
<1>3. \A i \in 1 .. n : log[nread + i].msg \in Msg
  <2> SUFFICES ASSUME NEW i \in 1 .. n PROVE log[nread + i].msg \in Msg
    OBVIOUS
  <2>1. nread + i \in Unread
    BY <1>1, <1>2 DEF Unread
  <2> QED BY <2>1, UnreadType
<1>4. Pending = [i \in 1 .. n |-> log[nread + i].msg]
  BY <1>1 DEF Pending
<1>5. Pending \in Seq(Msg) /\ Len(Pending) = n
  BY <1>3, <1>4
<1>6. n > 0 => Pending # <<>> /\ Head(Pending) = log[nread + 1].msg
  BY <1>4, <1>5
<1> QED BY <1>1, <1>2, <1>5, <1>6 DEF Oldest

\* A step that moves no position and hands nothing over is a stutter.
LEMMA AbsStutter ==
  ASSUME UNCHANGED <<read_pos, write_pos, log, nread, received>>
  PROVE  UNCHANGED <<Pending, AbsUsed, AbsReceived>>
BY DEF Pending, AbsUsed, AbsReceived, Intact

\* Publishing write_pos is the moment a message enters the queue.
LEMMA PublishAccepts ==
  ASSUME IInv, PushPublish
  PROVE  \E m \in Msg : Fifo!Accept(m)
<1>0. TypeOK /\ Room /\ Pushing /\ pmsg \in Msg /\ write_pos \in Node /\ read_pos \in Node
  BY DEF IInv, TypeOK, PushPublish, Pushing
<1>1. /\ Need(pmsg) \in Nat \ {0} /\ PNew = Advance(write_pos, Need(pmsg)) /\ PNew \in Node
      /\ NodeCount \in Nat
  BY <1>0, PushFits
<1>2. /\ write_pos' = PNew /\ log' = Append(log, [msg |-> pmsg, at |-> write_pos])
      /\ UNCHANGED <<read_pos, nread, received>>
  BY DEF PushPublish, consumer
<1>3. AbsUsed = UsedNodes /\ UsedNodes \in 0 .. NodeCount - 1
  BY <1>0, GapMod, GapType DEF AbsUsed, UsedNodes
<1>4. UsedNodes + Need(pmsg) <= NodeCount - 1
  BY <1>0 DEF Room
<1>5. Gap(read_pos, PNew) = UsedNodes + Need(pmsg)
  BY <1>0, <1>1, <1>4, GapAdvance DEF UsedNodes
<1>6. AbsUsed' = AbsUsed + Need(pmsg)
  BY <1>0, <1>1, <1>2, <1>3, <1>5, GapMod DEF AbsUsed
<1>7. Pending' = Append(Pending, pmsg)
  <2>1. /\ log \in Seq([msg : Msg, at : Node]) /\ nread \in Nat /\ Len(log) \in Nat
        /\ nread <= Len(log)
    BY <1>0 DEF TypeOK
  <2>2. PICK n \in Nat : n = Len(log) - nread
    BY <2>1
  <2>3. Len(log') = Len(log) + 1
    BY <1>0, <1>2, <2>1
  <2>4. \A i \in 1 .. Len(log) : log'[i] = log[i]
    BY <1>0, <1>2, <2>1
  <2>5. log'[Len(log) + 1].msg = pmsg
    BY <1>0, <1>2, <2>1
  <2>6. Pending = [i \in 1 .. n |-> log[nread + i].msg]
    BY <2>2 DEF Pending
  <2>7. Pending' = [i \in 1 .. n + 1 |-> log'[nread + i].msg]
    <3>1. Len(log') - nread' = n + 1
      BY <1>2, <2>1, <2>2, <2>3
    <3> QED BY <1>2, <3>1 DEF Pending
  <2>8. Pending \in Seq(Msg) /\ Len(Pending) = n
    BY <1>0, <2>2, PendingType
  <2>9. ASSUME NEW i \in 1 .. n + 1
        PROVE  log'[nread + i].msg = Append(Pending, pmsg)[i]
    <3>1. CASE i \in 1 .. n
      <4>1. nread + i \in 1 .. Len(log)
        BY <2>1, <2>2, <3>1
      <4>2. Append(Pending, pmsg)[i] = Pending[i]
        BY <2>8, <3>1
      <4> QED BY <2>4, <2>6, <3>1, <4>1, <4>2
    <3>2. CASE i = n + 1
      <4>1. nread + i = Len(log) + 1
        BY <2>1, <2>2, <3>2
      <4>2. Append(Pending, pmsg)[i] = pmsg
        BY <2>8, <3>2
      <4> QED BY <2>5, <4>1, <4>2
    <3>3. i \in 1 .. n \/ i = n + 1
      OBVIOUS
    <3> QED BY <3>1, <3>2, <3>3
  <2>10. /\ Append(Pending, pmsg) \in Seq(Msg) /\ Len(Append(Pending, pmsg)) = n + 1
    BY <1>0, <2>8
  <2>11. Append(Pending, pmsg) = [i \in 1 .. n + 1 |-> Append(Pending, pmsg)[i]]
    <3>1. PICK s \in Seq(Msg) : s = Append(Pending, pmsg)
      BY <2>10
    <3>2. PICK k \in Nat : k = n + 1
      OBVIOUS
    <3>3. s = [i \in 1 .. k |-> s[i]]
      BY <2>10, <3>1, <3>2, SeqFunction
    <3> QED BY <3>1, <3>2, <3>3
  <2> QED BY <2>7, <2>9, <2>11
<1>8. AbsReceived' = AbsReceived
  BY <1>2 DEF AbsReceived, Intact
<1>9. AbsNodes[pmsg] = Need(pmsg)
  BY <1>0 DEF AbsNodes
<1>10. Fifo!Accept(pmsg)
  BY <1>3, <1>4, <1>6, <1>7, <1>8, <1>9 DEF Fifo!Accept, AbsUsed, AbsReceived, AbsNodes
<1> QED BY <1>0, <1>10

\* Publishing read_pos is the moment the oldest message leaves it, whole.
LEMMA PublishRemoves ==
  ASSUME IInv, PopPublish
  PROVE  Fifo!Take \/ Fifo!Drop
<1>0. TypeOK /\ Tiling /\ UnreadStored /\ nread < Len(log) /\ cpc = "publish"
      /\ cnew = Advance(read_pos, Need(Oldest)) /\ (cdata => Intact(cbuf, Oldest))
  BY DEF IInv, PopPublish, PopProgress
<1>1. /\ Oldest \in Msg /\ read_pos \in Node /\ write_pos \in Node /\ CurrentMsg = Oldest
      /\ Need(Oldest) \in Nat \ {0} /\ Need(Oldest) <= UsedNodes /\ NodeCount \in Nat
      /\ UsedNodes \in 0 .. NodeCount - 1
  BY <1>0, AtOldest
<1>2. /\ read_pos' = Advance(read_pos, Need(Oldest)) /\ nread' = nread + 1
      /\ received' = IF cdata THEN <<Oldest, cbuf>> ELSE received
      /\ UNCHANGED <<write_pos, log>>
  BY <1>0, <1>1 DEF PopPublish
<1>3. AbsUsed = UsedNodes
  BY <1>1, GapMod DEF AbsUsed, UsedNodes
<1>4. AbsUsed' = AbsUsed - Need(Oldest)
  <2>1. Advance(read_pos, Need(Oldest)) \in Node
    BY <1>1, AdvanceType
  <2>2. Gap(Advance(read_pos, Need(Oldest)), write_pos) = UsedNodes - Need(Oldest)
    BY <1>1, GapShift DEF UsedNodes
  <2> QED BY <1>1, <1>2, <1>3, <2>1, <2>2, GapMod DEF AbsUsed
<1>5. /\ Pending \in Seq(Msg) /\ Len(Pending) = Len(log) - nread /\ Pending # <<>>
      /\ Head(Pending) = Oldest
  BY <1>0, PendingType
<1>6. Pending' = Tail(Pending)
  <2>1. nread \in Nat /\ Len(log) \in Nat
    BY <1>0 DEF TypeOK
  <2>2. PICK n \in Nat : n = Len(log) - (nread + 1)
    <3>1. Len(log) - (nread + 1) \in Nat
      BY <1>0, <2>1
    <3> QED BY <3>1, Zenon
  <2>3. Pending = [i \in 1 .. n + 1 |-> log[nread + i].msg]
    <3>1. Len(log) - nread = n + 1
      BY <2>1, <2>2
    <3> QED BY <3>1 DEF Pending
  <2>4. Pending' = [i \in 1 .. n |-> log[(nread + 1) + i].msg]
    <3>1. Len(log') - nread' = n
      BY <1>2, <2>2
    <3> QED BY <1>2, <3>1 DEF Pending
  <2>5. Tail(Pending) = [i \in 1 .. n |-> Pending[i + 1]]
    <3>1. Len(Pending) = n + 1
      BY <1>5, <2>1, <2>2
    <3> QED BY <1>5, <3>1, TailFunction
  <2>6. ASSUME NEW i \in 1 .. n
        PROVE  log[(nread + 1) + i].msg = Pending[i + 1]
    <3>1. i + 1 \in 1 .. n + 1 /\ nread + (i + 1) = (nread + 1) + i
      BY <2>1
    <3>2. Pending[i + 1] = log[nread + (i + 1)].msg
      BY <2>3, <3>1
    <3> QED BY <3>1, <3>2
  <2> QED BY <2>4, <2>5, <2>6
<1>7. AbsNodes[Head(Pending)] = Need(Oldest)
  BY <1>1, <1>5 DEF AbsNodes
<1>8. Fifo!Remove
  BY <1>4, <1>5, <1>6, <1>7 DEF Fifo!Remove, AbsUsed, AbsNodes
<1>9. CASE cdata
  <2>1. received' = <<Oldest, cbuf>> /\ Intact(cbuf, Oldest)
    BY <1>0, <1>2, <1>9
  <2>2. received' # <<>> /\ received'[1] = Oldest /\ received'[2] = cbuf
    BY <2>1
  <2>3. AbsReceived' = <<Head(Pending)>>
    BY <1>5, <2>1, <2>2 DEF AbsReceived, Intact
  <2> QED BY <1>8, <2>3 DEF Fifo!Take, AbsReceived
<1>10. CASE ~cdata
  <2>1. AbsReceived' = AbsReceived
    BY <1>2, <1>10 DEF AbsReceived, Intact
  <2> QED BY <1>8, <2>1 DEF Fifo!Drop, AbsReceived
<1> QED BY <1>9, <1>10

\* push() and pop(), split at every access to shared memory and interrupted by
\* crashes, implement the atomic operations of a bounded FIFO queue.
THEOREM RefinesFifo == Spec => ImplementsFifo
<1>1. Init => Fifo!Init
  <2> SUFFICES ASSUME Init PROVE Fifo!Init
    OBVIOUS
  <2>1. Pending = <<>>
    BY DEF Init, Pending
  <2>2. AbsUsed = 0
    <3>1. NodeCount \in Nat \ {0} /\ NodeCount % NodeCount = 0
      BY ChannelAssumption, ModSmall
    <3>2. 0 - 0 + NodeCount = NodeCount
      BY <3>1
    <3> QED BY <3>1, <3>2 DEF Init, AbsUsed
  <2>3. AbsReceived = <<>>
    BY DEF Init, AbsReceived
  <2> QED BY <2>1, <2>2, <2>3 DEF Fifo!Init, AbsUsed, AbsReceived
<1>2. IInv /\ [Next]_vars => [Fifo!Next]_<<Pending, AbsUsed, AbsReceived>>
  <2> SUFFICES ASSUME IInv, [Next]_vars
               PROVE  Fifo!Next \/ UNCHANGED <<Pending, AbsUsed, AbsReceived>>
    OBVIOUS
  <2>1. CASE PushPublish
    BY <2>1, PublishAccepts DEF Fifo!Next
  <2>2. CASE PopPublish
    BY <2>2, PublishRemoves DEF Fifo!Next
  <2>3. CASE \E m \in Msg : PushBegin(m) \/ PushNoSpace(m)
    BY <2>3, AbsStutter DEF PushBegin, PushNoSpace, ring, consumer, history
  <2>4. CASE PushCopy \/ PushWrap \/ PushHead \/ PushCount \/ PushSignal
    BY <2>4, AbsStutter
       DEF PushCopy, PushWrap, PushHead, PushCount, PushSignal, ring, consumer, history
  <2>5. CASE \E d \in BOOLEAN : PopBegin(d)
    BY <2>5, AbsStutter DEF PopBegin, ring, history
  <2>6. CASE PopHead \/ PopCopy \/ PopWrap \/ PopCount
    BY <2>6, AbsStutter DEF PopHead, PopCopy, PopWrap, PopCount, ring, history
  <2>7. CASE ProducerCrash \/ ConsumerCrash
    BY <2>7, AbsStutter DEF ProducerCrash, ConsumerCrash, ring, consumer, history
  <2>8. CASE UNCHANGED vars
    BY <2>8, AbsStutter DEF vars, ring, consumer, history
  <2>9. CASE HandleSignal \/ PopEmpty
    BY <2>9, AbsStutter DEF HandleSignal, PopEmpty, ring, consumer, history
  <2> QED BY <2>1, <2>2, <2>3, <2>4, <2>5, <2>6, <2>7, <2>8, <2>9 DEF Next, PushStep, PopStep
<1> QED BY <1>1, <1>2, Invariance, PTL
        DEF Spec, ImplementsFifo, Fifo!Spec, AbsUsed, AbsReceived
==============================================================================
