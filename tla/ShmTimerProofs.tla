--------------------------- MODULE ShmTimerProofs ---------------------------
(***************************************************************************)
(* Proofs about the timers in shared memory, for vectors of any size, any  *)
(* precision, any timers and any crashes in callbacks.                     *)
(*                                                                         *)
(* A list of vector l is for the timers of Share[l] ticks and comes round  *)
(* at a multiple of Share[l].  The invariant says of each timer in a list  *)
(* at which multiple that is: not before now, not after the tick the timer *)
(* is due, and so soon that no other multiple has the same list.  While    *)
(* run_timer() calls the timers of a tick, the multiple is not now.        *)
(***************************************************************************)
EXTENDS ShmTimer, TLAPS

-----------------------------------------------------------------------------
(* The invariant *)

\* At tick c, a timer that is due at tick e may be in list s.  past: the
\* cascade of that tick has passed vector s[1].
Turn(s, e, c, past) ==
  \E q \in Nat : LET at == q * Share[s[1]]
                 IN /\ s[2] = q % Size(s[1])
                    /\ c <= at /\ at <= e
                    /\ at < c + Share[s[1]] * Size(s[1])
                    /\ s[1] = 1 => at = e
                    /\ past /\ s[1] > 1 => c < at

Past(l) == pc \in {"run", "call"} \/ (pc = "cascade" /\ l < level)

OnTime == \A s \in Slot : \A t \in ToSet(wheel[s]) :
            Turn(s, timers[t].expires, current_tick, Past(s[1]))

\* A vector is cascaded at the ticks its lists begin with.
Comes(l, c) == \E m \in Nat : c = m * Share[l]

\* Each timer in one place.
Placed(w) ==
  /\ w \in [Slot -> Seq(Timer)]
  /\ \A s \in Slot : IsInjective(w[s])
  /\ \A s, r \in Slot : s # r => ToSet(w[s]) \cap ToSet(w[r]) = {}

\* What the thread is doing.
Doing ==
  /\ pc \in {"cascade", "run", "call"} => todo > 0
  /\ IF pc = "cascade" THEN Comes(level, current_tick) ELSE level = 2
  /\ cur # Nobody => timers[cur].live /\ timers[cur].running
  /\ \A t \in Timer : ~timers[t].live => timers[t] = Free

\* The inductive invariant.
IInv == NoAssertionFails /\ OnTime /\ Doing

-----------------------------------------------------------------------------
(* Arithmetic *)

LEMMA Shares ==
  /\ \A l \in Vector : Share[l] \in Nat \ {0} /\ Size(l) \in Nat \ {0, 1}
  /\ Share[1] = 1
  /\ \A l \in 1 .. 4 : Share[l + 1] = Share[l] * Size(l)
  /\ MaxInterval = Share[5] * Size(5) - 1
<1>1. TVR_SIZE \in Nat \ {0, 1} /\ TVN_SIZE \in Nat \ {0, 1}
  BY TimerAssumption
<1>2. ASSUME NEW a \in Nat \ {0}, NEW b \in Nat \ {0} PROVE a * b \in Nat \ {0}
  OBVIOUS
<1>3. TV1_MAX \in Nat \ {0} /\ TV1_MAX = TVR_SIZE
  BY <1>1 DEF TV1_MAX
<1>4. TV2_MAX \in Nat \ {0} /\ TV2_MAX = TV1_MAX * TVN_SIZE
  BY <1>1, <1>2, <1>3 DEF TV2_MAX
<1>5. TV3_MAX \in Nat \ {0} /\ TV3_MAX = TV2_MAX * TVN_SIZE
  BY <1>1, <1>2, <1>4 DEF TV3_MAX
<1>6. TV4_MAX \in Nat \ {0} /\ TV4_MAX = TV3_MAX * TVN_SIZE
  BY <1>1, <1>2, <1>5 DEF TV4_MAX
<1>7. /\ Share[1] = 1 /\ Share[2] = TV1_MAX /\ Share[3] = TV2_MAX
      /\ Share[4] = TV3_MAX /\ Share[5] = TV4_MAX
  BY DEF Share
<1>8. /\ Size(1) = TVR_SIZE /\ Size(2) = TVN_SIZE /\ Size(3) = TVN_SIZE
      /\ Size(4) = TVN_SIZE /\ Size(5) = TVN_SIZE
  BY DEF Size
<1>9. \A l \in Vector : l = 1 \/ l = 2 \/ l = 3 \/ l = 4 \/ l = 5
  BY DEF Vector
<1>10. \A l \in 1 .. 4 : l = 1 \/ l = 2 \/ l = 3 \/ l = 4
  OBVIOUS
<1>11. MaxInterval = Share[5] * Size(5) - 1
  BY <1>7, <1>8 DEF MaxInterval
<1>12. Share[2] = Share[1] * Size(1)
  BY <1>1, <1>3, <1>7, <1>8
<1>13. \A l \in 1 .. 4 : Share[l + 1] = Share[l] * Size(l)
  BY <1>4, <1>5, <1>6, <1>7, <1>8, <1>10, <1>12
<1>14. \A l \in Vector : Share[l] \in Nat \ {0} /\ Size(l) \in Nat \ {0, 1}
  BY <1>1, <1>3, <1>4, <1>5, <1>6, <1>7, <1>8, <1>9
<1> QED  BY <1>7, <1>11, <1>13, <1>14

LEMMA Divided ==
  ASSUME NEW a \in Nat, NEW n \in Nat \ {0}
  PROVE  /\ a \div n \in Nat /\ a % n \in 0 .. n - 1
         /\ (a \div n) * n \in Nat /\ a = (a \div n) * n + (a % n)
  OBVIOUS

\* A multiple of n is its quotient times n.
LEMMA Multiple ==
  ASSUME NEW m \in Nat, NEW n \in Nat \ {0}
  PROVE  (m * n) \div n = m
  OBVIOUS

\* Among n consecutive numbers no two have the same remainder.
LEMMA SameRemainder ==
  ASSUME NEW a \in Nat, NEW b \in Nat, NEW n \in Nat \ {0},
         a % n = b % n, a <= b, b < a + n
  PROVE  a = b
<1>1. PICK x \in Nat : x * n \in Nat /\ a = x * n + (a % n)
  BY Divided
<1>2. PICK y \in Nat : y * n \in Nat /\ b = y * n + (b % n)
  BY Divided
<1>3. a % n \in Int
  BY Divided
<1>4. y * n - x * n >= 0 /\ y * n - x * n < n
  BY <1>1, <1>2, <1>3
<1>5. (y - x) * n = y * n - x * n
  OBVIOUS
<1>6. CASE y - x >= 1
  <2>1. (y - x) * n >= n
    BY <1>6
  <2> QED  BY <1>4, <1>5, <2>1
<1>7. CASE y - x <= -1
  <2>1. (y - x) * n <= -n
    BY <1>7
  <2> QED  BY <1>4, <1>5, <2>1
<1>8. CASE y = x
  BY <1>1, <1>2, <1>3, <1>8
<1> QED  BY <1>6, <1>7, <1>8

\* The larger of two multiples is larger.
LEMMA Ordered ==
  ASSUME NEW a \in Nat, NEW b \in Nat, NEW n \in Nat \ {0}
  PROVE  /\ a * n \in Nat /\ b * n \in Nat
         /\ a * n <= b * n <=> a <= b
         /\ a * n < b * n <=> a < b
         /\ a * n = b * n <=> a = b
<1>1. a < b => a * n < b * n
  <2>1. (b - a) * n = b * n - a * n
    OBVIOUS
  <2>2. a < b => (b - a) * n >= n
    OBVIOUS
  <2> QED  BY <2>1, <2>2
<1>2. b < a => b * n < a * n
  <2>1. (a - b) * n = a * n - b * n
    OBVIOUS
  <2>2. b < a => (a - b) * n >= n
    OBVIOUS
  <2> QED  BY <2>1, <2>2
<1>3. a * n \in Nat /\ b * n \in Nat /\ (a = b => a * n = b * n)
  OBVIOUS
<1> QED  BY <1>1, <1>2, <1>3
-----------------------------------------------------------------------------
(* Lists and the ticks they are for *)

LEMMA Indexed ==
  ASSUME NEW l \in Vector, NEW c \in Nat
  PROVE  TvIdx(l, c) \in 0 .. Size(l) - 1 /\ <<l, TvIdx(l, c)>> \in Slot
<1>1. Share[l] \in Nat \ {0} /\ Size(l) \in Nat \ {0, 1}
  BY Shares
<1>2. c \div Share[l] \in Nat
  BY <1>1, Divided
<1>3. TvIdx(l, c) \in 0 .. Size(l) - 1
  BY <1>1, <1>2, Divided DEF TvIdx
<1>4. Size(l) <= TVR_SIZE + TVN_SIZE /\ TVR_SIZE \in Nat /\ TVN_SIZE \in Nat
  BY TimerAssumption DEF Size
<1> QED  BY <1>1, <1>3, <1>4 DEF Slot

\* The index at a tick at which the vector comes.
LEMMA IndexThen ==
  ASSUME NEW l \in Vector, NEW m \in Nat
  PROVE  TvIdx(l, m * Share[l]) = m % Size(l)
  BY Shares, Multiple DEF TvIdx

LEMMA ComesLower ==
  ASSUME NEW l \in 1 .. 4, NEW c \in Nat, Comes(l + 1, c)
  PROVE  Comes(l, c) /\ TvIdx(l, c) = 0
<1> DEFINE g == Share[l]
           n == Size(l)
<1>1. g \in Nat \ {0} /\ n \in Nat \ {0, 1} /\ Share[l + 1] = g * n /\ l \in Vector
  BY Shares DEF Vector
<1>2. PICK m \in Nat : c = m * (g * n)
  BY <1>1 DEF Comes
<1> HIDE DEF g, n
<1>3. c = (m * n) * g /\ m * n \in Nat
  BY <1>1, <1>2
<1>4. (m * n) % n = 0
  BY <1>1
<1> QED  BY <1>1, <1>3, <1>4, IndexThen DEF g, n, Comes

LEMMA ComesNext ==
  ASSUME NEW l \in 1 .. 4, NEW c \in Nat, Comes(l, c), TvIdx(l, c) = 0
  PROVE  Comes(l + 1, c)
<1> DEFINE g == Share[l]
           n == Size(l)
<1>1. g \in Nat \ {0} /\ n \in Nat \ {0, 1} /\ Share[l + 1] = g * n /\ l \in Vector
  BY Shares DEF Vector
<1>2. PICK m \in Nat : c = m * g
  BY <1>1 DEF Comes
<1>3. m % n = 0
  BY <1>1, <1>2, IndexThen
<1> HIDE DEF g, n
<1>4. PICK x \in Nat : m = x * n
  <2>1. m \div n \in Nat /\ (m \div n) * n \in Nat /\ m = (m \div n) * n + (m % n)
    BY <1>1, Divided
  <2>2. m = (m \div n) * n
    BY <1>3, <2>1
  <2> QED  BY <2>1, <2>2
<1>5. c = x * (g * n)
  BY <1>1, <1>2, <1>4
<1> QED  BY <1>1, <1>5 DEF Comes

\* Where the cascade stops, no later vector comes.
LEMMA ComesNoMore ==
  ASSUME NEW l \in 1 .. 4, NEW c \in Nat, TvIdx(l, c) # 0, NEW k \in l + 1 .. 5
  PROVE  ~Comes(k, c)
<1>1. ~Comes(l + 1, c)
  BY ComesLower
<1>2. \A j \in 1 .. 4 : Comes(j + 1, c) => Comes(j, c)
  BY ComesLower
<1>3. (Comes(5, c) => Comes(4, c)) /\ (Comes(4, c) => Comes(3, c)) /\ (Comes(3, c) => Comes(2, c))
  BY <1>2
<1>4. CASE l = 1
  <2>1. k = 2 \/ k = 3 \/ k = 4 \/ k = 5
    BY <1>4
  <2> QED  BY <1>1, <1>3, <1>4, <2>1
<1>5. CASE l = 2
  <2>1. k = 3 \/ k = 4 \/ k = 5
    BY <1>5
  <2> QED  BY <1>1, <1>3, <1>5, <2>1
<1>6. CASE l = 3
  <2>1. k = 4 \/ k = 5
    BY <1>6
  <2> QED  BY <1>1, <1>3, <1>6, <2>1
<1>7. CASE l = 4
  <2>1. k = 5
    BY <1>7
  <2> QED  BY <1>1, <1>7, <2>1
<1> QED  BY <1>4, <1>5, <1>6, <1>7

LEMMA ComesFirst ==
  ASSUME NEW c \in Nat
  PROVE  Comes(1, c)
  BY Shares DEF Comes

\* Turn, with the tick at which the list comes round by name.
TurnAt(l, j, e, c, past, q) ==
  /\ j = q % Size(l) /\ q * Share[l] \in Nat
  /\ c <= q * Share[l] /\ q * Share[l] <= e
  /\ q * Share[l] < c + Share[l] * Size(l)
  /\ l = 1 => q * Share[l] = e
  /\ past /\ l > 1 => c < q * Share[l]

LEMMA TurnIs ==
  ASSUME NEW l \in Vector, NEW j, NEW e, NEW c, NEW past
  PROVE  Turn(<<l, j>>, e, c, past) <=> \E q \in Nat : TurnAt(l, j, e, c, past, q)
<1>1. \A q \in Nat : q * Share[l] \in Nat
  BY Shares
<1>2. <<l, j>>[1] = l /\ <<l, j>>[2] = j
  OBVIOUS
<1> QED  BY <1>1, <1>2, Zenon DEF Turn, TurnAt

\* A timer in the list that a vector reaches is not due before now, and is in
\* it only as long as the cascade has not passed the vector.
LEMMA TurnNow ==
  ASSUME NEW l \in 2 .. 5, NEW c \in Nat, NEW e \in Nat, NEW past \in BOOLEAN,
         Comes(l, c), Turn(<<l, TvIdx(l, c)>>, e, c, past)
  PROVE  ~past /\ c <= e
<1> DEFINE g == Share[l]
           n == Size(l)
<1>1. g \in Nat \ {0} /\ n \in Nat \ {0, 1} /\ l \in Vector
  BY Shares DEF Vector
<1>2. PICK m \in Nat : c = m * g
  BY DEF Comes
<1>3. TvIdx(l, c) = m % n
  BY <1>1, <1>2, IndexThen
<1>4. PICK q \in Nat : /\ m % n = q % n
                       /\ c <= q * g /\ q * g <= e /\ q * g < c + g * n
                       /\ past => c < q * g
  BY <1>1, <1>3, TurnIs DEF TurnAt
<1> HIDE DEF g, n
<1>5. m <= q
  BY <1>1, <1>2, <1>4, Ordered
<1>6. c + g * n = (m + n) * g
  BY <1>1, <1>2
<1>7. q < m + n
  <2>1. m + n \in Nat
    BY <1>1
  <2> QED  BY <1>1, <1>4, <1>6, <2>1, Ordered
<1>8. m = q
  BY <1>1, <1>4, <1>5, <1>7, SameRemainder
<1>9. q * g \in Nat /\ c = q * g
  BY <1>1, <1>2, <1>8
<1> QED  BY <1>4, <1>9

\* A timer in another list of the vector comes later.
LEMMA TurnLater ==
  ASSUME NEW l \in 2 .. 5, NEW j, NEW c \in Nat, NEW e \in Nat,
         Turn(<<l, j>>, e, c, FALSE), Comes(l, c) => j # TvIdx(l, c)
  PROVE  Turn(<<l, j>>, e, c, TRUE)
<1> DEFINE g == Share[l]
           n == Size(l)
<1>1. g \in Nat \ {0} /\ n \in Nat \ {0, 1} /\ l \in Vector
  BY Shares DEF Vector
<1>2. PICK q \in Nat : /\ j = q % n /\ q * g \in Nat
                       /\ c <= q * g /\ q * g <= e /\ q * g < c + g * n
                       /\ l = 1 => q * g = e
  <2>1. PICK q \in Nat : TurnAt(l, j, e, c, FALSE, q)
    BY <1>1, TurnIs, Zenon
  <2> QED  BY <2>1 DEF TurnAt
<1>3. c # q * g
  BY <1>1, <1>2, IndexThen DEF Comes
<1>4. c < q * g
  BY <1>2, <1>3
<1> QED  BY <1>1, <1>2, <1>4, TurnIs DEF TurnAt

\* A timer in the list of the current tick is due now.
LEMMA TurnDue ==
  ASSUME NEW c \in Nat, NEW e \in Nat, NEW past \in BOOLEAN, Turn(<<1, TvIdx(1, c)>>, e, c, past)
  PROVE  e = c
<1>1. Share[1] = 1 /\ Size(1) \in Nat \ {0} /\ 1 \in Vector
  BY Shares DEF Vector
<1>2. TvIdx(1, c) = c % Size(1)
  <2>1. c = c * Share[1]
    BY <1>1
  <2> QED  BY <1>1, <2>1, IndexThen
<1>3. PICK q \in Nat : /\ c % Size(1) = q % Size(1)
                       /\ c <= q * Share[1] /\ q * Share[1] < c + Share[1] * Size(1)
                       /\ q * Share[1] = e
  BY <1>1, <1>2, TurnIs DEF TurnAt
<1>4. c <= q /\ q < c + Size(1) /\ q = e
  BY <1>1, <1>3
<1> QED  BY <1>1, <1>3, <1>4, SameRemainder

\* The end of a tick, at which its list is empty.
LEMMA TurnPasses ==
  ASSUME NEW l \in Vector, NEW j, NEW c \in Nat, NEW e \in Nat,
         Turn(<<l, j>>, e, c, TRUE), l = 1 => j # TvIdx(1, c)
  PROVE  Turn(<<l, j>>, e, c + 1, FALSE) /\ c < e
<1> DEFINE g == Share[l]
           n == Size(l)
<1>1. g \in Nat \ {0} /\ n \in Nat \ {0, 1}
  BY Shares
<1>2. PICK q \in Nat : /\ j = q % n /\ q * g \in Nat
                       /\ c <= q * g /\ q * g <= e /\ q * g < c + g * n
                       /\ l = 1 => q * g = e
                       /\ l > 1 => c < q * g
  <2>1. PICK q \in Nat : TurnAt(l, j, e, c, TRUE, q)
    BY TurnIs, Zenon
  <2> QED  BY <2>1 DEF TurnAt
<1>3. c # q * g
  <2>1. CASE l = 1
    <3>1. q = q * g
      BY <1>1, <2>1, Shares
    <3>2. TvIdx(1, q) = q % n
      BY <2>1, <3>1, IndexThen
    <3> QED  BY <1>2, <2>1, <3>1, <3>2
  <2>2. CASE l > 1
    BY <1>2, <2>2
  <2> QED  BY <2>1, <2>2 DEF Vector
<1> HIDE DEF g, n
<1>4. c < q * g /\ c + 1 <= q * g /\ g * n \in Nat
  BY <1>1, <1>2, <1>3
<1>5. q * g < (c + 1) + g * n /\ c < e /\ c + 1 \in Nat
  BY <1>1, <1>2, <1>4
<1> QED  BY <1>2, <1>4, <1>5, TurnIs DEF g, n, TurnAt

\* What is true once the cascade has passed was true before.
LEMMA TurnWeaker ==
  ASSUME NEW s \in Slot, NEW e \in Nat, NEW c \in Nat, NEW past \in BOOLEAN, Turn(s, e, c, past)
  PROVE  Turn(s, e, c, FALSE)
  BY DEF Turn

\* search_list() gives the list of the last vector whose lists begin no later
\* than the timer is due, and one that the cascade does not meet now.
LEMMA Files ==
  ASSUME NEW e \in Nat, current_tick \in Nat, current_tick <= e, NEW past \in BOOLEAN
  PROVE  search_list(e) \in Slot /\ Turn(search_list(e), e, current_tick, past)
<1> DEFINE d == e - current_tick
           l == VectorOf(d)
           f == IF l = 5 THEN Filed(e) ELSE e
<1>1. d \in Nat
  OBVIOUS
<1>2. \E k \in Vector : (k > 1 => Share[k] <= d) /\ (k < 5 => d < Share[k + 1])
  <2>1. \A k \in Vector : Share[k] \in Nat
    BY Shares
  <2>2. Share[1] \in Nat /\ Share[2] \in Nat /\ Share[3] \in Nat /\ Share[4] \in Nat /\ Share[5] \in Nat
    BY <2>1 DEF Vector
  <2>3. 1 \in Vector /\ 2 \in Vector /\ 3 \in Vector /\ 4 \in Vector /\ 5 \in Vector
    BY DEF Vector
  <2> HIDE DEF d
  <2>4. CASE d < Share[2]
    BY <2>3, <2>4
  <2>5. CASE d >= Share[2] /\ d < Share[3]
    BY <2>3, <2>5
  <2>6. CASE d >= Share[3] /\ d < Share[4]
    BY <2>3, <2>6
  <2>7. CASE d >= Share[4] /\ d < Share[5]
    BY <2>3, <2>7
  <2>8. CASE d >= Share[5]
    BY <2>3, <2>8
  <2> QED  BY <1>1, <2>2, <2>4, <2>5, <2>6, <2>7, <2>8
<1>3. l \in Vector /\ (l > 1 => Share[l] <= d) /\ (l < 5 => d < Share[l + 1])
  <2> HIDE DEF d
  <2> QED  BY <1>2, Zenon DEF VectorOf
<1> DEFINE g == Share[l]
           n == Size(l)
<1>4. g \in Nat \ {0} /\ n \in Nat \ {0, 1} /\ g * n \in Nat /\ g < g * n
  <2>1. g \in Nat \ {0} /\ n \in Nat \ {0, 1}
    BY <1>3, Shares
  <2> HIDE DEF g, n
  <2>2. g * n >= g * 2
    BY <2>1
  <2> QED  BY <2>1, <2>2
<1>5. /\ f \in Nat /\ f <= e /\ current_tick <= f
      /\ f < current_tick + g * n
      /\ l = 1 => f = e
      /\ l > 1 => current_tick + g <= f
  <2>1. CASE l = 5
    <3>1. MaxInterval = g * n - 1
      BY <2>1, Shares
    <3>2. g <= d
      BY <1>3, <2>1
    <3> HIDE DEF l, g, n
    <3>3. f = Filed(e)
      BY <2>1
    <3>4. CASE e - current_tick > MaxInterval
      BY <1>4, <2>1, <3>1, <3>3, <3>4 DEF Filed
    <3>5. CASE ~(e - current_tick > MaxInterval)
      BY <1>4, <2>1, <3>1, <3>2, <3>3, <3>5 DEF Filed
    <3> QED  BY <3>4, <3>5
  <2>2. CASE l # 5
    <3>1. l \in 1 .. 4
      BY <1>3, <2>2 DEF Vector
    <3>2. d < g * n
      BY <1>3, <3>1, Shares
    <3>3. l > 1 => g <= d
      BY <1>3
    <3>4. f = e
      BY <2>2
    <3> HIDE DEF l, g, n, f
    <3> QED  BY <1>4, <3>2, <3>3, <3>4
  <2> QED  BY <2>1, <2>2
<1>6. search_list(e) = <<l, TvIdx(l, f)>>
  BY DEF search_list
<1>7. search_list(e) \in Slot
  <2> HIDE DEF l, f
  <2> QED  BY <1>3, <1>5, <1>6, Indexed
<1> DEFINE q == f \div g
<1> HIDE DEF l, f, d, g, n
<1>8. TvIdx(l, f) = q % n
  BY DEF TvIdx, g, n
<1>9. q \in Nat /\ q * g \in Nat /\ q * g <= f /\ f < q * g + g
  BY <1>4, <1>5, Divided
<1>10. l = 1 => q * g = f
  <2>1. l = 1 => g = 1
    BY Shares DEF g
  <2> QED  BY <1>5, <1>9, <2>1
<1> HIDE DEF q
<1>11. /\ current_tick <= q * g /\ q * g <= e
       /\ q * g < current_tick + g * n
       /\ l = 1 => q * g = e
       /\ past /\ l > 1 => current_tick < q * g
  <2>1. l = 1 \/ l > 1
    BY <1>3 DEF Vector
  <2> QED  BY <1>4, <1>5, <1>9, <1>10, <2>1
<1>12. Turn(<<l, TvIdx(l, f)>>, e, current_tick, past)
  BY <1>3, <1>8, <1>9, <1>11, TurnIs DEF g, n, TurnAt
<1> QED  BY <1>6, <1>7, <1>12
-----------------------------------------------------------------------------
(* Lists *)

LEMMA Joined ==
  ASSUME NEW S, NEW A \in Seq(S), NEW B \in Seq(S)
  PROVE  /\ A \o B \in Seq(S) /\ Len(A \o B) = Len(A) + Len(B)
         /\ \A j \in 1 .. Len(A) + Len(B) : (A \o B)[j] = IF j <= Len(A) THEN A[j] ELSE B[j - Len(A)]
  OBVIOUS

LEMMA WithoutIs ==
  ASSUME NEW S, NEW l \in Seq(S), NEW s, IsInjective(l)
  PROVE  Without(l, s) \in Seq(S) /\ IsInjective(Without(l, s)) /\ ToSet(Without(l, s)) = ToSet(l) \ {s}
<1>1. CASE s \notin ToSet(l)
  BY <1>1 DEF Without
<1>2. CASE s \in ToSet(l)
  <2>1. PICK i \in DOMAIN l : l[i] = s /\ Without(l, s) = RemoveAt(l, i)
    <3>1. \E i \in DOMAIN l : l[i] = s
      BY <1>2 DEF ToSet
    <3> QED  BY <1>2, <3>1 DEF Without
  <2> DEFINE m == RemoveAt(l, i)
  <2>2. i \in 1 .. Len(l) /\ Len(l) \in Nat /\ DOMAIN l = 1 .. Len(l)
    OBVIOUS
  <2>3. /\ m \in Seq(S) /\ Len(m) = Len(l) - 1
        /\ \A j \in 1 .. Len(l) - 1 : m[j] = IF j < i THEN l[j] ELSE l[j + 1]
    <3> DEFINE A == SubSeq(l, 1, i - 1)
               B == SubSeq(l, i + 1, Len(l))
    <3>1. A \in Seq(S) /\ Len(A) = i - 1 /\ \A j \in 1 .. i - 1 : A[j] = l[j]
      BY <2>2
    <3>2. B \in Seq(S) /\ Len(B) = Len(l) - i /\ \A j \in 1 .. Len(l) - i : B[j] = l[i + j]
      BY <2>2
    <3>3. m = A \o B
      BY DEF RemoveAt
    <3> HIDE DEF A, B, m
    <3>4. /\ m \in Seq(S) /\ Len(m) = Len(A) + Len(B)
          /\ \A j \in 1 .. Len(A) + Len(B) : m[j] = IF j <= Len(A) THEN A[j] ELSE B[j - Len(A)]
      BY <3>1, <3>2, <3>3, Joined
    <3>5. ASSUME NEW j \in 1 .. Len(l) - 1 PROVE m[j] = IF j < i THEN l[j] ELSE l[j + 1]
      <4>1. CASE j < i
        BY <2>2, <3>1, <3>2, <3>4, <4>1
      <4>2. CASE j >= i
        <5>1. j - (i - 1) \in 1 .. Len(l) - i /\ i + (j - (i - 1)) = j + 1
          BY <2>2, <4>2
        <5>2. m[j] = B[j - (i - 1)]
          BY <2>2, <3>1, <3>2, <3>4, <4>2
        <5> QED  BY <3>2, <4>2, <5>1, <5>2
      <4> QED  BY <2>2, <4>1, <4>2
    <3> QED  BY <2>2, <3>1, <3>2, <3>4, <3>5
  <2>4. DOMAIN m = 1 .. Len(l) - 1
    BY <2>3
  <2> HIDE DEF m
  <2>5. IsInjective(m)
    <3> SUFFICES ASSUME NEW j \in 1 .. Len(l) - 1, NEW k \in 1 .. Len(l) - 1, m[j] = m[k] PROVE j = k
      BY <2>4 DEF IsInjective
    <3>1. \A j1, k1 \in 1 .. Len(l) : l[j1] = l[k1] => j1 = k1
      BY <2>2 DEF IsInjective
    <3>2. j + 1 \in 1 .. Len(l) /\ k + 1 \in 1 .. Len(l) /\ j \in 1 .. Len(l) /\ k \in 1 .. Len(l)
      BY <2>2
    <3> QED  BY <2>2, <2>3, <3>1, <3>2
  <2>6. \A x : x \in ToSet(m) => x \in ToSet(l) \ {s}
    <3> SUFFICES ASSUME NEW j \in 1 .. Len(l) - 1 PROVE m[j] \in ToSet(l) /\ m[j] # s
      BY <2>4 DEF ToSet
    <3>1. \A j1, k1 \in 1 .. Len(l) : l[j1] = l[k1] => j1 = k1
      BY <2>2 DEF IsInjective
    <3>2. j + 1 \in 1 .. Len(l) /\ j \in 1 .. Len(l)
      BY <2>2
    <3>3. \A k \in 1 .. Len(l) : l[k] \in ToSet(l)
      BY <2>2 DEF ToSet
    <3> QED  BY <2>1, <2>2, <2>3, <3>1, <3>2, <3>3
  <2>7. ASSUME NEW j \in 1 .. Len(l), l[j] # s PROVE l[j] \in ToSet(m)
    <3>1. CASE j < i
      BY <2>2, <2>3, <2>4, <3>1 DEF ToSet
    <3>2. CASE j > i
      <4>1. j - 1 \in 1 .. Len(l) - 1 /\ m[j - 1] = l[j]
        BY <2>2, <2>3, <3>2
      <4> QED  BY <4>1, <2>4 DEF ToSet
    <3> QED  BY <2>1, <2>2, <2>7, <3>1, <3>2
  <2>8. \A x : x \in ToSet(l) \ {s} => x \in ToSet(m)
    BY <2>2, <2>7 DEF ToSet
  <2> QED  BY <2>1, <2>3, <2>5, <2>6, <2>8 DEF m
<1> QED  BY <1>1, <1>2

\* timer_list_remove() takes the timer out of whichever list it is in.
LEMMA RemovedIs ==
  ASSUME NEW w, NEW t, Placed(w)
  PROVE  /\ Placed(Removed(w, t)) /\ ~Linked(Removed(w, t), t)
         /\ \A s \in Slot : ToSet(Removed(w, t)[s]) = ToSet(w[s]) \ {t}
<1>1. \A s \in Slot : Removed(w, t)[s] = Without(w[s], t)
  BY DEF Removed
<1>2. \A s \in Slot : w[s] \in Seq(Timer) /\ IsInjective(w[s])
  BY DEF Placed
<1>3. \A s \in Slot : /\ Removed(w, t)[s] \in Seq(Timer) /\ IsInjective(Removed(w, t)[s])
                      /\ ToSet(Removed(w, t)[s]) = ToSet(w[s]) \ {t}
  BY <1>1, <1>2, WithoutIs
<1>4. Removed(w, t) \in [Slot -> Seq(Timer)]
  BY <1>1, <1>3 DEF Removed
<1>5. \A s, r \in Slot : s # r => ToSet(Removed(w, t)[s]) \cap ToSet(Removed(w, t)[r]) = {}
  BY <1>3 DEF Placed
<1> QED  BY <1>3, <1>4, <1>5 DEF Placed, Linked

LEMMA AppendIs ==
  ASSUME NEW S, NEW l \in Seq(S), NEW t \in S, IsInjective(l), t \notin ToSet(l)
  PROVE  /\ Append(l, t) \in Seq(S) /\ IsInjective(Append(l, t))
         /\ ToSet(Append(l, t)) = ToSet(l) \cup {t}
<1>1. /\ Append(l, t) \in Seq(S) /\ Len(Append(l, t)) = Len(l) + 1
      /\ \A i \in 1 .. Len(l) : Append(l, t)[i] = l[i]
      /\ Append(l, t)[Len(l) + 1] = t
  OBVIOUS
<1>2. DOMAIN l = 1 .. Len(l) /\ DOMAIN Append(l, t) = 1 .. Len(l) + 1 /\ Len(l) \in Nat
  BY <1>1
<1>3. \A i \in 1 .. Len(l) : l[i] # t
  BY <1>2 DEF ToSet
<1>4. IsInjective(Append(l, t))
  BY <1>1, <1>2, <1>3 DEF IsInjective
<1>5. ToSet(Append(l, t)) = ToSet(l) \cup {t}
  BY <1>1, <1>2 DEF ToSet
<1> QED  BY <1>1, <1>4, <1>5

LEMMA AppendedIs ==
  ASSUME NEW w, NEW s \in Slot, NEW t \in Timer, Placed(w), ~Linked(w, t)
  PROVE  /\ Placed(Appended(w, s, t))
         /\ ToSet(Appended(w, s, t)[s]) = ToSet(w[s]) \cup {t}
         /\ \A r \in Slot : r # s => ToSet(Appended(w, s, t)[r]) = ToSet(w[r])
<1> DEFINE v == Appended(w, s, t)
<1>1. w \in [Slot -> Seq(Timer)] /\ \A r \in Slot : w[r] \in Seq(Timer) /\ IsInjective(w[r]) /\ t \notin ToSet(w[r])
  BY DEF Placed, Linked
<1>2. /\ Append(w[s], t) \in Seq(Timer) /\ IsInjective(Append(w[s], t))
      /\ ToSet(Append(w[s], t)) = ToSet(w[s]) \cup {t}
  BY <1>1, AppendIs
<1>3. v \in [Slot -> Seq(Timer)] /\ v[s] = Append(w[s], t) /\ \A r \in Slot : r # s => v[r] = w[r]
  BY <1>1, <1>2 DEF Appended
<1> HIDE DEF v
<1>4. \A r \in Slot : IsInjective(v[r])
  BY <1>1, <1>2, <1>3
<1>5. \A a, b \in Slot : a # b => ToSet(v[a]) \cap ToSet(v[b]) = {}
  <2> SUFFICES ASSUME NEW a \in Slot, NEW b \in Slot, a # b PROVE ToSet(v[a]) \cap ToSet(v[b]) = {}
    OBVIOUS
  <2>1. ToSet(w[a]) \cap ToSet(w[b]) = {}
    BY DEF Placed
  <2>2. CASE a = s
    BY <1>1, <1>2, <1>3, <2>1, <2>2
  <2>3. CASE b = s
    BY <1>1, <1>2, <1>3, <2>1, <2>3
  <2>4. CASE a # s /\ b # s
    BY <1>3, <2>1, <2>4
  <2> QED  BY <2>2, <2>3, <2>4
<1>6. Placed(v)
  BY <1>3, <1>4, <1>5 DEF Placed
<1> QED  BY <1>2, <1>3, <1>6 DEF v
-----------------------------------------------------------------------------
(* The parts of the invariant *)

Scalars ==
  /\ current_tick \in Nat /\ todo \in 0 .. MaxJump
  /\ pc \in {"idle", "clock", "cascade", "run", "call", "down"} /\ level \in 2 .. 5
  /\ cur \in Timer \cup {Nobody} /\ (pc = "call") = (cur # Nobody)
  /\ starts \in 0 .. MaxStart /\ crashes \in 0 .. MaxCrash

\* A timer is in a list exactly if its memory is in use.
Held(tm, w) == tm \in [Timer -> TimerState] /\ \A t \in Timer : tm[t].live <=> Linked(w, t)

\* The timers of w are in lists they may be in.
InTime(w, tm) == \A s \in Slot : \A t \in ToSet(w[s]) :
                   Turn(s, tm[t].expires, current_tick, Past(s[1]))

\* No other timer than t is due at another time.
OthersSame(t, tm, tm2) == \A u \in Timer : u # t => tm2[u].expires = tm[u].expires

LEMMA Parts ==
  IInv <=> /\ Scalars /\ Held(timers, wheel) /\ Placed(wheel) /\ ~failed
           /\ InTime(wheel, timers) /\ Doing
  BY DEF IInv, NoAssertionFails, TypeOK, Scalars, Held, Placed, OnTime, InTime

LEMMA Members ==
  ASSUME NEW w, Placed(w), NEW s \in Slot, NEW t \in ToSet(w[s])
  PROVE  t \in Timer /\ Linked(w, t)
<1>1. w[s] \in Seq(Timer)
  BY DEF Placed
<1> QED  BY <1>1 DEF ToSet, Linked

LEMMA First ==
  ASSUME NEW w, Placed(w), NEW s \in Slot, w[s] # <<>>
  PROVE  Head(w[s]) \in ToSet(w[s])
<1>1. w[s] \in Seq(Timer)
  BY DEF Placed
<1> QED  BY <1>1 DEF ToSet

\* A timer that is in no list is filed.
LEMMA Refiled ==
  ASSUME current_tick \in Nat, NEW w, Placed(w), NEW t \in Timer, ~Linked(w, t),
         NEW e \in Nat, current_tick <= e,
         NEW tm, InTime(w, tm), NEW tm2, tm2[t].expires = e, OthersSame(t, tm, tm2)
  PROVE  /\ Placed(Appended(w, search_list(e), t)) /\ InTime(Appended(w, search_list(e), t), tm2)
         /\ MayAdd(w, t, e)
         /\ \A u \in Timer : Linked(Appended(w, search_list(e), t), u) <=> Linked(w, u) \/ u = t
<1> DEFINE s == search_list(e)
           v == Appended(w, s, t)
<1>1. s \in Slot
  BY Files
<1>2. \A past \in BOOLEAN : Turn(s, e, current_tick, past)
  BY Files
<1>3. Past(s[1]) \in BOOLEAN
  BY DEF Past
<1> HIDE DEF s
<1>4. /\ Placed(v) /\ ToSet(v[s]) = ToSet(w[s]) \cup {t}
      /\ \A r \in Slot : r # s => ToSet(v[r]) = ToSet(w[r])
  BY <1>1, AppendedIs
<1> HIDE DEF v
<1>5. InTime(v, tm2)
  <2> SUFFICES ASSUME NEW r \in Slot, NEW u \in ToSet(v[r])
               PROVE  Turn(r, tm2[u].expires, current_tick, Past(r[1]))
    BY Zenon DEF InTime
  <2>1. CASE u = t
    <3>1. r = s
      BY <1>4, <2>1 DEF Linked
    <3>2. Turn(s, e, current_tick, Past(s[1]))
      BY <1>2, <1>3
    <3> QED  BY <2>1, <3>1, <3>2, Zenon
  <2>2. CASE u # t
    <3>1. u \in ToSet(w[r])
      BY <1>4, <2>2
    <3>2. u \in Timer
      BY <3>1, Members
    <3>3. Turn(r, tm[u].expires, current_tick, Past(r[1]))
      BY <3>1, Zenon DEF InTime
    <3>4. tm2[u].expires = tm[u].expires
      BY <2>2, <3>2 DEF OthersSame
    <3> QED  BY <3>3, <3>4, Zenon
  <2> QED  BY <2>1, <2>2
<1>6. \A u \in Timer : Linked(v, u) <=> Linked(w, u) \/ u = t
  BY <1>1, <1>4 DEF Linked
<1>7. MayAdd(w, t, e)
  BY DEF MayAdd
<1> QED  BY <1>4, <1>5, <1>6, <1>7 DEF v, s

\* A timer is taken out of its list.
LEMMA TakenOut ==
  ASSUME NEW w, Placed(w), NEW t \in Timer, NEW tm, InTime(w, tm), NEW tm2, OthersSame(t, tm, tm2)
  PROVE  /\ Placed(Removed(w, t)) /\ InTime(Removed(w, t), tm2) /\ ~Linked(Removed(w, t), t)
         /\ \A u \in Timer : u # t => (Linked(Removed(w, t), u) <=> Linked(w, u))
<1> DEFINE v == Removed(w, t)
<1>1. Placed(v) /\ ~Linked(v, t) /\ \A s \in Slot : ToSet(v[s]) = ToSet(w[s]) \ {t}
  BY RemovedIs
<1> HIDE DEF v
<1>2. InTime(v, tm2)
  <2> SUFFICES ASSUME NEW r \in Slot, NEW u \in ToSet(v[r])
               PROVE  Turn(r, tm2[u].expires, current_tick, Past(r[1]))
    BY Zenon DEF InTime
  <2>1. u \in ToSet(w[r]) /\ u # t
    BY <1>1
  <2>2. u \in Timer
    BY <2>1, Members
  <2>3. Turn(r, tm[u].expires, current_tick, Past(r[1]))
    BY <2>1, Zenon DEF InTime
  <2>4. tm2[u].expires = tm[u].expires
    BY <2>1, <2>2 DEF OthersSame
  <2> QED  BY <2>3, <2>4, Zenon
<1>3. \A u \in Timer : u # t => (Linked(v, u) <=> Linked(w, u))
  BY <1>1 DEF Linked
<1> QED  BY <1>1, <1>2, <1>3 DEF v

\* The invariant after a step within a tick.
LEMMA StepWithin ==
  ASSUME Scalars', Held(timers', wheel'), Placed(wheel'), ~failed', InTime(wheel', timers'), Doing',
         current_tick' = current_tick, \A l \in Vector : Past(l)' = Past(l)
  PROVE  IInv'
<1>1. InTime(wheel, timers)'
  <2> SUFFICES ASSUME NEW r \in Slot, NEW u \in ToSet(wheel'[r])
               PROVE  Turn(r, timers'[u].expires, current_tick', Past(r[1])')
    BY Zenon DEF InTime
  <2>1. Turn(r, timers'[u].expires, current_tick, Past(r[1]))
    BY Zenon DEF InTime
  <2>2. r[1] \in Vector
    BY DEF Slot
  <2> QED  BY <2>1, <2>2, Zenon
<1>2. Held(timers, wheel)' /\ Placed(wheel)'
  BY DEF Held, Placed, Linked
<1>3. (IInv <=> /\ Scalars /\ Held(timers, wheel) /\ Placed(wheel) /\ ~failed
                /\ InTime(wheel, timers) /\ Doing)'
  BY Parts, PTL
<1> QED  BY <1>1, <1>2, <1>3
-----------------------------------------------------------------------------
(* Steps of the users *)

LEMMA TickTypes ==
  ASSUME NEW k \in Kinds
  PROVE  /\ ms2tick(k.timeout) \in Nat /\ ms2tick(k.repeat) \in Nat
         /\ k.count \in Nat \cup {REPEAT_FOREVER} /\ k.count # 0
<1>1. k.timeout \in Nat /\ k.repeat \in Nat /\ (k.count \in Nat \ {0} \/ k.count = REPEAT_FOREVER)
  BY TimerAssumption
<1>2. TIMER_PRECISION_MS \in Nat \ {0}
  BY TimerAssumption
<1>3. ms2tick(k.timeout) \in Nat /\ ms2tick(k.repeat) \in Nat
  BY <1>1, <1>2, Divided DEF ms2tick
<1>4. k.count \in Nat \cup {REPEAT_FOREVER} /\ k.count # 0
  BY <1>1 DEF REPEAT_FOREVER
<1> QED  BY <1>3, <1>4

LEMMA StartInv ==
  ASSUME IInv, NEW t \in Timer, NEW k \in Kinds, Start(t, k)
  PROVE  IInv'
<1>1. /\ Scalars /\ Held(timers, wheel) /\ Placed(wheel) /\ ~failed
      /\ InTime(wheel, timers) /\ Doing
  BY Parts
<1> DEFINE e == current_tick + ms2tick(k.timeout)
           new == [expires |-> e, interval |-> ms2tick(k.repeat), repeats |-> k.count,
                   running |-> FALSE, live |-> TRUE]
<1>2. e \in Nat /\ current_tick <= e /\ current_tick \in Nat /\ new \in TimerState
  BY <1>1, TickTypes DEF Scalars, TimerState
<1>3. /\ timers' = [timers EXCEPT ![t] = new] /\ wheel' = Appended(wheel, search_list(e), t)
      /\ failed' = (failed \/ ~MayAdd(wheel, t, e)) /\ ~timers[t].live
      /\ UserRuns /\ starts < MaxStart /\ starts' = starts + 1
      /\ UNCHANGED <<current_tick, pc, level, cur, todo, crashes>>
  BY DEF Start
<1> HIDE DEF e
<1>4. /\ new.expires = e /\ new.live = TRUE
  OBVIOUS
<1> HIDE DEF new
<1>5. /\ timers' \in [Timer -> TimerState] /\ timers'[t] = new
      /\ \A u \in Timer : u # t => timers'[u] = timers[u]
  BY <1>1, <1>2, <1>3 DEF Held
<1>6. ~Linked(wheel, t)
  BY <1>1, <1>3 DEF Held
<1>7. /\ Placed(wheel') /\ InTime(wheel', timers') /\ MayAdd(wheel, t, e)
      /\ \A u \in Timer : Linked(wheel', u) <=> Linked(wheel, u) \/ u = t
  <2>1. timers'[t].expires = e /\ OthersSame(t, timers, timers')
    BY <1>4, <1>5 DEF OthersSame
  <2>2. /\ Placed(Appended(wheel, search_list(e), t))
        /\ InTime(Appended(wheel, search_list(e), t), timers')
        /\ MayAdd(wheel, t, e)
        /\ \A u \in Timer : Linked(Appended(wheel, search_list(e), t), u) <=> Linked(wheel, u) \/ u = t
    BY <1>1, <1>2, <1>6, <2>1, Refiled
  <2>3. wheel' = Appended(wheel, search_list(e), t)
    BY <1>3
  <2> QED  BY <2>2, <2>3, Zenon
<1>8. Held(timers', wheel')
  BY <1>1, <1>4, <1>5, <1>7 DEF Held
<1>9. Scalars'
  BY <1>1, <1>3, TimerAssumption DEF Scalars
<1>10. ~failed'
  BY <1>1, <1>3, <1>7, Zenon
<1>11. Doing'
  <2>1. Comes(level, current_tick)' <=> Comes(level, current_tick)
    BY <1>3 DEF Comes
  <2> QED  BY <1>1, <1>3, <1>4, <1>5, <2>1 DEF Doing, Scalars
<1>12. \A l \in Vector : Past(l)' = Past(l)
  BY <1>3 DEF Past
<1> QED  BY <1>3, <1>7, <1>8, <1>9, <1>10, <1>11, <1>12, StepWithin

\* The memory of a timer without its fields.
LEMMA FreeIs ==
  /\ Free \in TimerState /\ Free.live = FALSE /\ Free.repeats = 0
  BY DEF Free, TimerState

\* A timer is taken out of its list and destructed.
LEMMA Gone ==
  ASSUME IInv, NEW t \in Timer, timers' = Destructed(t), wheel' = Removed(wheel, t)
  PROVE  /\ Placed(wheel') /\ InTime(wheel', timers') /\ Held(timers', wheel')
         /\ timers'[t] = Free /\ \A u \in Timer : u # t => timers'[u] = timers[u]
<1>1. Scalars /\ Held(timers, wheel) /\ Placed(wheel) /\ InTime(wheel, timers)
  BY Parts
<1>2. /\ timers' \in [Timer -> TimerState] /\ timers'[t] = Free
      /\ \A u \in Timer : u # t => timers'[u] = timers[u]
  BY <1>1, FreeIs DEF Held, Destructed
<1>3. /\ Placed(wheel') /\ InTime(wheel', timers') /\ ~Linked(wheel', t)
      /\ \A u \in Timer : u # t => (Linked(wheel', u) <=> Linked(wheel, u))
  <2>1. OthersSame(t, timers, timers')
    BY <1>2 DEF OthersSame
  <2> QED  BY <1>1, <2>1, TakenOut
<1>4. Held(timers', wheel')
  BY <1>1, <1>2, <1>3, FreeIs DEF Held
<1> QED  BY <1>2, <1>3, <1>4

\* Only what no list depends on is changed in a timer.
LEMMA Touched ==
  ASSUME IInv, NEW t \in Timer, timers' \in [Timer -> TimerState], wheel' = wheel,
         timers'[t].expires = timers[t].expires, timers'[t].live = timers[t].live,
         \A u \in Timer : u # t => timers'[u] = timers[u]
  PROVE  Placed(wheel') /\ InTime(wheel', timers') /\ Held(timers', wheel')
<1>1. Scalars /\ Held(timers, wheel) /\ Placed(wheel) /\ InTime(wheel, timers)
  BY Parts
<1>2. InTime(wheel', timers')
  <2> SUFFICES ASSUME NEW r \in Slot, NEW u \in ToSet(wheel[r])
               PROVE  Turn(r, timers'[u].expires, current_tick, Past(r[1]))
    BY Zenon DEF InTime
  <2>1. u \in Timer
    BY <1>1, Members
  <2>2. timers'[u].expires = timers[u].expires
    BY <2>1
  <2>3. Turn(r, timers[u].expires, current_tick, Past(r[1]))
    BY <1>1, Zenon DEF InTime
  <2> QED  BY <2>2, <2>3, Zenon
<1> QED  BY <1>1, <1>2 DEF Held

LEMMA StopInv ==
  ASSUME IInv, NEW t \in Timer, Stop(t)
  PROVE  IInv'
<1>1. /\ Scalars /\ Held(timers, wheel) /\ Placed(wheel) /\ ~failed
      /\ InTime(wheel, timers) /\ Doing
  BY Parts
<1>2. /\ timers[t].live
      /\ IF timers[t].running THEN StopRunning(t) ELSE StopAtOnce(t)
      /\ UNCHANGED <<current_tick, pc, level, cur, todo, starts, crashes, failed>>
  BY DEF Stop
<1>3. Scalars' /\ ~failed' /\ \A l \in Vector : Past(l)' = Past(l)
  BY <1>1, <1>2 DEF Scalars, Past
<1>4. Comes(level, current_tick)' <=> Comes(level, current_tick)
  BY <1>2 DEF Comes
<1>5. CASE timers[t].running
  <2>1. timers' = [timers EXCEPT ![t].repeats = 0] /\ wheel' = wheel
    BY <1>2, <1>5 DEF StopRunning
  <2>2. timers \in [Timer -> TimerState] /\ timers[t] \in TimerState
    BY <1>1 DEF Held
  <2>3. timers' \in [Timer -> TimerState]
    BY <2>1, <2>2 DEF TimerState
  <2>4. /\ timers'[t] = [timers[t] EXCEPT !.repeats = 0]
        /\ \A u \in Timer : u # t => timers'[u] = timers[u]
    BY <2>1, <2>2
  <2>5. /\ timers'[t].expires = timers[t].expires /\ timers'[t].live = timers[t].live
        /\ timers'[t].running = timers[t].running
    BY <2>2, <2>4 DEF TimerState
  <2>6. Placed(wheel') /\ InTime(wheel', timers') /\ Held(timers', wheel')
    BY <2>1, <2>3, <2>4, <2>5, Touched
  <2>7. Doing'
    BY <1>1, <1>2, <1>4, <2>4, <2>5 DEF Doing, Scalars
  <2> QED  BY <1>2, <1>3, <2>6, <2>7, StepWithin
<1>6. CASE ~timers[t].running
  <2>1. timers' = Destructed(t) /\ wheel' = Removed(wheel, t)
    BY <1>2, <1>6 DEF StopAtOnce
  <2>2. /\ Placed(wheel') /\ InTime(wheel', timers') /\ Held(timers', wheel')
        /\ timers'[t] = Free /\ \A u \in Timer : u # t => timers'[u] = timers[u]
    BY <2>1, Gone
  <2>3. Doing'
    BY <1>1, <1>2, <1>4, <1>6, <2>2, FreeIs DEF Doing, Scalars
  <2> QED  BY <1>2, <1>3, <2>2, <2>3, StepWithin
<1> QED  BY <1>5, <1>6
-----------------------------------------------------------------------------
(* Steps of update() *)

LEMMA ReachedIs ==
  ASSUME NEW l \in Vector, current_tick \in Nat
  PROVE  Reached(l) \in Slot /\ Reached(l)[1] = l /\ Reached(l) = <<l, TvIdx(l, current_tick)>>
  BY Indexed DEF Reached

\* Expiry times are ticks.
LEMMA Expires ==
  ASSUME NEW w, NEW tm, Held(tm, w), NEW t \in Timer
  PROVE  /\ tm[t] \in TimerState /\ tm[t].expires \in Nat /\ tm[t].interval \in Nat
         /\ tm[t].repeats \in Nat \cup {REPEAT_FOREVER}
         /\ tm[t].running \in BOOLEAN /\ tm[t].live \in BOOLEAN
  BY DEF Held, TimerState

LEMMA MoveDownInv ==
  ASSUME IInv, MoveDown
  PROVE  IInv'
<1>1. /\ Scalars /\ Held(timers, wheel) /\ Placed(wheel) /\ ~failed
      /\ InTime(wheel, timers) /\ Doing
  BY Parts
<1> DEFINE s == Reached(level)
           t == Head(wheel[s])
           w == Removed(wheel, t)
           e == timers[t].expires
<1>2. /\ pc = "cascade" /\ wheel[s] # <<>>
      /\ wheel' = Appended(w, search_list(e), t)
      /\ failed' = (failed \/ ~MayAdd(w, t, e) \/ search_list(e) = s)
      /\ UNCHANGED <<timers, current_tick, pc, level, cur, todo, starts, crashes>>
  BY DEF MoveDown
<1>3. current_tick \in Nat /\ level \in 2 .. 5 /\ level \in Vector
  BY <1>1 DEF Scalars, Vector
<1>4. s \in Slot /\ s[1] = level /\ s = <<level, TvIdx(level, current_tick)>>
  BY <1>3, ReachedIs
<1>5. t \in ToSet(wheel[s])
  BY <1>1, <1>2, <1>4, First
<1>6. t \in Timer
  BY <1>1, <1>4, <1>5, Members
<1>7. e \in Nat
  BY <1>1, <1>6, Expires
<1> HIDE DEF t, e, s
<1>8. Comes(level, current_tick)
  BY <1>1, <1>2 DEF Doing
<1>9. current_tick <= e
  <2>1. Turn(s, e, current_tick, Past(s[1]))
    BY <1>1, <1>4, <1>5, Zenon DEF InTime, e
  <2>2. Past(s[1]) \in BOOLEAN
    BY DEF Past
  <2> QED  BY <1>3, <1>4, <1>7, <1>8, <2>1, <2>2, TurnNow
<1>10. /\ Placed(w) /\ InTime(w, timers) /\ ~Linked(w, t)
       /\ \A u \in Timer : u # t => (Linked(w, u) <=> Linked(wheel, u))
  <2>1. OthersSame(t, timers, timers)
    BY DEF OthersSame
  <2> QED  BY <1>1, <1>6, <2>1, TakenOut
<1> HIDE DEF w
<1>11. /\ Placed(Appended(w, search_list(e), t)) /\ InTime(Appended(w, search_list(e), t), timers)
       /\ MayAdd(w, t, e)
       /\ \A u \in Timer : Linked(Appended(w, search_list(e), t), u) <=> Linked(w, u) \/ u = t
  <2>1. timers[t].expires = e /\ OthersSame(t, timers, timers)
    BY DEF OthersSame, e
  <2> QED  BY <1>3, <1>6, <1>7, <1>9, <1>10, <2>1, Refiled
<1>12. Placed(wheel') /\ InTime(wheel', timers')
  <2>1. wheel' = Appended(w, search_list(e), t) /\ timers' = timers
    BY <1>2
  <2> QED  BY <1>11, <2>1, Zenon
<1>13. Held(timers', wheel')
  <2>1. Linked(wheel, t)
    BY <1>1, <1>4, <1>5, Members
  <2>2. \A u \in Timer : Linked(wheel', u) <=> Linked(wheel, u)
    BY <1>2, <1>10, <1>11, <2>1
  <2> QED  BY <1>1, <1>2, <2>2 DEF Held
<1>14. ~failed'
  <2>1. search_list(e) # s
    <3>1. Turn(search_list(e), e, current_tick, TRUE)
      BY <1>3, <1>7, <1>9, Files
    <3>2. ~Turn(s, e, current_tick, TRUE)
      BY <1>3, <1>4, <1>7, <1>8, TurnNow
    <3> QED  BY <3>1, <3>2
  <2> QED  BY <1>1, <1>2, <1>11, <2>1, Zenon
<1>15. Scalars' /\ \A l \in Vector : Past(l)' = Past(l)
  BY <1>1, <1>2 DEF Scalars, Past
<1>16. Doing'
  BY <1>1, <1>2 DEF Doing, Comes
<1> QED  BY <1>2, <1>12, <1>13, <1>14, <1>15, <1>16, StepWithin

\* The lists stay, and what is asked of the timers in them now follows from
\* what was asked before.
LEMMA ListsStay ==
  ASSUME IInv, UNCHANGED <<timers, wheel>>, Scalars', ~failed', Doing',
         \A r \in Slot : \A e \in Nat :
           (wheel[r] # <<>> /\ Turn(r, e, current_tick, Past(r[1]))) => Turn(r, e, current_tick', Past(r[1])')
  PROVE  IInv'
<1>1. Held(timers, wheel) /\ Placed(wheel) /\ InTime(wheel, timers)
  BY Parts
<1>2. InTime(wheel, timers)'
  <2> SUFFICES ASSUME NEW r \in Slot, NEW u \in ToSet(wheel[r])
               PROVE  Turn(r, timers[u].expires, current_tick', Past(r[1])')
    BY Zenon DEF InTime
  <2>1. Turn(r, timers[u].expires, current_tick, Past(r[1]))
    BY <1>1, Zenon DEF InTime
  <2>2. u \in Timer
    BY <1>1, Members
  <2>3. timers[u].expires \in Nat
    BY <1>1, <2>2, Expires
  <2>4. wheel[r] # <<>>
    BY DEF ToSet
  <2> QED  BY <2>1, <2>3, <2>4
<1>3. Held(timers, wheel)' /\ Placed(wheel)'
  BY <1>1 DEF Held, Placed, Linked
<1>4. (IInv <=> /\ Scalars /\ Held(timers, wheel) /\ Placed(wheel) /\ ~failed
                /\ InTime(wheel, timers) /\ Doing)'
  BY Parts, PTL
<1> QED  BY <1>2, <1>3, <1>4

\* A slot is a vector and an index.
LEMMA SlotIs ==
  ASSUME NEW r \in Slot
  PROVE  r = <<r[1], r[2]>> /\ r[1] \in Vector
  BY DEF Slot

\* In the first vector it makes no difference whether the cascade has passed.
LEMMA TurnFirst ==
  ASSUME NEW j, NEW e, NEW c, NEW past, NEW past2, Turn(<<1, j>>, e, c, past)
  PROVE  Turn(<<1, j>>, e, c, past2)
<1>1. 1 \in Vector
  BY DEF Vector
<1>2. PICK q \in Nat : TurnAt(1, j, e, c, past, q)
  BY <1>1, TurnIs, Zenon
<1>3. TurnAt(1, j, e, c, past2, q)
  BY <1>2 DEF TurnAt
<1> QED  BY <1>1, <1>3, TurnIs, Zenon

\* run_timer() begins: only where the first vector comes round is there
\* something to cascade.
LEMMA TickBegins ==
  ASSUME NEW r \in Slot, NEW e \in Nat, NEW c \in Nat, Turn(r, e, c, FALSE)
  PROVE  /\ r[1] < 2 => Turn(r, e, c, TRUE)
         /\ TvIdx(1, c) # 0 => Turn(r, e, c, TRUE)
<1>1. r = <<r[1], r[2]>> /\ r[1] \in Vector
  BY SlotIs
<1>2. CASE r[1] = 1
  BY <1>1, <1>2, TurnFirst
<1>3. CASE r[1] # 1
  <2>1. r[1] \in 2 .. 5 /\ ~(r[1] < 2)
    BY <1>1, <1>3 DEF Vector
  <2>2. ASSUME TvIdx(1, c) # 0 PROVE Turn(r, e, c, TRUE)
    <3>1. ~Comes(r[1], c)
      BY <2>1, <2>2, ComesNoMore
    <3> QED  BY <1>1, <2>1, <3>1, TurnLater
  <2> QED  BY <2>1, <2>2
<1> QED  BY <1>2, <1>3

LEMMA TickComes ==
  ASSUME NEW c \in Nat, TvIdx(1, c) = 0
  PROVE  Comes(2, c)
<1>1. Comes(1 + 1, c)
  BY ComesFirst, ComesNext
<1> QED  BY <1>1

LEMMA NextVectorInv ==
  ASSUME IInv, NextVector
  PROVE  IInv'
<1>1. /\ Scalars /\ Placed(wheel) /\ ~failed /\ Doing
  BY Parts
<1>2. /\ pc = "cascade" /\ wheel[Reached(level)] = <<>>
      /\ IF level < 5 /\ TvIdx(level, current_tick) = 0
         THEN level' = level + 1 /\ UNCHANGED pc
         ELSE level' = 2 /\ pc' = "run"
      /\ UNCHANGED <<timers, wheel, current_tick, cur, todo, starts, crashes, failed>>
  BY DEF NextVector
<1>3. current_tick \in Nat /\ level \in 2 .. 5 /\ level \in Vector
  BY <1>1 DEF Scalars, Vector
<1>4. Comes(level, current_tick)
  BY <1>1, <1>2 DEF Doing
<1>5. Scalars'
  BY <1>1, <1>2 DEF Scalars
<1>6. Doing'
  <2>1. CASE level < 5 /\ TvIdx(level, current_tick) = 0
    <3>1. Comes(level + 1, current_tick)
      BY <1>3, <1>4, <2>1, ComesNext
    <3>2. Comes(level', current_tick')
      BY <1>2, <2>1, <3>1
    <3> QED  BY <1>1, <1>2, <2>1, <3>2 DEF Doing, Comes
  <2>2. CASE ~(level < 5 /\ TvIdx(level, current_tick) = 0)
    BY <1>1, <1>2, <2>2 DEF Doing
  <2> QED  BY <2>1, <2>2
<1>7. ASSUME NEW r \in Slot, NEW e \in Nat, wheel[r] # <<>>, Turn(r, e, current_tick, Past(r[1]))
      PROVE  Turn(r, e, current_tick', Past(r[1])')
  <2>1. r = <<r[1], r[2]>> /\ r[1] \in Vector /\ current_tick' = current_tick
    BY <1>2, SlotIs
  <2>3. CASE r[1] < level
    <3>1. Past(r[1]) = TRUE /\ Past(r[1])' = TRUE
      BY <1>2, <1>3, <2>1, <2>3 DEF Past, Vector
    <3> QED  BY <1>7, <2>1, <3>1
  <2>4. CASE r[1] >= level
    <3>0. Past(r[1]) = FALSE /\ r[1] \in 2 .. 5
      BY <1>2, <1>3, <2>1, <2>4 DEF Vector, Past
    <3>1. Turn(r, e, current_tick, FALSE)
      BY <1>7, <3>0
    <3>2. CASE r[1] = level
      <4>1. r # Reached(level)
        BY <1>2, <1>7
      <4>2. r[2] # TvIdx(level, current_tick)
        BY <2>1, <3>2, <4>1 DEF Reached
      <4>3. Turn(<<r[1], r[2]>>, e, current_tick, FALSE)
        BY <2>1, <3>1
      <4>4. Turn(<<r[1], r[2]>>, e, current_tick, TRUE)
        BY <1>3, <3>0, <3>2, <4>2, <4>3, TurnLater
      <4>5. Past(r[1])' = TRUE
        BY <1>2, <1>3, <3>2 DEF Past
      <4> QED  BY <2>1, <4>4, <4>5
    <3>3. CASE r[1] > level /\ level < 5 /\ TvIdx(level, current_tick) = 0
      <4>1. Past(r[1])' = FALSE
        BY <1>2, <1>3, <2>1, <3>3 DEF Past, Vector
      <4> QED  BY <2>1, <3>1, <4>1
    <3>4. CASE r[1] > level /\ ~(level < 5 /\ TvIdx(level, current_tick) = 0)
      <4>1. level \in 1 .. 4 /\ r[1] \in level + 1 .. 5 /\ TvIdx(level, current_tick) # 0
        BY <1>3, <2>1, <3>0, <3>4
      <4>2. ~Comes(r[1], current_tick)
        BY <1>3, <4>1, ComesNoMore
      <4>3. Turn(<<r[1], r[2]>>, e, current_tick, FALSE)
        BY <2>1, <3>1
      <4>4. Turn(<<r[1], r[2]>>, e, current_tick, TRUE)
        BY <1>3, <3>0, <4>2, <4>3, TurnLater
      <4>5. Past(r[1])' = TRUE
        BY <1>2, <3>4 DEF Past
      <4> QED  BY <2>1, <4>4, <4>5
    <3> QED  BY <1>3, <2>4, <3>0, <3>2, <3>3, <3>4
  <2> QED  BY <1>3, <2>1, <2>3, <2>4 DEF Vector
<1> QED  BY <1>1, <1>2, <1>5, <1>6, <1>7, ListsStay

\* What run_timer() is called with.
LEMMA RunTimerIs ==
  ASSUME NEW c \in Nat
  PROVE  \/ RunTimer(c) = "cascade" /\ TvIdx(1, c) = 0
         \/ RunTimer(c) = "run" /\ TvIdx(1, c) # 0
  BY DEF RunTimer

LEMMA ReadClockInv ==
  ASSUME IInv, NEW real \in current_tick - 1 .. current_tick + MaxJump, ReadClock(real)
  PROVE  IInv'
<1>1. /\ Scalars /\ Placed(wheel) /\ ~failed /\ Doing
  BY Parts
<1>2. /\ pc \in {"idle", "clock"}
      /\ todo' = outdated_tick_count(real)
      /\ pc' = IF todo' > 0 THEN RunTimer(current_tick) ELSE "idle"
      /\ UNCHANGED <<timers, wheel, current_tick, level, cur, starts, crashes, failed>>
  BY DEF ReadClock
<1>3. current_tick \in Nat /\ MaxJump \in Nat
  BY <1>1, TimerAssumption DEF Scalars
<1>4. todo' \in 0 .. MaxJump
  BY <1>2, <1>3 DEF outdated_tick_count
<1>5. level = 2 /\ cur = Nobody
  BY <1>1, <1>2 DEF Doing, Scalars
<1>6. \/ todo' > 0 /\ pc' = "cascade" /\ TvIdx(1, current_tick) = 0
      \/ todo' > 0 /\ pc' = "run" /\ TvIdx(1, current_tick) # 0
      \/ pc' = "idle"
  BY <1>2, <1>3, RunTimerIs
<1>7. Scalars'
  BY <1>1, <1>2, <1>4, <1>5, <1>6 DEF Scalars
<1>8. Doing'
  <2>1. pc' = "cascade" => Comes(level, current_tick)'
    BY <1>2, <1>3, <1>5, <1>6, TickComes DEF Comes
  <2> QED  BY <1>1, <1>2, <1>5, <1>6, <2>1 DEF Doing
<1>9. ASSUME NEW r \in Slot, NEW e \in Nat, wheel[r] # <<>>, Turn(r, e, current_tick, Past(r[1]))
      PROVE  Turn(r, e, current_tick', Past(r[1])')
  <2>1. Turn(r, e, current_tick, FALSE)
    <3>1. Past(r[1]) = FALSE
      BY <1>2 DEF Past
    <3> QED  BY <1>9, <3>1
  <2>2. current_tick' = current_tick /\ r[1] \in Vector
    BY <1>2, SlotIs
  <2>3. CASE pc' = "cascade"
    <3>1. CASE r[1] < 2
      <4>1. Past(r[1])' = TRUE
        BY <1>2, <1>5, <2>3, <3>1 DEF Past
      <4>2. Turn(r, e, current_tick, TRUE)
        BY <1>3, <2>1, <3>1, TickBegins
      <4> QED  BY <2>2, <4>1, <4>2
    <3>2. CASE ~(r[1] < 2)
      <4>1. Past(r[1])' = FALSE
        BY <1>2, <1>5, <2>3, <3>2 DEF Past
      <4> QED  BY <2>1, <2>2, <4>1
    <3> QED  BY <3>1, <3>2
  <2>4. CASE pc' = "run"
    <3>1. Past(r[1])' = TRUE
      BY <2>4 DEF Past
    <3>2. Turn(r, e, current_tick, TRUE)
      BY <1>3, <1>6, <2>1, <2>4, TickBegins
    <3> QED  BY <2>2, <3>1, <3>2
  <2>5. CASE pc' = "idle"
    <3>1. Past(r[1])' = FALSE
      BY <2>5 DEF Past
    <3> QED  BY <2>1, <2>2, <3>1
  <2> QED  BY <1>6, <2>3, <2>4, <2>5
<1> QED  BY <1>1, <1>2, <1>7, <1>8, <1>9, ListsStay

LEMMA EndTickInv ==
  ASSUME IInv, EndTick
  PROVE  IInv'
<1>1. /\ Scalars /\ Placed(wheel) /\ ~failed /\ Doing
  BY Parts
<1>2. /\ pc = "run" /\ wheel[Reached(1)] = <<>>
      /\ current_tick' = current_tick + 1 /\ todo' = todo - 1
      /\ pc' = IF todo' > 0 THEN RunTimer(current_tick') ELSE "clock"
      /\ UNCHANGED <<timers, wheel, level, cur, starts, crashes, failed>>
  BY DEF EndTick, Due
<1>3. current_tick \in Nat /\ current_tick' \in Nat /\ todo \in 0 .. MaxJump /\ todo > 0 /\ MaxJump \in Nat
  BY <1>1, <1>2, TimerAssumption DEF Scalars, Doing
<1>4. todo' \in 0 .. MaxJump
  BY <1>2, <1>3
<1>5. level = 2 /\ cur = Nobody
  BY <1>1, <1>2 DEF Doing, Scalars
<1>6. \/ todo' > 0 /\ pc' = "cascade" /\ TvIdx(1, current_tick') = 0
      \/ todo' > 0 /\ pc' = "run" /\ TvIdx(1, current_tick') # 0
      \/ pc' = "clock"
  BY <1>2, <1>3, RunTimerIs
<1>7. Scalars'
  BY <1>1, <1>2, <1>3, <1>4, <1>5, <1>6 DEF Scalars
<1>8. Doing'
  <2>1. pc' = "cascade" => Comes(2, current_tick')
    BY <1>3, <1>6, TickComes
  <2>2. pc' = "cascade" => Comes(level, current_tick)'
    BY <1>2, <1>5, <2>1 DEF Comes
  <2> QED  BY <1>1, <1>2, <1>5, <1>6, <2>2 DEF Doing
<1>9. ASSUME NEW r \in Slot, NEW e \in Nat, wheel[r] # <<>>, Turn(r, e, current_tick, Past(r[1]))
      PROVE  Turn(r, e, current_tick', Past(r[1])')
  <2>0. r = <<r[1], r[2]>> /\ r[1] \in Vector
    BY SlotIs
  <2>1. Turn(r, e, current_tick', FALSE)
    <3>1. Past(r[1]) = TRUE
      BY <1>2 DEF Past
    <3>2. Turn(<<r[1], r[2]>>, e, current_tick, TRUE)
      BY <1>9, <2>0, <3>1
    <3>3. r[1] = 1 => r[2] # TvIdx(1, current_tick)
      BY <1>2, <1>9, <2>0 DEF Reached
    <3>4. Turn(<<r[1], r[2]>>, e, current_tick + 1, FALSE)
      BY <1>3, <2>0, <3>2, <3>3, TurnPasses
    <3> QED  BY <1>2, <2>0, <3>4
  <2>3. CASE pc' = "cascade"
    <3>1. CASE r[1] < 2
      <4>1. Past(r[1])' = TRUE
        BY <1>2, <1>5, <2>3, <3>1 DEF Past
      <4>2. Turn(r, e, current_tick', TRUE)
        BY <1>3, <2>1, <3>1, TickBegins
      <4> QED  BY <4>1, <4>2
    <3>2. CASE ~(r[1] < 2)
      <4>1. Past(r[1])' = FALSE
        BY <1>2, <1>5, <2>3, <3>2 DEF Past
      <4> QED  BY <2>1, <4>1
    <3> QED  BY <3>1, <3>2
  <2>4. CASE pc' = "run"
    <3>1. Past(r[1])' = TRUE
      BY <2>4 DEF Past
    <3>2. Turn(r, e, current_tick', TRUE)
      BY <1>3, <1>6, <2>1, <2>4, TickBegins
    <3> QED  BY <3>1, <3>2
  <2>5. CASE pc' = "clock"
    <3>1. Past(r[1])' = FALSE
      BY <2>5 DEF Past
    <3> QED  BY <2>1, <3>1
  <2> QED  BY <1>6, <2>3, <2>4, <2>5
<1> QED  BY <1>1, <1>2, <1>7, <1>8, <1>9, ListsStay

\* A tick ends only when every timer that is left is due later.
LEMMA AllLater ==
  ASSUME IInv, EndTick, NEW t \in Timer, timers[t].live
  PROVE  timers[t].expires > current_tick
<1>1. Scalars /\ Held(timers, wheel) /\ Placed(wheel) /\ InTime(wheel, timers)
  BY Parts
<1>2. PICK r \in Slot : t \in ToSet(wheel[r])
  BY <1>1 DEF Held, Linked
<1>3. r = <<r[1], r[2]>> /\ r[1] \in Vector
  BY SlotIs
<1>4. timers[t].expires \in Nat /\ current_tick \in Nat
  BY <1>1, Expires DEF Scalars
<1>5. pc = "run" /\ wheel[Reached(1)] = <<>>
  BY DEF EndTick, Due
<1>6. Turn(<<r[1], r[2]>>, timers[t].expires, current_tick, TRUE)
  <2>1. Past(r[1]) = TRUE
    BY <1>5 DEF Past
  <2>2. Turn(r, timers[t].expires, current_tick, Past(r[1]))
    BY <1>1, <1>2, Zenon DEF InTime
  <2> QED  BY <1>3, <2>1, <2>2
<1>7. r[1] = 1 => r[2] # TvIdx(1, current_tick)
  <2>1. wheel[r] # <<>>
    BY <1>2 DEF ToSet
  <2> QED  BY <1>3, <1>5, <2>1 DEF Reached
<1> QED  BY <1>3, <1>4, <1>6, <1>7, TurnPasses

\* The first timer of the list of the current tick is due.
LEMMA DueFirst ==
  ASSUME IInv, Due # <<>>
  PROVE  Head(Due) \in Timer /\ timers[Head(Due)].live /\ timers[Head(Due)].expires = current_tick
<1>1. Scalars /\ Held(timers, wheel) /\ Placed(wheel) /\ InTime(wheel, timers)
  BY Parts
<1> DEFINE s == Reached(1)
<1>2. current_tick \in Nat /\ 1 \in Vector
  BY <1>1 DEF Scalars, Vector
<1>3. s \in Slot /\ s = <<1, TvIdx(1, current_tick)>> /\ Due = wheel[s]
  BY <1>2, ReachedIs DEF Due
<1> HIDE DEF s
<1>4. Head(Due) \in ToSet(wheel[s])
  BY <1>1, <1>3, First
<1>5. Head(Due) \in Timer /\ Linked(wheel, Head(Due))
  BY <1>1, <1>3, <1>4, Members
<1>6. Turn(s, timers[Head(Due)].expires, current_tick, Past(s[1]))
  BY <1>1, <1>3, <1>4, Zenon DEF InTime
<1>7. Past(s[1]) \in BOOLEAN /\ timers[Head(Due)].expires \in Nat
  BY <1>1, <1>5, Expires DEF Past
<1>8. timers[Head(Due)].expires = current_tick
  BY <1>2, <1>3, <1>6, <1>7, TurnDue
<1> QED  BY <1>1, <1>5, <1>8 DEF Held

LEMMA DiscardInv ==
  ASSUME IInv, Discard
  PROVE  IInv'
<1>1. Scalars /\ ~failed /\ Doing
  BY Parts
<1> DEFINE t == Head(Due)
<1>2. /\ pc = "run" /\ Due # <<>> /\ timers' = Destructed(t) /\ wheel' = Removed(wheel, t)
      /\ UNCHANGED <<current_tick, pc, level, cur, todo, starts, crashes, failed>>
  BY DEF Discard
<1>3. t \in Timer
  BY <1>2, DueFirst
<1> HIDE DEF t
<1>4. /\ Placed(wheel') /\ InTime(wheel', timers') /\ Held(timers', wheel')
      /\ timers'[t] = Free /\ \A u \in Timer : u # t => timers'[u] = timers[u]
  BY <1>2, <1>3, Gone
<1>5. Scalars' /\ ~failed' /\ \A l \in Vector : Past(l)' = Past(l)
  BY <1>1, <1>2 DEF Scalars, Past
<1>6. cur = Nobody
  BY <1>1, <1>2 DEF Scalars
<1>7. Doing'
  BY <1>1, <1>2, <1>4, <1>6 DEF Doing
<1> QED  BY <1>2, <1>4, <1>5, <1>7, StepWithin

LEMMA CallInv ==
  ASSUME IInv, Call
  PROVE  IInv'
<1>1. Scalars /\ Held(timers, wheel) /\ ~failed /\ Doing
  BY Parts
<1> DEFINE t == Head(Due)
<1>2. /\ pc = "run" /\ Due # <<>> /\ timers' = [timers EXCEPT ![t].running = TRUE] /\ cur' = t /\ pc' = "call"
      /\ UNCHANGED <<wheel, current_tick, level, todo, starts, crashes, failed>>
  BY DEF Call
<1>3. t \in Timer /\ timers[t].live /\ t # Nobody
  BY <1>2, DueFirst, TimerAssumption
<1> HIDE DEF t
<1>4. timers \in [Timer -> TimerState] /\ timers[t] \in TimerState
  BY <1>1, <1>3 DEF Held
<1>5. timers' \in [Timer -> TimerState]
  BY <1>2, <1>3, <1>4 DEF TimerState
<1>6. timers'[t] = [timers[t] EXCEPT !.running = TRUE] /\ \A u \in Timer : u # t => timers'[u] = timers[u]
  BY <1>2, <1>3, <1>4
<1>7. timers'[t].expires = timers[t].expires /\ timers'[t].live = timers[t].live /\ timers'[t].running = TRUE
  BY <1>4, <1>6 DEF TimerState
<1>8. Placed(wheel') /\ InTime(wheel', timers') /\ Held(timers', wheel')
  BY <1>2, <1>3, <1>5, <1>6, <1>7, Touched
<1>9. Scalars' /\ ~failed' /\ \A l \in Vector : Past(l)' = Past(l)
  BY <1>1, <1>2, <1>3 DEF Scalars, Past
<1>10. Doing'
  BY <1>1, <1>2, <1>3, <1>6, <1>7 DEF Doing
<1> QED  BY <1>2, <1>8, <1>9, <1>10, StepWithin

\* What refresh() makes of a timer whose callback has returned.
LEMMA Refreshed ==
  ASSUME current_tick \in Nat, NEW x \in TimerState
  PROVE  LET y == refresh([x EXCEPT !.running = FALSE])
         IN /\ y \in TimerState /\ y.live = x.live /\ y.interval = x.interval
            /\ y.repeats = Left(x.repeats)
            /\ y.repeats # 0 => y.expires = current_tick + x.interval
<1> DEFINE z == [x EXCEPT !.running = FALSE]
           n == Left(x.repeats)
           y == refresh(z)
<1>1. /\ z \in TimerState /\ z.live = x.live /\ z.interval = x.interval /\ z.repeats = x.repeats
      /\ z.expires = x.expires /\ x.interval \in Nat /\ x.expires \in Nat
      /\ x.repeats \in Nat \cup {REPEAT_FOREVER}
  BY DEF TimerState
<1>2. n \in Nat \cup {REPEAT_FOREVER}
  BY <1>1 DEF Left, REPEAT_FOREVER
<1> HIDE DEF z
<1>3. y = [z EXCEPT !.repeats = n, !.expires = IF n # 0 THEN current_tick + z.interval ELSE z.expires]
  BY <1>1 DEF refresh, TimerState
<1> HIDE DEF n, y
<1>4. (IF n # 0 THEN current_tick + z.interval ELSE z.expires) \in Nat
  BY <1>1
<1>5. /\ y \in TimerState /\ y.live = z.live /\ y.interval = z.interval /\ y.repeats = n
      /\ y.expires = IF n # 0 THEN current_tick + z.interval ELSE z.expires
  BY <1>1, <1>2, <1>3, <1>4 DEF TimerState
<1> QED  BY <1>1, <1>5 DEF y, z, n

LEMMA ReturnInv ==
  ASSUME IInv, Return
  PROVE  IInv'
<1>1. /\ Scalars /\ Held(timers, wheel) /\ Placed(wheel) /\ ~failed
      /\ InTime(wheel, timers) /\ Doing
  BY Parts
<1> DEFINE t == cur
           y == refresh([timers[t] EXCEPT !.running = FALSE])
           w == Removed(wheel, t)
<1>2. /\ pc = "call" /\ pc' = "run" /\ cur' = Nobody
      /\ IF y.repeats # 0
         THEN /\ timers' = [timers EXCEPT ![t] = y]
              /\ wheel' = Appended(w, search_list(y.expires), t)
              /\ failed' = (failed \/ ~MayAdd(w, t, y.expires))
         ELSE /\ timers' = Destructed(t)
              /\ wheel' = w
              /\ UNCHANGED failed
      /\ UNCHANGED <<current_tick, level, todo, starts, crashes>>
  BY DEF Return
<1>3. t \in Timer /\ current_tick \in Nat /\ timers[t].live
  BY <1>1, <1>2 DEF Scalars, Doing
<1>4. timers[t] \in TimerState /\ timers[t].interval \in Nat /\ timers \in [Timer -> TimerState]
  BY <1>1, <1>3, Expires DEF Held
<1>5. y \in TimerState /\ y.live = timers[t].live /\ (y.repeats # 0 => y.expires = current_tick + timers[t].interval)
  BY <1>3, <1>4, Refreshed
<1> HIDE DEF y, t
<1>6. Scalars' /\ \A l \in Vector : Past(l)' = Past(l)
  BY <1>1, <1>2 DEF Scalars, Past
<1>7. CASE y.repeats # 0
  <2> DEFINE e == y.expires
  <2>1. e \in Nat /\ current_tick <= e
    BY <1>3, <1>4, <1>5, <1>7
  <2>2. timers' \in [Timer -> TimerState] /\ timers'[t] = y /\ \A u \in Timer : u # t => timers'[u] = timers[u]
    BY <1>2, <1>3, <1>4, <1>5, <1>7
  <2>3. timers'[t].expires = e
    BY <2>2
  <2> HIDE DEF e
  <2>4. /\ Placed(w) /\ InTime(w, timers) /\ ~Linked(w, t)
        /\ \A u \in Timer : u # t => (Linked(w, u) <=> Linked(wheel, u))
    <3>1. OthersSame(t, timers, timers)
      BY DEF OthersSame
    <3> QED  BY <1>1, <1>3, <3>1, TakenOut
  <2> HIDE DEF w
  <2>5. /\ Placed(Appended(w, search_list(e), t)) /\ InTime(Appended(w, search_list(e), t), timers')
        /\ MayAdd(w, t, e)
        /\ \A u \in Timer : Linked(Appended(w, search_list(e), t), u) <=> Linked(w, u) \/ u = t
    <3>1. OthersSame(t, timers, timers')
      BY <2>2 DEF OthersSame
    <3> QED  BY <1>3, <2>1, <2>3, <2>4, <3>1, Refiled
  <2>6. wheel' = Appended(w, search_list(e), t) /\ failed' = (failed \/ ~MayAdd(w, t, e))
    BY <1>2, <1>7 DEF e
  <2>7. Placed(wheel') /\ InTime(wheel', timers')
    BY <2>5, <2>6, Zenon
  <2>8. ~failed'
    BY <1>1, <2>5, <2>6, Zenon
  <2>9. Held(timers', wheel')
    BY <1>1, <1>3, <1>5, <2>2, <2>4, <2>5, <2>6 DEF Held
  <2>10. Doing'
    BY <1>1, <1>2, <1>3, <1>5, <2>2 DEF Doing
  <2> QED  BY <1>2, <1>6, <2>7, <2>8, <2>9, <2>10, StepWithin
<1>8. CASE ~(y.repeats # 0)
  <2>1. timers' = Destructed(t) /\ wheel' = Removed(wheel, t) /\ failed' = failed
    BY <1>2, <1>8
  <2>2. /\ Placed(wheel') /\ InTime(wheel', timers') /\ Held(timers', wheel')
        /\ timers'[t] = Free /\ \A u \in Timer : u # t => timers'[u] = timers[u]
    BY <1>3, <2>1, Gone
  <2>3. Doing'
    BY <1>1, <1>2, <2>2 DEF Doing
  <2> QED  BY <1>1, <1>2, <1>6, <2>1, <2>2, <2>3, StepWithin
<1> QED  BY <1>7, <1>8

LEMMA CrashInv ==
  ASSUME IInv, Crash
  PROVE  IInv'
<1>1. Scalars /\ ~failed /\ Doing
  BY Parts
<1>2. /\ pc = "call" /\ crashes < MaxCrash /\ crashes' = crashes + 1
      /\ pc' = "down" /\ cur' = Nobody /\ todo' = 0
      /\ UNCHANGED <<timers, wheel, current_tick, level, starts, failed>>
  BY DEF Crash
<1>3. Scalars'
  BY <1>1, <1>2, TimerAssumption DEF Scalars
<1>4. Doing'
  BY <1>1, <1>2 DEF Doing
<1>5. ASSUME NEW r \in Slot, NEW e \in Nat, wheel[r] # <<>>, Turn(r, e, current_tick, Past(r[1]))
      PROVE  Turn(r, e, current_tick', Past(r[1])')
  <2>1. Past(r[1]) \in BOOLEAN /\ Past(r[1])' = FALSE
    BY <1>2 DEF Past
  <2>2. current_tick \in Nat /\ current_tick' = current_tick
    BY <1>1, <1>2 DEF Scalars
  <2>3. Turn(r, e, current_tick, FALSE)
    BY <1>5, <2>1, <2>2, TurnWeaker
  <2> QED  BY <2>1, <2>2, <2>3
<1> QED  BY <1>1, <1>2, <1>3, <1>4, <1>5, ListsStay

LEMMA RestartInv ==
  ASSUME IInv, Restart
  PROVE  IInv'
<1>1. Scalars /\ ~failed /\ Doing
  BY Parts
<1>2. /\ pc = "down" /\ pc' = "idle"
      /\ UNCHANGED <<timers, wheel, current_tick, level, cur, todo, starts, crashes, failed>>
  BY DEF Restart
<1>3. Scalars' /\ Doing'
  BY <1>1, <1>2 DEF Scalars, Doing
<1>4. ASSUME NEW r \in Slot, NEW e \in Nat, wheel[r] # <<>>, Turn(r, e, current_tick, Past(r[1]))
      PROVE  Turn(r, e, current_tick', Past(r[1])')
  <2>1. Past(r[1]) = FALSE /\ Past(r[1])' = FALSE /\ current_tick' = current_tick
    BY <1>2 DEF Past
  <2> QED  BY <1>4, <2>1
<1> QED  BY <1>1, <1>2, <1>3, <1>4, ListsStay

LEMMA InitInv == Init => IInv
<1> SUFFICES ASSUME Init PROVE IInv
  OBVIOUS
<1>1. wheel = [s \in Slot |-> <<>>] /\ timers = [t \in Timer |-> Free]
  BY DEF Init
<1>2. \A s \in Slot : wheel[s] = <<>> /\ ToSet(wheel[s]) = {} /\ IsInjective(wheel[s])
  BY <1>1 DEF ToSet, IsInjective
<1>3. wheel \in [Slot -> Seq(Timer)]
  BY <1>1
<1>4. Placed(wheel) /\ InTime(wheel, timers)
  BY <1>2, <1>3 DEF Placed, InTime
<1>5. Held(timers, wheel)
  BY <1>1, <1>2, FreeIs DEF Held, Linked
<1>6. Scalars /\ ~failed
  BY TimerAssumption DEF Init, Scalars
<1>7. Doing
  BY <1>1 DEF Init, Doing
<1> QED  BY <1>4, <1>5, <1>6, <1>7, Parts

LEMMA NextInv == IInv /\ [Next]_vars => IInv'
<1> SUFFICES ASSUME IInv, [Next]_vars PROVE IInv'
  OBVIOUS
<1>1. ASSUME NEW t \in Timer, NEW k \in Kinds, Start(t, k) PROVE IInv'
  BY <1>1, StartInv
<1>2. ASSUME NEW t \in Timer, Stop(t) PROVE IInv'
  BY <1>2, StopInv
<1>3. ASSUME NEW real \in current_tick - 1 .. current_tick + MaxJump, ReadClock(real) PROVE IInv'
  BY <1>3, ReadClockInv
<1>4. CASE InTick
  BY <1>4, MoveDownInv, NextVectorInv, DiscardInv, CallInv, ReturnInv, EndTickInv DEF InTick
<1>5. CASE Crash \/ Restart
  BY <1>5, CrashInv, RestartInv
<1>6. CASE UNCHANGED vars
  <2>1. UNCHANGED <<timers, wheel, current_tick, pc, level, cur, todo, starts, crashes, failed>>
    BY <1>6 DEF vars
  <2> QED  BY <2>1 DEF IInv, NoAssertionFails, TypeOK, OnTime, Doing, Past, Comes, Linked
<1> QED  BY <1>1, <1>2, <1>3, <1>4, <1>5, <1>6 DEF Next

\* The invariant holds in every state.
THEOREM Invariance == Spec => []IInv
BY InitInv, NextInv, PTL DEF Spec

\* No assertion of shm_timer.cpp fails, whatever timers users and callbacks
\* start and stop and whichever callbacks the process dies in: no timer is filed
\* in the past or into two lists, a cascade never puts a timer back where it
\* takes it from, and a timer is in a list exactly while its memory is in use.
THEOREM NoFailure == Spec => []NoAssertionFails
<1>1. IInv => NoAssertionFails
  BY DEF IInv
<1> QED  BY <1>1, Invariance, PTL
-----------------------------------------------------------------------------
(* What the users see: every step of the wheel is a step of TimerDue, or    *)
(* changes nothing there                                                    *)

LEMMA PlanIs ==
  /\ \A t \in Timer : Plan[t] = PlanOf(timers[t])
  /\ \A t \in Timer : Plan'[t] = PlanOf(timers'[t])
  BY DEF Plan

LEMMA PlanStep ==
  ASSUME NEW t \in Timer, \A u \in Timer : u # t => timers'[u] = timers[u]
  PROVE  Plan' = [Plan EXCEPT ![t] = PlanOf(timers'[t])]
  BY DEF Plan

LEMMA PlanSame ==
  ASSUME timers' = timers
  PROVE  Plan' = Plan
  BY DEF Plan

LEMMA NoPlanIs ==
  ASSUME NEW x, x.repeats = 0
  PROVE  PlanOf(x) = Service!NoPlan
  BY DEF PlanOf, Service!NoPlan

LEMMA PlanFields ==
  ASSUME NEW t \in Timer
  PROVE  /\ Plan[t].left = timers[t].repeats
         /\ timers[t].repeats # 0 => Plan[t].due = timers[t].expires
<1>1. Plan[t] = PlanOf(timers[t])
  BY PlanIs
<1>2. CASE timers[t].repeats # 0
  <2>1. Plan[t] = [due |-> timers[t].expires, period |-> timers[t].interval, left |-> timers[t].repeats]
    BY <1>1, <1>2 DEF PlanOf
  <2> QED  BY <2>1
<1>3. CASE timers[t].repeats = 0
  <2>1. Plan[t] = [due |-> 0, period |-> 0, left |-> 0]
    BY <1>1, <1>3 DEF PlanOf
  <2> QED  BY <1>3, <2>1
<1> QED  BY <1>2, <1>3

LEMMA StartAsks ==
  ASSUME IInv, NEW t \in Timer, NEW k \in Kinds, Start(t, k)
  PROVE  Service!Next
<1>1. Scalars /\ Held(timers, wheel) /\ Doing
  BY Parts
<1> DEFINE e == current_tick + ms2tick(k.timeout)
           new == [expires |-> e, interval |-> ms2tick(k.repeat), repeats |-> k.count,
                   running |-> FALSE, live |-> TRUE]
<1>2. e \in Nat /\ e >= current_tick /\ k.count # 0
  BY <1>1, TickTypes DEF Scalars
<1>3. /\ timers' = [timers EXCEPT ![t] = new] /\ ~timers[t].live
      /\ UNCHANGED <<current_tick, cur>>
  BY DEF Start
<1>4. timers'[t] = new /\ \A u \in Timer : u # t => timers'[u] = timers[u]
  BY <1>1, <1>3 DEF Held
<1>5. PlanOf(new).due = e /\ PlanOf(new).left = k.count
  BY <1>2 DEF PlanOf
<1> HIDE DEF e, new
<1>6. Plan' = [Plan EXCEPT ![t] = PlanOf(new)] /\ Plan'[t] = PlanOf(new)
  BY <1>4, PlanIs, PlanStep
<1>7. timers[t] = Free /\ t # cur
  <2>1. timers[t] = Free
    BY <1>1, <1>3 DEF Doing
  <2>2. t # Nobody
    BY TimerAssumption
  <2> QED  BY <1>1, <1>3, <2>1, <2>2 DEF Doing
<1>8. Plan[t].left = 0
  BY <1>7, FreeIs, PlanFields
<1>9. Service!Ask(t)
  BY <1>2, <1>3, <1>5, <1>6, <1>7, <1>8 DEF Service!Ask, Service!Planned
<1> QED  BY <1>9 DEF Service!Next

LEMMA StopCancels ==
  ASSUME IInv, NEW t \in Timer, Stop(t)
  PROVE  Service!Next
<1>1. Scalars /\ Held(timers, wheel) /\ Doing
  BY Parts
<1>2. /\ timers[t].live /\ Repeats(t)
      /\ IF timers[t].running THEN StopRunning(t) ELSE StopAtOnce(t)
      /\ UNCHANGED <<current_tick, cur>>
  BY DEF Stop
<1>3. timers \in [Timer -> TimerState] /\ timers[t] \in TimerState /\ timers[t].repeats # 0
  BY <1>1, <1>2 DEF Held, Repeats, REPEAT_FOREVER
<1>4. timers'[t].repeats = 0 /\ \A u \in Timer : u # t => timers'[u] = timers[u]
  <2>1. CASE timers[t].running
    <3>1. timers' = [timers EXCEPT ![t].repeats = 0]
      BY <1>2, <2>1 DEF StopRunning
    <3>2. timers'[t] = [timers[t] EXCEPT !.repeats = 0] /\ \A u \in Timer : u # t => timers'[u] = timers[u]
      BY <1>3, <3>1
    <3> QED  BY <1>3, <3>2 DEF TimerState
  <2>2. CASE ~timers[t].running
    <3>1. timers' = [timers EXCEPT ![t] = Free]
      BY <1>2, <2>2 DEF StopAtOnce, Destructed
    <3> QED  BY <1>3, <3>1, FreeIs
  <2> QED  BY <2>1, <2>2
<1>5. PlanOf(timers'[t]) = Service!NoPlan
  BY <1>4, NoPlanIs
<1>6. Plan' = [Plan EXCEPT ![t] = Service!NoPlan]
  BY <1>4, <1>5, PlanStep
<1>7. Plan[t].left # 0
  BY <1>3, PlanFields
<1>8. Service!Cancel(t)
  BY <1>2, <1>6, <1>7 DEF Service!Cancel, Service!Planned
<1> QED  BY <1>8 DEF Service!Next

LEMMA CallCalls ==
  ASSUME IInv, Call
  PROVE  Service!Next
<1>1. Scalars /\ Held(timers, wheel)
  BY Parts
<1> DEFINE t == Head(Due)
<1>2. /\ pc = "run" /\ Due # <<>> /\ Repeats(t) /\ timers' = [timers EXCEPT ![t].running = TRUE] /\ cur' = t
      /\ UNCHANGED current_tick
  BY DEF Call
<1>3. t \in Timer /\ timers[t].expires = current_tick
  BY <1>2, DueFirst
<1> HIDE DEF t
<1>4. timers \in [Timer -> TimerState] /\ timers[t] \in TimerState /\ timers[t].repeats # 0
  BY <1>1, <1>2, <1>3 DEF Held, Repeats, REPEAT_FOREVER
<1>5. timers'[t] = [timers[t] EXCEPT !.running = TRUE] /\ \A u \in Timer : u # t => timers'[u] = timers[u]
  BY <1>2, <1>3, <1>4
<1>6. PlanOf(timers'[t]) = PlanOf(timers[t])
  BY <1>4, <1>5 DEF PlanOf, TimerState
<1>7. Plan' = Plan
  <2>1. \A u \in Timer : PlanOf(timers'[u]) = PlanOf(timers[u])
    BY <1>5, <1>6
  <2> QED  BY <2>1 DEF Plan
<1>8. Plan[t].left # 0 /\ Plan[t].due = current_tick
  BY <1>3, <1>4, PlanFields
<1>9. cur = Nobody
  BY <1>1, <1>2 DEF Scalars
<1>10. Service!Call(t)
  BY <1>2, <1>7, <1>8, <1>9 DEF Service!Call, Service!Planned
<1> QED  BY <1>3, <1>10 DEF Service!Next

LEMMA ReturnEnds ==
  ASSUME IInv, Return
  PROVE  Service!Next
<1>1. Scalars /\ Held(timers, wheel) /\ Doing
  BY Parts
<1> DEFINE t == cur
           x == timers[t]
           y == refresh([x EXCEPT !.running = FALSE])
<1>2. /\ pc = "call" /\ cur' = Nobody /\ UNCHANGED current_tick
      /\ IF y.repeats # 0 THEN timers' = [timers EXCEPT ![t] = y] ELSE timers' = Destructed(t)
  BY DEF Return
<1>3. t \in Timer /\ current_tick \in Nat
  BY <1>1, <1>2 DEF Scalars
<1>4. timers \in [Timer -> TimerState] /\ x \in TimerState
  BY <1>1, <1>3 DEF Held
<1>5. /\ y.interval = x.interval /\ y.repeats = Left(x.repeats)
      /\ y.repeats # 0 => y.expires = current_tick + x.interval
  BY <1>3, <1>4, Refreshed
<1>6. Plan[t] = PlanOf(x)
  BY <1>3, PlanIs
<1>7. x.repeats \in Nat \cup {-1}
  BY <1>4 DEF TimerState, REPEAT_FOREVER
<1> HIDE DEF t, x, y
<1>8. PlanOf(timers'[t]) = Service!After(Plan[t]) /\ \A u \in Timer : u # t => timers'[u] = timers[u]
  <2>1. CASE y.repeats # 0
    <3>1. timers' = [timers EXCEPT ![t] = y]
      BY <1>2, <2>1
    <3>2. timers'[t] = y /\ \A u \in Timer : u # t => timers'[u] = timers[u]
      BY <1>3, <1>4, <3>1
    <3>3. x.repeats # 0 /\ x.repeats # 1 /\ Left(x.repeats) = IF x.repeats < 0 THEN x.repeats ELSE x.repeats - 1
      BY <1>5, <1>7, <2>1 DEF Left
    <3>4. Plan[t] = [due |-> x.expires, period |-> x.interval, left |-> x.repeats]
      BY <1>6, <3>3 DEF PlanOf
    <3>5. Service!After(Plan[t]) = [due |-> current_tick + x.interval, period |-> x.interval, left |-> Left(x.repeats)]
      <4>1. Plan[t].period = x.interval /\ Plan[t].left = x.repeats
        BY <3>4
      <4> QED  BY <3>3, <4>1 DEF Service!After
    <3>6. PlanOf(y) = [due |-> current_tick + x.interval, period |-> x.interval, left |-> Left(x.repeats)]
      BY <1>5, <2>1 DEF PlanOf
    <3> QED  BY <3>2, <3>5, <3>6
  <2>2. CASE ~(y.repeats # 0)
    <3>1. timers' = [timers EXCEPT ![t] = Free]
      BY <1>2, <2>2 DEF Destructed
    <3>2. timers'[t] = Free /\ \A u \in Timer : u # t => timers'[u] = timers[u]
      BY <1>3, <1>4, <3>1
    <3>3. x.repeats = 0 \/ x.repeats = 1
      BY <1>5, <1>7, <2>2 DEF Left
    <3>4. Plan[t].left = x.repeats
      BY <1>6 DEF PlanOf
    <3>5. Service!After(Plan[t]) = Service!NoPlan
      BY <3>3, <3>4 DEF Service!After
    <3>6. PlanOf(Free) = Service!NoPlan
      BY FreeIs, NoPlanIs
    <3> QED  BY <3>2, <3>5, <3>6
  <2> QED  BY <2>1, <2>2
<1>9. Plan' = [Plan EXCEPT ![t] = Service!After(Plan[t])]
  BY <1>3, <1>8, PlanStep
<1>10. Service!Done(t)
  BY <1>2, <1>9 DEF Service!Done, t
<1> QED  BY <1>3, <1>10 DEF Service!Next

LEMMA EndTickPasses ==
  ASSUME IInv, EndTick
  PROVE  Service!Next
<1>1. Scalars /\ Held(timers, wheel) /\ Doing
  BY Parts
<1>2. pc = "run" /\ current_tick' = current_tick + 1 /\ UNCHANGED <<timers, cur>>
  BY DEF EndTick
<1>3. cur = Nobody /\ Plan' = Plan
  BY <1>1, <1>2, PlanSame DEF Scalars
<1>4. ASSUME NEW t \in Timer, Plan[t].left # 0 PROVE Plan[t].due > current_tick
  <2>1. timers[t].repeats # 0
    BY <1>4, PlanFields
  <2>2. timers[t].live
    BY <1>1, <2>1, FreeIs DEF Doing
  <2>3. timers[t].expires > current_tick
    BY <2>2, AllLater
  <2>4. Plan[t].due = timers[t].expires
    BY <2>1, PlanFields
  <2> QED  BY <2>3, <2>4
<1>5. Service!Pass
  BY <1>2, <1>3, <1>4 DEF Service!Pass, Service!Planned
<1> QED  BY <1>5 DEF Service!Next

LEMMA OthersUnseen ==
  ASSUME IInv, MoveDown \/ NextVector \/ Discard \/ Restart \/ (\E real \in Int : ReadClock(real)) \/ UNCHANGED vars
  PROVE  UNCHANGED Service!vars
<1>1. CASE Discard
  <2>1. Scalars /\ Held(timers, wheel)
    BY Parts
  <2> DEFINE t == Head(Due)
  <2>2. t \in Timer
    BY <1>1, DueFirst DEF Discard
  <2>3. ~Repeats(t) /\ timers' = Destructed(t) /\ UNCHANGED <<current_tick, cur>>
    BY <1>1 DEF Discard
  <2> HIDE DEF t
  <2>4. timers \in [Timer -> TimerState] /\ timers[t].repeats = 0
    <3>1. timers[t].repeats \in Nat \cup {REPEAT_FOREVER}
      BY <2>1, <2>2, Expires
    <3> QED  BY <2>1, <2>3, <3>1 DEF Held, Repeats
  <2>5. timers'[t] = Free /\ \A u \in Timer : u # t => timers'[u] = timers[u]
    BY <2>2, <2>3, <2>4 DEF Destructed
  <2>6. PlanOf(timers'[t]) = PlanOf(timers[t])
    BY <2>4, <2>5, FreeIs, NoPlanIs
  <2>7. Plan' = Plan
    <3>1. \A u \in Timer : PlanOf(timers'[u]) = PlanOf(timers[u])
      BY <2>5, <2>6
    <3> QED  BY <3>1 DEF Plan
  <2> QED  BY <2>3, <2>7 DEF Service!vars
<1>2. CASE ~Discard
  <2>1. UNCHANGED <<timers, current_tick, cur>>
    BY <1>2 DEF MoveDown, NextVector, Restart, ReadClock, vars
  <2> QED  BY <2>1, PlanSame DEF Service!vars
<1> QED  BY <1>1, <1>2

LEMMA CrashCrashes ==
  ASSUME IInv, Crash
  PROVE  Service!Next
<1>1. Scalars
  BY Parts
<1>2. pc = "call" /\ cur' = Nobody /\ UNCHANGED <<timers, current_tick>>
  BY DEF Crash
<1>3. cur # Nobody /\ Plan' = Plan
  BY <1>1, <1>2, PlanSame DEF Scalars
<1> QED  BY <1>2, <1>3 DEF Service!Next, Service!Crash

LEMMA StepRefines == IInv /\ [Next]_vars => [Service!Next]_(Service!vars)
<1> SUFFICES ASSUME IInv, [Next]_vars PROVE Service!Next \/ UNCHANGED Service!vars
  OBVIOUS
<1>1. ASSUME NEW t \in Timer, NEW k \in Kinds, Start(t, k) PROVE Service!Next
  BY <1>1, StartAsks
<1>2. ASSUME NEW t \in Timer, Stop(t) PROVE Service!Next
  BY <1>2, StopCancels
<1>3. ASSUME NEW real \in current_tick - 1 .. current_tick + MaxJump, ReadClock(real) PROVE UNCHANGED Service!vars
  <2>1. real \in Int
    OBVIOUS
  <2> QED  BY <1>3, <2>1, OthersUnseen
<1>4. CASE InTick
  BY <1>4, OthersUnseen, CallCalls, ReturnEnds, EndTickPasses DEF InTick
<1>5. CASE Crash \/ Restart
  BY <1>5, CrashCrashes, OthersUnseen
<1>6. CASE UNCHANGED vars
  BY <1>6, OthersUnseen
<1> QED  BY <1>1, <1>2, <1>3, <1>4, <1>5, <1>6 DEF Next

LEMMA InitRefines == Init => Service!Init
<1> SUFFICES ASSUME Init PROVE Service!Init
  OBVIOUS
<1>1. timers = [t \in Timer |-> Free] /\ current_tick = 0 /\ cur = Nobody
  BY DEF Init
<1>2. PlanOf(Free) = Service!NoPlan
  BY FreeIs, NoPlanIs
<1>3. Plan = [t \in Timer |-> Service!NoPlan]
  BY <1>1, <1>2 DEF Plan
<1> QED  BY <1>1, <1>3 DEF Service!Init

\* The wheel implements TimerDue: a timer is called at the very tick it is due,
\* period after period, no tick passes while somebody is due in it, and
\* nobody is called after stop(), for vectors of any size and timers as far
\* ahead as one likes, through any cascades, callbacks and crashes.
THEOREM RefinesTimers == Spec => ImplementsTimers
BY InitRefines, StepRefines, Invariance, PTL DEF Spec, ImplementsTimers, Service!Spec
=============================================================================
