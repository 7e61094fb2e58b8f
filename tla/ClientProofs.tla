----------------------------- MODULE ClientProofs -----------------------------
(***************************************************************************)
(* Proofs about the clients a process has.  For the redis client, HeldOnce *)
(* and OneSlotsRequest of RedisCluster, for every set of nodes and         *)
(* commands, every layout of the slots and every time to live: what is     *)
(* pending and what is sent are lanes, that of NoNode pending_commands_,   *)
(* that of a node the queue of its connection; a command is known in a     *)
(* lane by its key, CLUSTER SLOTS by NoNode.  First lanes, then what the   *)
(* handlers do to them, then the two loops, then the steps.                *)
(*                                                                         *)
(* Then the HTTP client, TCP connections and the file watcher, each with   *)
(* the invariant IInv of its module, and what they give together:          *)
(* ClientsAreSound of MCClients.                                           *)
(***************************************************************************)
EXTENDS MCClients, TLAPS, WellFoundedInduction, NaturalsInduction, FiniteSetTheorems

Cmd == [type : {"user", "ask"}, of : Commands] \cup {SlotsCmd}
Conn == [state : {"none", "connecting", "connected", "disconnecting"}, queue : Seq(Cmd),
         ctx : {"opening", "open", "freed"}, closing : BOOLEAN]
Client == [state : {"invalid", "updating", "updated"}, nodes : SUBSET Nodes,
           slots : [Slots -> Nodes \cup {NoNode}], conns : [Nodes -> Conn],
           pending : Seq(Commands), ttl : [Commands -> Int]]

Lane == Nodes \cup {NoNode}
Key == Commands \cup {NoNode}
Keyed == [Lane -> Seq(Key)]
KeysOf(q) == [k \in 1 .. Len(q) |-> q[k].of]
Lanes(r) == [l \in Lane |-> IF l = NoNode THEN r.pending ELSE KeysOf(r.conns[l].queue)]

At(L, l, x) == \E k \in 1 .. Len(L[l]) : L[l][k] = x

\* Each key is in one place at most.
Apart(L) ==
  \A l, m \in Lane : \A j \in 1 .. Len(L[l]), k \in 1 .. Len(L[m]) :
    L[l][j] = L[m][k] => l = m /\ j = k

Good(r) == r \in Client /\ Apart(Lanes(r))
AskedAt(r, n) == At(Lanes(r), n, NoNode)
Holds(r, u) == \E l \in Lane : At(Lanes(r), l, u)

\* CLUSTER SLOTS is under way where OneSlotsRequest says.
SlotsAt(r) ==
  /\ r.state = "updating" => r.nodes # {}
  /\ \A n \in Nodes : AskedAt(r, n) <=> r.state = "updating" /\ n = Min(r.nodes)

\* The inductive invariant.
Fates == {"new", "accepted", "answered", "lost"}
Agrees(r, f) == \A u \in Commands : Holds(r, u) <=> f[u] = "accepted"
IInv ==
  /\ fate \in [Commands -> Fates] /\ phase \in {"running", "stopped", "ended"}
  /\ phase # "ended" => Good(cluster) /\ SlotsAt(cluster) /\ Agrees(cluster, fate)
------------------------------------------------------------------------------
(* Lanes *)

Rest(L, L2, l) == L \in Keyed /\ L2 \in Keyed /\ \A m \in Lane \ {l} : L2[m] = L[m]
IsPut(L, L2, l, x) == Rest(L, L2, l) /\ L2[l] = Append(L[l], x)
IsPop(L, L2, l) == Rest(L, L2, l) /\ L[l] # <<>> /\ L2[l] = Tail(L[l])
IsClear(L, L2, l) == Rest(L, L2, l) /\ L2[l] = <<>>

\* A key is found in one place only.
LEMMA OnePlace ==
  ASSUME NEW L, Apart(L), NEW a \in Lane, NEW b \in Lane, NEW j \in 1 .. Len(L[a]), NEW k \in 1 .. Len(L[b]),
         L[a][j] = L[b][k]
  PROVE  a = b /\ j = k
BY Zenon DEF Apart

\* What a lane holds after something that was nowhere is put at its end,
LEMMA PutAt ==
  ASSUME NEW L, NEW L2, NEW l \in Lane, NEW x \in Key, IsPut(L, L2, l, x)
  PROVE  /\ \A m \in Lane : \A y : At(L2, m, y) <=> At(L, m, y) \/ (m = l /\ y = x)
         /\ Apart(L) /\ (\A m \in Lane : ~At(L, m, x)) => Apart(L2)
<1>1. /\ L[l] \in Seq(Key) /\ L2[l] = Append(L[l], x) /\ \A m \in Lane : m # l => L2[m] = L[m]
  BY DEF IsPut, Rest, Keyed
<1>2. /\ Len(L2[l]) = Len(L[l]) + 1 /\ Len(L[l]) \in Nat
      /\ L2[l][Len(L[l]) + 1] = x /\ \A k \in 1 .. Len(L[l]) : L2[l][k] = L[l][k]
  BY <1>1
<1>3. ASSUME NEW y PROVE At(L2, l, y) <=> At(L, l, y) \/ y = x
  BY <1>2 DEF At
<1>4. ASSUME NEW m \in Lane, m # l, NEW y PROVE At(L2, m, y) <=> At(L, m, y)
  BY <1>1, <1>4 DEF At
<1>5. ASSUME Apart(L), \A m \in Lane : ~At(L, m, x) PROVE Apart(L2)
  <2> SUFFICES ASSUME NEW a \in Lane, NEW b \in Lane, NEW j \in 1 .. Len(L2[a]), NEW k \in 1 .. Len(L2[b]),
                      L2[a][j] = L2[b][k]
               PROVE  a = b /\ j = k
    BY DEF Apart
  <2>1. \A m \in Lane : \A i \in 1 .. Len(L[m]) : L[m][i] # x
    BY <1>5 DEF At
  <2>2. \A m \in Lane : \A i \in 1 .. Len(L2[m]) :
          \/ i \in 1 .. Len(L[m]) /\ L2[m][i] = L[m][i]
          \/ m = l /\ i = Len(L[l]) + 1 /\ L2[m][i] = x
    <3> SUFFICES ASSUME NEW m \in Lane, NEW i \in 1 .. Len(L2[m])
                 PROVE  \/ i \in 1 .. Len(L[m]) /\ L2[m][i] = L[m][i]
                        \/ m = l /\ i = Len(L[l]) + 1 /\ L2[m][i] = x
      OBVIOUS
    <3>1. CASE m = l  BY <1>2, <3>1
    <3>2. CASE m # l  BY <1>1, <3>2
    <3> QED  BY <3>1, <3>2
  <2>3. \/ j \in 1 .. Len(L[a]) /\ L2[a][j] = L[a][j]
        \/ a = l /\ j = Len(L[l]) + 1 /\ L2[a][j] = x
    BY <2>2
  <2>4. \/ k \in 1 .. Len(L[b]) /\ L2[b][k] = L[b][k]
        \/ b = l /\ k = Len(L[l]) + 1 /\ L2[b][k] = x
    BY <2>2
  <2>5. CASE j \in 1 .. Len(L[a]) /\ L2[a][j] = L[a][j] /\ k \in 1 .. Len(L[b]) /\ L2[b][k] = L[b][k]
    <3>1. L[a][j] = L[b][k]
      BY <2>5
    <3>2. Apart(L) /\ j \in 1 .. Len(L[a]) /\ k \in 1 .. Len(L[b])
      BY <1>5, <2>5
    <3> QED  BY <3>1, <3>2, OnePlace
  <2> QED  BY <2>1, <2>3, <2>4, <2>5
<1> QED  BY <1>3, <1>4, <1>5

\* after its head is taken,
LEMMA PopAt ==
  ASSUME NEW L, NEW L2, NEW l \in Lane, IsPop(L, L2, l), Apart(L)
  PROVE  /\ \A m \in Lane : \A y : At(L2, m, y) <=> At(L, m, y) /\ y # Head(L[l])
         /\ Apart(L2) /\ At(L, l, Head(L[l])) /\ Head(L[l]) \in Key
<1>1. /\ L[l] \in Seq(Key) /\ L[l] # <<>> /\ L2[l] = Tail(L[l]) /\ \A m \in Lane : m # l => L2[m] = L[m]
  BY DEF IsPop, Rest, Keyed
<1> DEFINE x == Head(L[l])
<1>2. /\ Len(L2[l]) = Len(L[l]) - 1 /\ Len(L[l]) \in Nat /\ Len(L[l]) >= 1
      /\ L[l][1] = x /\ \A k \in 1 .. Len(L[l]) - 1 : L2[l][k] = L[l][k + 1]
  BY <1>1
<1>3. x \in Key
  BY <1>1
<1> HIDE DEF x
<1>4. \A m \in Lane : \A k \in 1 .. Len(L[m]) : L[m][k] = x => m = l /\ k = 1
  BY <1>2 DEF Apart
<1>5. ASSUME NEW y PROVE At(L2, l, y) <=> At(L, l, y) /\ y # x
  <2>1. ASSUME NEW k \in 1 .. Len(L2[l]) PROVE k + 1 \in 1 .. Len(L[l]) /\ L2[l][k] = L[l][k + 1] /\ L2[l][k] # x
    BY <1>2, <1>4
  <2>2. ASSUME NEW k \in 1 .. Len(L[l]), L[l][k] # x PROVE k - 1 \in 1 .. Len(L2[l]) /\ L2[l][k - 1] = L[l][k]
    BY <1>2, <2>2
  <2> QED  BY <2>1, <2>2 DEF At
<1>6. ASSUME NEW m \in Lane, m # l, NEW y PROVE At(L2, m, y) <=> At(L, m, y) /\ y # x
  BY <1>1, <1>4, <1>6 DEF At
<1>7. Apart(L2)
  <2> SUFFICES ASSUME NEW a \in Lane, NEW b \in Lane, NEW j \in 1 .. Len(L2[a]), NEW k \in 1 .. Len(L2[b]),
                      L2[a][j] = L2[b][k]
               PROVE  a = b /\ j = k
    BY DEF Apart
  <2> DEFINE up(m) == IF m = l THEN 1 ELSE 0
  <2>1. \A m \in Lane : \A i \in 1 .. Len(L2[m]) : i + up(m) \in 1 .. Len(L[m]) /\ L2[m][i] = L[m][i + up(m)]
    <3> SUFFICES ASSUME NEW m \in Lane, NEW i \in 1 .. Len(L2[m])
                 PROVE  i + up(m) \in 1 .. Len(L[m]) /\ L2[m][i] = L[m][i + up(m)]
      OBVIOUS
    <3>1. CASE m = l  BY <1>2, <3>1
    <3>2. CASE m # l  BY <1>1, <3>2
    <3> QED  BY <3>1, <3>2
  <2>2. a = b /\ j + up(a) = k + up(b)
    <3> DEFINE p == j + up(a)
               q == k + up(b)
    <3>1. p \in 1 .. Len(L[a]) /\ q \in 1 .. Len(L[b]) /\ L[a][p] = L2[a][j] /\ L[b][q] = L2[b][k]
      BY <2>1
    <3> HIDE DEF p, q
    <3>2. L[a][p] = L[b][q]
      BY <3>1
    <3>3. a = b /\ p = q
      BY <3>1, <3>2, OnePlace
    <3> QED  BY <3>3 DEF p, q
  <2> QED  BY <2>2
<1>8. At(L, l, x)
  BY <1>2 DEF At
<1> QED  BY <1>3, <1>5, <1>6, <1>7, <1>8 DEF x

\* and after all of it is gone.
LEMMA ClearAt ==
  ASSUME NEW L, NEW L2, NEW l \in Lane, IsClear(L, L2, l), Apart(L)
  PROVE  /\ \A m \in Lane : \A y : At(L2, m, y) <=> At(L, m, y) /\ m # l
         /\ Apart(L2)
<1>1. L2[l] = <<>> /\ \A m \in Lane : m # l => L2[m] = L[m]
  BY DEF IsClear, Rest
<1>2. ASSUME NEW y PROVE ~At(L2, l, y)
  BY <1>1 DEF At
<1>3. ASSUME NEW m \in Lane, m # l, NEW y PROVE At(L2, m, y) <=> At(L, m, y)
  BY <1>1, <1>3 DEF At
<1>4. Apart(L2)
  <2>1. \A m \in Lane : \A i \in 1 .. Len(L2[m]) : i \in 1 .. Len(L[m]) /\ L2[m][i] = L[m][i]
    <3> SUFFICES ASSUME NEW m \in Lane, NEW i \in 1 .. Len(L2[m])
                 PROVE  i \in 1 .. Len(L[m]) /\ L2[m][i] = L[m][i]
      OBVIOUS
    <3>1. CASE m = l  BY <1>1, <3>1
    <3>2. CASE m # l  BY <1>1, <3>2
    <3> QED  BY <3>1, <3>2
  <2> QED  BY <2>1 DEF Apart
<1> QED  BY <1>2, <1>3, <1>4
------------------------------------------------------------------------------
(* Clients and their lanes *)

\* What the assumption on the constants says of the names.
LEMMA NodeNames == NoNode \notin Nodes /\ NoNode \notin Commands /\ Nodes \subseteq Nat /\ NoNode = 0
BY RedisAssumption DEF NoNode

\* The keys of a queue, after a command is appended, and after one is taken.
LEMMA KeysAre ==
  ASSUME NEW q \in Seq(Cmd)
  PROVE  /\ KeysOf(q) \in Seq(Key) /\ Len(KeysOf(q)) = Len(q) /\ Len(q) \in Nat
         /\ \A k \in 1 .. Len(q) : KeysOf(q)[k] = q[k].of /\ q[k] \in Cmd
         /\ q = <<>> <=> KeysOf(q) = <<>>
<1>1. \A c \in Cmd : c.of \in Key
  BY DEF Cmd, SlotsCmd, Key
<1>2. Len(q) \in Nat /\ \A k \in 1 .. Len(q) : q[k] \in Cmd
  OBVIOUS
<1>3. KeysOf(q) \in [1 .. Len(q) -> Key]
  BY <1>1, <1>2 DEF KeysOf
<1>4. KeysOf(q) \in Seq(Key) /\ Len(KeysOf(q)) = Len(q)
  BY <1>2, <1>3
<1>5. \A k \in 1 .. Len(q) : KeysOf(q)[k] = q[k].of
  BY DEF KeysOf
<1> QED  BY <1>2, <1>4, <1>5

LEMMA KeysAppend ==
  ASSUME NEW q \in Seq(Cmd), NEW c \in Cmd
  PROVE  KeysOf(Append(q, c)) = Append(KeysOf(q), c.of)
<1> DEFINE p == Append(q, c)
           s == Append(KeysOf(q), c.of)
<1>1. c.of \in Key
  BY DEF Cmd, SlotsCmd, Key
<1>2. p \in Seq(Cmd) /\ Len(p) = Len(q) + 1 /\ p[Len(q) + 1] = c /\ \A k \in 1 .. Len(q) : p[k] = q[k]
  OBVIOUS
<1>3. /\ s \in Seq(Key) /\ Len(s) = Len(q) + 1 /\ s[Len(q) + 1] = c.of
      /\ \A k \in 1 .. Len(q) : s[k] = KeysOf(q)[k] /\ Len(q) \in Nat
  BY <1>1, KeysAre
<1>4. KeysOf(p) \in Seq(Key) /\ Len(KeysOf(p)) = Len(p) /\ \A k \in 1 .. Len(p) : KeysOf(p)[k] = p[k].of
  BY <1>2, KeysAre
<1> HIDE DEF p, s
<1>5. \A k \in 1 .. Len(q) : KeysOf(q)[k] = q[k].of
  BY KeysAre
<1>6. ASSUME NEW k \in 1 .. Len(q) + 1 PROVE KeysOf(p)[k] = s[k]
  BY <1>2, <1>3, <1>4, <1>5
<1>7. KeysOf(p) = s
  BY <1>2, <1>3, <1>4, <1>6
<1> QED  BY <1>7 DEF p, s

LEMMA KeysTail ==
  ASSUME NEW q \in Seq(Cmd), q # <<>>
  PROVE  KeysOf(Tail(q)) = Tail(KeysOf(q)) /\ Head(KeysOf(q)) = Head(q).of /\ Head(q) \in Cmd /\ Tail(q) \in Seq(Cmd)
<1> DEFINE p == Tail(q)
           s == Tail(KeysOf(q))
<1>1. /\ p \in Seq(Cmd) /\ Len(p) = Len(q) - 1 /\ Len(q) >= 1 /\ Head(q) = q[1] /\ Head(q) \in Cmd
      /\ \A k \in 1 .. Len(q) - 1 : p[k] = q[k + 1]
  OBVIOUS
<1>2. KeysOf(q) \in Seq(Key) /\ Len(KeysOf(q)) = Len(q) /\ KeysOf(q) # <<>> /\ \A k \in 1 .. Len(q) : KeysOf(q)[k] = q[k].of
  BY KeysAre
<1>3. /\ s \in Seq(Key) /\ Len(s) = Len(q) - 1 /\ Head(KeysOf(q)) = KeysOf(q)[1]
      /\ \A k \in 1 .. Len(q) - 1 : s[k] = KeysOf(q)[k + 1]
  BY <1>1, <1>2
<1>4. KeysOf(p) \in Seq(Key) /\ Len(KeysOf(p)) = Len(p) /\ \A k \in 1 .. Len(p) : KeysOf(p)[k] = p[k].of
  BY <1>1, KeysAre
<1> HIDE DEF p, s
<1>5. ASSUME NEW k \in 1 .. Len(q) - 1 PROVE KeysOf(p)[k] = s[k]
  <2>1. k + 1 \in 1 .. Len(q) /\ k \in 1 .. Len(p)
    BY <1>1
  <2>2. s[k] = KeysOf(q)[k + 1] /\ KeysOf(q)[k + 1] = q[k + 1].of
    BY <1>2, <1>3, <2>1
  <2>3. KeysOf(p)[k] = p[k].of /\ p[k] = q[k + 1]
    BY <1>1, <1>4, <2>1
  <2> QED  BY <2>2, <2>3
<1>6. KeysOf(p) = s
  BY <1>1, <1>3, <1>4, <1>5
<1> QED  BY <1>1, <1>2, <1>3, <1>6 DEF p, s

\* The lanes of a client; CLUSTER SLOTS is never pending.
LEMMA LanesAre ==
  ASSUME NEW r \in Client
  PROVE  /\ Lanes(r) \in Keyed /\ Lanes(r)[NoNode] = r.pending /\ r.pending \in Seq(Commands)
         /\ \A n \in Nodes : n \in Lane /\ Lanes(r)[n] = KeysOf(r.conns[n].queue) /\ r.conns[n] \in Conn
                             /\ r.conns[n].queue \in Seq(Cmd)
         /\ ~AskedAt(r, NoNode)
<1>1. r.pending \in Seq(Commands) /\ \A n \in Nodes : r.conns[n] \in Conn /\ r.conns[n].queue \in Seq(Cmd)
  BY DEF Client, Conn
<1>2. r.pending \in Seq(Key)
  BY <1>1 DEF Key
<1>3. \A n \in Nodes : KeysOf(r.conns[n].queue) \in Seq(Key)
  BY <1>1, KeysAre
<1>4. Lanes(r) \in Keyed
  BY <1>2, <1>3 DEF Lanes, Keyed, Lane
<1>5. Lanes(r)[NoNode] = r.pending /\ \A n \in Nodes : n \in Lane /\ Lanes(r)[n] = KeysOf(r.conns[n].queue)
  BY NodeNames DEF Lanes, Lane
<1>6. ~AskedAt(r, NoNode)
  BY <1>1, <1>5, NodeNames DEF AskedAt, At
<1> QED  BY <1>1, <1>4, <1>5, <1>6

\* Clients that differ in one connection, and in times to live.
Near(r, r2, n) ==
  /\ r \in Client /\ r2 \in Client /\ n \in Nodes
  /\ r2.state = r.state /\ r2.nodes = r.nodes /\ r2.slots = r.slots /\ r2.pending = r.pending
  /\ \A m \in Nodes \ {n} : r2.conns[m] = r.conns[m]

\* Such clients differ in one lane, or in none, or by what is done to the queue.
LEMMA NearRest ==
  ASSUME NEW r, NEW r2, NEW n, Near(r, r2, n)
  PROVE  Rest(Lanes(r), Lanes(r2), n) /\ n \in Lane /\ n # NoNode
<1>1. r \in Client /\ r2 \in Client /\ n \in Nodes /\ r2.pending = r.pending /\ \A m \in Nodes \ {n} : r2.conns[m] = r.conns[m]
  BY DEF Near
<1>2. \A l \in Lane \ {n} : Lanes(r2)[l] = Lanes(r)[l]
  BY <1>1, LanesAre DEF Lane
<1> QED  BY <1>1, <1>2, LanesAre, NodeNames DEF Rest

LEMMA NearSame ==
  ASSUME NEW r, NEW r2, NEW n, Near(r, r2, n), r2.conns[n].queue = r.conns[n].queue
  PROVE  Lanes(r2) = Lanes(r)
<1>1. Rest(Lanes(r), Lanes(r2), n) /\ n \in Lane
  BY NearRest
<1>2. Lanes(r2)[n] = Lanes(r)[n]
  BY LanesAre DEF Near
<1>3. Lanes(r) \in [Lane -> Seq(Key)] /\ Lanes(r2) \in [Lane -> Seq(Key)] /\ \A l \in Lane : Lanes(r2)[l] = Lanes(r)[l]
  BY <1>1, <1>2 DEF Rest, Keyed
<1> QED  BY <1>3

LEMMA NearPut ==
  ASSUME NEW r, NEW r2, NEW n, NEW c \in Cmd, Near(r, r2, n), r2.conns[n].queue = Append(r.conns[n].queue, c)
  PROVE  IsPut(Lanes(r), Lanes(r2), n, c.of) /\ n \in Lane /\ c.of \in Key
<1>1. Rest(Lanes(r), Lanes(r2), n) /\ n \in Lane
  BY NearRest
<1>2. /\ Lanes(r2)[n] = KeysOf(r2.conns[n].queue) /\ Lanes(r)[n] = KeysOf(r.conns[n].queue)
      /\ r.conns[n].queue \in Seq(Cmd)
  BY LanesAre DEF Near
<1>3. Lanes(r2)[n] = Append(Lanes(r)[n], c.of)
  BY <1>2, KeysAppend
<1>4. c.of \in Key
  BY DEF Cmd, SlotsCmd, Key
<1> QED  BY <1>1, <1>3, <1>4 DEF IsPut

LEMMA NearPop ==
  ASSUME NEW r, NEW r2, NEW n, Near(r, r2, n), r.conns[n].queue # <<>>, r2.conns[n].queue = Tail(r.conns[n].queue)
  PROVE  /\ IsPop(Lanes(r), Lanes(r2), n) /\ n \in Lane /\ Head(Lanes(r)[n]) = Head(r.conns[n].queue).of
         /\ Head(r.conns[n].queue) \in Cmd
<1>1. Rest(Lanes(r), Lanes(r2), n) /\ n \in Lane
  BY NearRest
<1>2. /\ Lanes(r2)[n] = KeysOf(r2.conns[n].queue) /\ Lanes(r)[n] = KeysOf(r.conns[n].queue)
      /\ r.conns[n].queue \in Seq(Cmd)
  BY LanesAre DEF Near
<1> QED  BY <1>1, <1>2, KeysAre, KeysTail DEF IsPop

LEMMA NearClear ==
  ASSUME NEW r, NEW r2, NEW n, Near(r, r2, n), r2.conns[n].queue = <<>>
  PROVE  IsClear(Lanes(r), Lanes(r2), n) /\ n \in Lane
<1>1. Rest(Lanes(r), Lanes(r2), n) /\ n \in Lane
  BY NearRest
<1>2. Lanes(r2)[n] = KeysOf(r2.conns[n].queue) /\ r2.conns[n].queue \in Seq(Cmd)
  BY LanesAre DEF Near
<1> QED  BY <1>1, <1>2, KeysAre DEF IsClear
------------------------------------------------------------------------------
(* The handlers: what they do to the lanes *)

\* The two connections the client makes are of the type, and empty.
LEMMA Conns ==
  /\ NoConn \in Conn /\ NewConn \in Conn /\ NoConn.queue = <<>> /\ NewConn.queue = <<>>
  /\ ~NewConn.closing /\ NewConn.state = "connecting"
BY DEF NoConn, NewConn, Conn

\* A connection is replaced.
IsReplaced(r, r2, n, c, t) == r2 = [r EXCEPT !.conns = [@ EXCEPT ![n] = c], !.ttl = t]

LEMMA Replaced ==
  ASSUME NEW r \in Client, NEW n \in Nodes, NEW c \in Conn, NEW t \in [Commands -> Int],
         NEW r2, IsReplaced(r, r2, n, c, t)
  PROVE  Near(r, r2, n) /\ r2.conns[n] = c /\ r2.ttl = t
BY DEF IsReplaced, Near, Client

LEMMA QueueSet ==
  ASSUME NEW c \in Conn, NEW q \in Seq(Cmd), NEW d, d = [c EXCEPT !.queue = q]
  PROVE  d \in Conn /\ d.queue = q /\ d.closing = c.closing /\ d.state = c.state /\ d.ctx = c.ctx
BY DEF Conn

\* fetch_connection(), and what is sent is appended to the queue.
LEMMA FetchIs ==
  ASSUME NEW r \in Client, NEW n \in Nodes
  PROVE  /\ Near(r, Fetch(r, n), n) /\ Fetch(r, n).conns[n].queue = r.conns[n].queue
         /\ Fetch(r, n).ttl = r.ttl
<1>1. CASE r.conns[n] = NoConn
  <2>1. IsReplaced(r, Fetch(r, n), n, NewConn, r.ttl)
    BY <1>1 DEF Fetch, Client, IsReplaced
  <2>2. r.ttl \in [Commands -> Int]
    BY DEF Client
  <2> QED  BY <1>1, <2>1, <2>2, Conns, Replaced
<1>2. CASE r.conns[n] # NoConn
  BY <1>2 DEF Fetch, Near
<1> QED  BY <1>1, <1>2

LEMMA SendIs ==
  ASSUME NEW r \in Client, NEW n \in Nodes, NEW cmd \in Cmd
  PROVE  Near(r, Send(r, cmd, n), n) /\ Send(r, cmd, n).conns[n].queue = Append(r.conns[n].queue, cmd)
<1> DEFINE c == [r.conns[n] EXCEPT !.queue = Append(@, cmd)]
           t == IF cmd.type = "user" THEN [r.ttl EXCEPT ![cmd.of] = @ - 1] ELSE r.ttl
<1>1. r.conns[n] \in Conn /\ r.ttl \in [Commands -> Int]
  BY DEF Client
<1>2. c \in Conn /\ c.queue = Append(r.conns[n].queue, cmd)
  <2>1. Append(r.conns[n].queue, cmd) \in Seq(Cmd)
    BY <1>1 DEF Conn
  <2> QED  BY <1>1, <2>1, QueueSet
<1>3. cmd.type = "user" => cmd.of \in Commands
  BY DEF Cmd, SlotsCmd
<1>4. t \in [Commands -> Int]
  BY <1>1, <1>3
<1>5. IsReplaced(r, Send(r, cmd, n), n, c, t)
  BY DEF Send, dec_ttl, Client, IsReplaced
<1> HIDE DEF c, t
<1> QED  BY <1>2, <1>4, <1>5, Replaced

\* exec() on a node appends the command, or refuses and leaves the queue alone.
LEMMA ExecOnIs ==
  ASSUME NEW r \in Client, NEW n \in Nodes, NEW cmd \in Cmd, NEW x, x = ExecOn(r, cmd, n)
  PROVE  /\ x.ok \in BOOLEAN /\ Near(r, x.client, n)
         /\ x.ok => x.client.conns[n].queue = Append(r.conns[n].queue, cmd) /\ ~r.conns[n].closing
         /\ ~x.ok => x.client.conns[n].queue = r.conns[n].queue
<1>1. CASE r.conns[n] = NoConn /\ n \in Unresolvable
  BY <1>1 DEF ExecOn, Failed, Near
<1> DEFINE f == Fetch(r, n)
           Refused == \/ cmd.type = "user" /\ r.ttl[cmd.of] <= 0
                      \/ f.conns[n].state = "disconnecting" \/ f.conns[n].closing
<1>2. ASSUME ~(r.conns[n] = NoConn /\ n \in Unresolvable)
      PROVE  x = IF Refused THEN Failed(f) ELSE Done(Send(f, cmd, n))
  BY <1>2 DEF ExecOn
<1>3. Near(r, f, n) /\ f.conns[n].queue = r.conns[n].queue
  BY FetchIs
<1>4. r.conns[n].closing => f.conns[n].closing
  BY Conns DEF Fetch, NoConn
<1> HIDE DEF f
<1>5. Near(f, Send(f, cmd, n), n) /\ Send(f, cmd, n).conns[n].queue = Append(f.conns[n].queue, cmd)
  BY <1>3, SendIs DEF Near
<1>6. Near(r, Send(f, cmd, n), n)
  BY <1>3, <1>5 DEF Near
<1>7. CASE ~(r.conns[n] = NoConn /\ n \in Unresolvable) /\ Refused
  <2>1. x = Failed(f)
    BY <1>2, <1>7, Zenon
  <2> QED  BY <1>3, <2>1 DEF Failed
<1>8. CASE ~(r.conns[n] = NoConn /\ n \in Unresolvable) /\ ~Refused
  <2>1. x = Done(Send(f, cmd, n))
    BY <1>2, <1>8, Zenon
  <2>2. ~r.conns[n].closing
    BY <1>4, <1>8
  <2> QED  BY <1>3, <1>5, <1>6, <2>1, <2>2 DEF Done
<1> QED  BY <1>1, <1>7, <1>8

\* The same in terms of lanes.
LEMMA ExecOnLanes ==
  ASSUME NEW r \in Client, NEW n \in Nodes, NEW cmd \in Cmd, NEW x, x = ExecOn(r, cmd, n)
  PROVE  /\ x.ok \in BOOLEAN /\ Near(r, x.client, n) /\ n \in Lane /\ cmd.of \in Key
         /\ x.ok => IsPut(Lanes(r), Lanes(x.client), n, cmd.of)
         /\ ~x.ok => Lanes(x.client) = Lanes(r)
<1>1. /\ x.ok \in BOOLEAN /\ Near(r, x.client, n)
      /\ x.ok => x.client.conns[n].queue = Append(r.conns[n].queue, cmd)
      /\ ~x.ok => x.client.conns[n].queue = r.conns[n].queue
  BY ExecOnIs
<1>2. n \in Lane /\ cmd.of \in Key
  BY DEF Lane, Key, Cmd, SlotsCmd
<1> QED  BY <1>1, <1>2, NearPut, NearSame

\* Sending a command nobody holds.
LEMMA Sent ==
  ASSUME NEW r, Good(r), NEW n \in Nodes, NEW cmd \in Cmd, \A l \in Lane : ~At(Lanes(r), l, cmd.of),
         NEW x, x = ExecOn(r, cmd, n)
  PROVE  /\ x.ok \in BOOLEAN /\ Near(r, x.client, n) /\ Good(x.client)
         /\ \A l \in Lane : \A y : At(Lanes(x.client), l, y) <=> At(Lanes(r), l, y) \/ (x.ok /\ l = n /\ y = cmd.of)
<1>1. r \in Client /\ Apart(Lanes(r))
  BY DEF Good
<1>2. /\ x.ok \in BOOLEAN /\ Near(r, x.client, n) /\ n \in Lane /\ cmd.of \in Key
      /\ x.ok => IsPut(Lanes(r), Lanes(x.client), n, cmd.of)
      /\ ~x.ok => Lanes(x.client) = Lanes(r)
  BY <1>1, ExecOnLanes
<1>3. x.client \in Client
  BY <1>2 DEF Near
<1>4. CASE x.ok
  <2>1. IsPut(Lanes(r), Lanes(x.client), n, cmd.of)
    BY <1>2, <1>4
  <2>2. /\ \A l \in Lane : \A y : At(Lanes(x.client), l, y) <=> At(Lanes(r), l, y) \/ (l = n /\ y = cmd.of)
        /\ Apart(Lanes(x.client))
    BY <1>1, <1>2, <2>1, PutAt
  <2> QED  BY <1>2, <1>3, <1>4, <2>2 DEF Good
<1>5. CASE ~x.ok
  BY <1>1, <1>2, <1>3, <1>5 DEF Good
<1> QED  BY <1>2, <1>4, <1>5

\* A set of numbers has a smallest one, and so have the nodes.
LEMMA Smallest ==
  ASSUME NEW S, S \subseteq Nat, S # {}
  PROVE  Min(S) \in S /\ \A y \in S : Min(S) <= y
<1>1. PICK x \in S : \A y \in S : ~(<<y, x>> \in OpToRel(<, Nat))
  BY WFMin, NatLessThanWellFounded
<1>2. ASSUME NEW y \in S PROVE x <= y
  <2>1. x \in Nat /\ y \in Nat
    OBVIOUS
  <2>2. ~(y < x)
    BY <1>1, <2>1 DEF OpToRel
  <2> QED  BY <2>1, <2>2
<1>3. \E z \in S : \A y \in S : z <= y
  BY <1>2
<1> QED  BY <1>3, Zenon DEF Min

LEMMA FirstNode ==
  ASSUME NEW r \in Client, r.nodes # {}
  PROVE  Min(r.nodes) \in r.nodes /\ Min(r.nodes) \in Nodes
<1>1. r.nodes \subseteq Nodes /\ r.nodes \subseteq Nat
  BY NodeNames DEF Client
<1> QED  BY <1>1, Smallest

\* What matters is the same.
Alike(r, r2) == r2 \in Client /\ Lanes(r2) = Lanes(r) /\ r2.state = r.state /\ r2.nodes = r.nodes

\* So whatever the invariant says carries over.
LEMMA AlikeKeeps ==
  ASSUME NEW r, NEW r2, Alike(r, r2)
  PROVE  /\ Good(r) => Good(r2)
         /\ SlotsAt(r) => SlotsAt(r2)
         /\ \A l \in Lane : \A y : At(Lanes(r2), l, y) <=> At(Lanes(r), l, y)
         /\ \A u : Holds(r2, u) <=> Holds(r, u)
BY DEF Alike, Good, SlotsAt, AskedAt, Holds

LEMMA SameLanes ==
  ASSUME NEW r \in Client, NEW r2 \in Client, r2.conns = r.conns, r2.pending = r.pending
  PROVE  Lanes(r2) = Lanes(r)
BY DEF Lanes

\* Unless slots are being updated, there is no CLUSTER SLOTS anywhere.
LEMMA NobodyAsked ==
  ASSUME NEW r, Good(r), SlotsAt(r), r.state # "updating"
  PROVE  \A l \in Lane : ~At(Lanes(r), l, NoNode)
<1>1. ~AskedAt(r, NoNode)
  BY LanesAre DEF Good
<1>2. \A n \in Nodes : ~AskedAt(r, n)
  BY DEF SlotsAt
<1> QED  BY <1>1, <1>2 DEF AskedAt, Lane

\* reload_slot_cache() when no answer is awaited: CLUSTER SLOTS is sent to the
\* first node, or nothing is sent.
LEMMA ReloadIs ==
  ASSUME NEW r \in Client, r.state # "updating", NEW r2, r2 = reload_slot_cache(r)
  PROVE  /\ r2 \in Client /\ r2.nodes = r.nodes /\ r2.pending = r.pending
         /\ \/ r2.state = r.state /\ Lanes(r2) = Lanes(r)
            \/ /\ r2.state = "updating" /\ r.nodes # {} /\ Min(r.nodes) \in Nodes
               /\ IsPut(Lanes(r), Lanes(r2), Min(r.nodes), NoNode)
<1>1. CASE r.nodes = {}
  BY <1>1 DEF reload_slot_cache
<1>2. CASE r.nodes # {}
  <2> DEFINE m == Min(r.nodes)
             x == ExecOn(r, SlotsCmd, m)
             y == [x.client EXCEPT !.state = "updating"]
  <2>1. m \in Nodes
    BY <1>2, FirstNode
  <2>2. SlotsCmd \in Cmd /\ SlotsCmd.of = NoNode
    BY DEF Cmd, SlotsCmd
  <2>3. r2 = IF x.ok THEN y ELSE x.client
    BY <1>2 DEF reload_slot_cache
  <2> HIDE DEF x
  <2>4. /\ x.ok \in BOOLEAN /\ Near(r, x.client, m)
        /\ x.ok => IsPut(Lanes(r), Lanes(x.client), m, NoNode)
        /\ ~x.ok => Lanes(x.client) = Lanes(r)
    BY <2>1, <2>2, ExecOnLanes DEF x
  <2>5. x.client \in Client /\ x.client.nodes = r.nodes /\ x.client.pending = r.pending /\ x.client.state = r.state
    BY <2>4 DEF Near
  <2>6. /\ y \in Client /\ y.conns = x.client.conns /\ y.pending = x.client.pending /\ y.nodes = x.client.nodes
        /\ y.state = "updating"
    BY <2>5 DEF Client
  <2> HIDE DEF y, m
  <2>7. Lanes(y) = Lanes(x.client)
    BY <2>5, <2>6, SameLanes
  <2>8. CASE x.ok
    BY <1>2, <2>1, <2>3, <2>4, <2>5, <2>6, <2>7, <2>8 DEF m
  <2>9. CASE ~x.ok
    BY <2>3, <2>4, <2>5, <2>9
  <2> QED  BY <2>4, <2>8, <2>9
<1> QED  BY <1>1, <1>2

\* A client that has asked nobody asks the first node, or still nobody.
LEMMA Reloaded ==
  ASSUME NEW r, Good(r), r.state # "updating", \A l \in Lane : ~At(Lanes(r), l, NoNode),
         NEW r2, r2 = reload_slot_cache(r)
  PROVE  /\ Good(r2) /\ SlotsAt(r2) /\ r2.pending = r.pending
         /\ \A u \in Commands : Holds(r2, u) <=> Holds(r, u)
<1>1. r \in Client /\ Apart(Lanes(r))
  BY DEF Good
<1>2. /\ r2 \in Client /\ r2.nodes = r.nodes /\ r2.pending = r.pending
      /\ \/ r2.state = r.state /\ Lanes(r2) = Lanes(r)
         \/ /\ r2.state = "updating" /\ r.nodes # {} /\ Min(r.nodes) \in Nodes
            /\ IsPut(Lanes(r), Lanes(r2), Min(r.nodes), NoNode)
  BY <1>1, ReloadIs
<1>3. CASE r2.state = r.state /\ Lanes(r2) = Lanes(r)
  <2>1. \A n \in Nodes : ~AskedAt(r2, n)
    BY <1>3 DEF AskedAt, Lane
  <2> QED  BY <1>1, <1>2, <1>3, <2>1 DEF Good, SlotsAt, Holds
<1>4. CASE /\ r2.state = "updating" /\ r.nodes # {} /\ Min(r.nodes) \in Nodes
           /\ IsPut(Lanes(r), Lanes(r2), Min(r.nodes), NoNode)
  <2> DEFINE m == Min(r.nodes)
  <2>1. m \in Lane /\ NoNode \in Key /\ m \in Nodes
    BY <1>4 DEF Lane, Key
  <2> HIDE DEF m
  <2>2. /\ \A l \in Lane : \A y : At(Lanes(r2), l, y) <=> At(Lanes(r), l, y) \/ (l = m /\ y = NoNode)
        /\ Apart(Lanes(r2))
    BY <1>1, <1>4, <2>1, PutAt DEF m
  <2>3. \A n \in Nodes : AskedAt(r2, n) <=> n = m
    BY <2>1, <2>2 DEF AskedAt, Lane
  <2>4. \A u \in Commands : Holds(r2, u) <=> Holds(r, u)
    BY <2>2, NodeNames DEF Holds
  <2>5. SlotsAt(r2)
    BY <1>2, <1>4, <2>3 DEF SlotsAt, m
  <2> QED  BY <1>2, <2>2, <2>4, <2>5 DEF Good
<1> QED  BY <1>2, <1>3, <1>4

\* reload_slot_cache() keeps what is held, whatever the state.
LEMMA ReloadKeeps ==
  ASSUME NEW r, Good(r), SlotsAt(r), NEW r2, r2 = reload_slot_cache(r)
  PROVE  /\ Good(r2) /\ SlotsAt(r2) /\ r2.pending = r.pending
         /\ \A u \in Commands : Holds(r2, u) <=> Holds(r, u)
<1>1. CASE r.state = "updating"
  BY <1>1 DEF reload_slot_cache
<1>2. CASE r.state # "updating"
  BY <1>2, NobodyAsked, Reloaded
<1> QED  BY <1>1, <1>2

\* Sending a command of a user, or ASKING for it, to a node
LEMMA SendKeeps ==
  ASSUME NEW r, Good(r), SlotsAt(r), NEW u \in Commands, ~Holds(r, u), NEW n \in Nodes,
         NEW cmd \in {UserCmd(u), AskCmd(u)}, NEW x, x = ExecOn(r, cmd, n)
  PROVE  /\ x.ok \in BOOLEAN /\ Good(x.client) /\ SlotsAt(x.client)
         /\ x.client.state = r.state /\ x.client.pending = r.pending
         /\ \A v \in Commands : Holds(x.client, v) <=> Holds(r, v) \/ (x.ok /\ v = u)
<1>1. cmd \in Cmd /\ cmd.of = u /\ u # NoNode
  BY NodeNames DEF Cmd, UserCmd, AskCmd
<1>2. \A l \in Lane : ~At(Lanes(r), l, cmd.of)
  BY <1>1 DEF Holds
<1>3. /\ x.ok \in BOOLEAN /\ Near(r, x.client, n) /\ Good(x.client)
      /\ \A l \in Lane : \A y : At(Lanes(x.client), l, y) <=> At(Lanes(r), l, y) \/ (x.ok /\ l = n /\ y = cmd.of)
  BY <1>1, <1>2, Sent
<1>4. x.client.state = r.state /\ x.client.nodes = r.nodes /\ x.client.pending = r.pending
  BY <1>3 DEF Near
<1>5. \A k \in Nodes : AskedAt(x.client, k) <=> AskedAt(r, k)
  BY <1>1, <1>3 DEF AskedAt, Lane
<1>6. SlotsAt(x.client)
  BY <1>4, <1>5 DEF SlotsAt
<1>7. n \in Lane
  BY DEF Lane
<1>8. \A v \in Commands : Holds(x.client, v) <=> Holds(r, v) \/ (x.ok /\ v = u)
  BY <1>1, <1>3, <1>7 DEF Holds
<1> QED  BY <1>3, <1>4, <1>6, <1>8

\* Clients that differ in what is pending.
Repends(r, r2, p) == r2 = [r EXCEPT !.pending = p]

LEMMA PendingRest ==
  ASSUME NEW r \in Client, NEW p \in Seq(Commands), NEW r2, Repends(r, r2, p)
  PROVE  /\ r2 \in Client /\ r2.state = r.state /\ r2.nodes = r.nodes /\ r2.slots = r.slots /\ r2.pending = p
         /\ Rest(Lanes(r), Lanes(r2), NoNode) /\ Lanes(r2)[NoNode] = p /\ NoNode \in Lane
<1>1. /\ r2 \in Client /\ r2.state = r.state /\ r2.nodes = r.nodes /\ r2.slots = r.slots /\ r2.pending = p
      /\ r2.conns = r.conns
  BY DEF Client, Repends
<1>2. \A n \in Nodes : Lanes(r2)[n] = Lanes(r)[n]
  BY <1>1, LanesAre
<1>3. Rest(Lanes(r), Lanes(r2), NoNode)
  BY <1>1, <1>2, LanesAre DEF Rest, Lane
<1> QED  BY <1>1, <1>3, LanesAre DEF Lane

\* exec() of a command nobody holds
LEMMA ExecKeeps ==
  ASSUME NEW r, Good(r), SlotsAt(r), NEW u \in Commands, ~Holds(r, u), NEW x \in Exec(r, u)
  PROVE  /\ x.ok \in BOOLEAN /\ Good(x.client) /\ SlotsAt(x.client)
         /\ \A v \in Commands : Holds(x.client, v) <=> Holds(r, v) \/ (x.ok /\ v = u)
         /\ r.state = "updated" => x.client.state = "updated" /\ x.client.pending = r.pending
<1>0. r \in Client
  BY DEF Good
<1>1. CASE r.state # "updated"
  <2> DEFINE q == IF r.state = "invalid" THEN reload_slot_cache(r) ELSE r
             p == Append(q.pending, u)
             y == [q EXCEPT !.pending = p]
  <2>1. x = [client |-> y, ok |-> TRUE]
    BY <1>1 DEF Exec, Done
  <2>2. /\ Good(q) /\ SlotsAt(q) /\ \A v \in Commands : Holds(q, v) <=> Holds(r, v)
    BY ReloadKeeps
  <2> HIDE DEF q
  <2>3. q \in Client /\ Apart(Lanes(q))
    BY <2>2 DEF Good
  <2>4. q.pending \in Seq(Commands) /\ p \in Seq(Commands)
    BY <2>3, LanesAre
  <2>5. /\ y \in Client /\ y.state = q.state /\ y.nodes = q.nodes
        /\ Rest(Lanes(q), Lanes(y), NoNode) /\ Lanes(y)[NoNode] = p /\ NoNode \in Lane
    <3>1. Repends(q, y, p)
      BY DEF Repends
    <3> HIDE DEF y, p
    <3> QED  BY <2>3, <2>4, <3>1, PendingRest
  <2> HIDE DEF y
  <2>6. IsPut(Lanes(q), Lanes(y), NoNode, u) /\ u \in Key
    BY <2>3, <2>5, LanesAre DEF IsPut, Key
  <2>7. \A l \in Lane : ~At(Lanes(q), l, u)
    BY <2>2 DEF Holds
  <2>8. /\ \A l \in Lane : \A z : At(Lanes(y), l, z) <=> At(Lanes(q), l, z) \/ (l = NoNode /\ z = u)
        /\ Apart(Lanes(y))
    BY <2>3, <2>5, <2>6, <2>7, PutAt
  <2>9. \A n \in Nodes : AskedAt(y, n) <=> AskedAt(q, n)
    BY <2>8, NodeNames DEF AskedAt, Lane
  <2>10. SlotsAt(y)
    BY <2>2, <2>5, <2>9 DEF SlotsAt
  <2>11. \A v \in Commands : Holds(y, v) <=> Holds(q, v) \/ v = u
    BY <2>5, <2>8 DEF Holds
  <2> QED  BY <1>1, <2>1, <2>2, <2>5, <2>8, <2>10, <2>11 DEF Good
<1>2. CASE r.state = "updated" /\ select_node(r, u) = {}
  <2>1. x = Failed(r)
    BY <1>2 DEF Exec
  <2>2. x.client = r /\ x.ok = FALSE
    BY <2>1 DEF Failed
  <2> QED  BY <1>2, <2>2
<1>3. CASE r.state = "updated" /\ select_node(r, u) # {}
  <2>1. PICK n \in select_node(r, u) : x = ExecOn(r, UserCmd(u), n)
    BY <1>3 DEF Exec
  <2>2. n \in Nodes
    <3>1. SlotOf[u] \in Slots
      BY DEF Slots
    <3> QED  BY <1>0, <2>1, <3>1 DEF select_node, Client
  <2> QED  BY <1>3, <2>1, <2>2, SendKeeps
<1> QED  BY <1>1, <1>2, <1>3

\* on_cluster_slot_reply() without a usable answer, after its request has gone
LEMMA SlotsFailedIs ==
  ASSUME NEW r \in Client
  PROVE  \E q \in Client : /\ q.nodes = r.nodes \ {Min(r.nodes)} /\ q.state = "invalid"
                           /\ q.conns = r.conns /\ q.pending = r.pending /\ Lanes(q) = Lanes(r)
                           /\ SlotsFailed(r) = reload_slot_cache(q)
<1> DEFINE q == [r EXCEPT !.nodes = @ \ {Min(@)}, !.state = "invalid"]
<1>1. /\ q \in Client /\ q.nodes = r.nodes \ {Min(r.nodes)} /\ q.state = "invalid"
      /\ q.conns = r.conns /\ q.pending = r.pending
  BY DEF Client
<1>2. SlotsFailed(r) = reload_slot_cache(q)
  BY DEF SlotsFailed
<1> HIDE DEF q
<1>3. Lanes(q) = Lanes(r)
  BY <1>1, SameLanes
<1> QED  BY <1>1, <1>2, <1>3

\* So the next node is asked, or none is left to ask, and no command is touched.
LEMMA SlotsFailedKeeps ==
  ASSUME NEW r, Good(r), \A l \in Lane : ~At(Lanes(r), l, NoNode)
  PROVE  /\ Good(SlotsFailed(r)) /\ SlotsAt(SlotsFailed(r))
         /\ \A u \in Commands : Holds(SlotsFailed(r), u) <=> Holds(r, u)
<1>1. PICK q \in Client : /\ q.state = "invalid" /\ Lanes(q) = Lanes(r) /\ SlotsFailed(r) = reload_slot_cache(q)
  BY SlotsFailedIs DEF Good
<1>2. Good(q) /\ (\A l \in Lane : ~At(Lanes(q), l, NoNode)) /\ \A u : Holds(q, u) <=> Holds(r, u)
  BY <1>1 DEF Good, Holds
<1> DEFINE s == SlotsFailed(r)
<1>3. s = reload_slot_cache(q) /\ q.state # "updating"
  BY <1>1
<1> HIDE DEF s
<1>4. Good(s) /\ SlotsAt(s) /\ \A u \in Commands : Holds(s, u) <=> Holds(q, u)
  BY <1>2, <1>3, Reloaded
<1> QED  BY <1>2, <1>4 DEF s

------------------------------------------------------------------------------
(* The loops *)

\* A set of numbers that holds 0, and with each number the next, holds all.
LEMMA Induction ==
  ASSUME NEW S, 0 \in S, \A k \in Nat : k \in S => k + 1 \in S
  PROVE  Nat \subseteq S
<1> SUFFICES ASSUME ~(Nat \subseteq S) PROVE FALSE
  OBVIOUS
<1> DEFINE B == Nat \ S
<1>1. B \subseteq Nat /\ B # {}
  OBVIOUS
<1> HIDE DEF B
<1>2. Min(B) \in B /\ \A y \in B : Min(B) <= y
  BY <1>1, Smallest
<1>3. Min(B) \in Nat /\ Min(B) # 0
  BY <1>1, <1>2 DEF B
<1>4. Min(B) - 1 \in Nat /\ Min(B) - 1 \in S
  <2>1. Min(B) - 1 \in Nat /\ ~(Min(B) <= Min(B) - 1)
    BY <1>3
  <2> QED  BY <1>2, <2>1 DEF B
<1>5. Min(B) \in S
  BY <1>3, <1>4
<1> QED  BY <1>2, <1>5 DEF B

\* The same up to a bound.
LEMMA Rounds ==
  ASSUME NEW n \in Nat, NEW S, 0 \in S, \A k \in 1 .. n : k - 1 \in S => k \in S
  PROVE  n \in S
<1> DEFINE T == {k \in Nat : k <= n => k \in S}
<1>1. 0 \in T
  OBVIOUS
<1>2. \A k \in Nat : k \in T => k + 1 \in T
  <2> SUFFICES ASSUME NEW k \in T, k + 1 <= n PROVE k + 1 \in S
    OBVIOUS
  <2>1. k + 1 \in 1 .. n /\ (k + 1) - 1 = k /\ k \in S
    OBVIOUS
  <2> QED  BY <2>1
<1> HIDE DEF T
<1>3. Nat \subseteq T
  BY <1>1, <1>2, Induction
<1> QED  BY <1>3 DEF T

DrainAll(os) == UNION {DrainOne(o) : o \in os}

\* What Drain() is: so many rounds, one after the other.
LEMMA DrainRuns ==
  ASSUME NEW r, NEW n \in Nat, n = Len(r.pending)
  PROVE  \E g : /\ g[0] = {[client |-> r, lost |-> {}]} /\ Drain(r) = g[n]
                /\ \A k \in 1 .. n : g[k] = DrainAll(g[k - 1])
<1> DEFINE s == {[client |-> r, lost |-> {}]}
           Runs(m, f) == f = [k \in 0 .. m |-> IF k = 0 THEN s ELSE DrainAll(f[k - 1])]
           Has(m) == \E f : Runs(m, f)
           S == {m \in Nat : Has(m)}
<1>1. Drain(r) = (CHOOSE f : Runs(n, f))[n]
  BY DEF Drain, DrainAll
<1> HIDE DEF s
<1>2. 0 \in S
  <2> DEFINE f == [k \in 0 .. 0 |-> s]
  <2>1. Runs(0, f)
    OBVIOUS
  <2> QED  BY <2>1, Zenon
<1>3. \A m \in Nat : m \in S => m + 1 \in S
  <2> SUFFICES ASSUME NEW m \in Nat, Has(m) PROVE Has(m + 1)
    <3> HIDE DEF Has
    <3> QED  OBVIOUS
  <2>1. PICK f : Runs(m, f)
    OBVIOUS
  <2>2. f[0] = s /\ \A k \in 1 .. m : f[k] = DrainAll(f[k - 1])
    BY <2>1
  <2> DEFINE g == [k \in 0 .. m + 1 |-> IF k = m + 1 THEN DrainAll(f[m]) ELSE f[k]]
             h == [k \in 0 .. m + 1 |-> IF k = 0 THEN s ELSE DrainAll(g[k - 1])]
  <2>3. ASSUME NEW k \in 0 .. m + 1 PROVE g[k] = h[k]
    <3>1. CASE k = 0
      <4>1. g[k] = f[0] /\ h[k] = s
        BY <3>1
      <4> QED  BY <2>2, <4>1
    <3>2. CASE k = m + 1
      <4>1. g[k] = DrainAll(f[m]) /\ k - 1 = m /\ k # 0 /\ g[m] = f[m]
        BY <3>2
      <4>2. h[k] = DrainAll(g[k - 1])
        BY <4>1
      <4> HIDE DEF g, h
      <4> QED  BY <4>1, <4>2
    <3>3. CASE k \in 1 .. m
      <4>1. g[k] = f[k] /\ g[k - 1] = f[k - 1] /\ h[k] = DrainAll(g[k - 1])
        BY <3>3
      <4> HIDE DEF g, h
      <4> QED  BY <2>2, <3>3, <4>1
    <3> QED  BY <3>1, <3>2, <3>3
  <2>4. g = h
    BY <2>3
  <2>5. Runs(m + 1, g)
    BY <2>4
  <2> QED  BY <2>5, Zenon
<1> HIDE DEF S
<1>4. n \in S
  BY <1>2, <1>3, Induction
<1> DEFINE g == CHOOSE f : Runs(n, f)
<1>5. Runs(n, g)
  BY <1>4, Zenon DEF S
<1> HIDE DEF g
<1>6. g[0] = s /\ \A k \in 1 .. n : g[k] = DrainAll(g[k - 1])
  BY <1>5
<1>7. Drain(r) = g[n]
  BY <1>1 DEF g
<1> QED  BY <1>6, <1>7 DEF s

BreakOne(r, c) == IF c.type = "slots" THEN SlotsFailed(r) ELSE r

\* What Break() is, likewise.
LEMMA BreakRuns ==
  ASSUME NEW r, NEW q, Len(q) \in Nat
  PROVE  \E g : /\ g[0] = r /\ Break(r, q) = g[Len(q)]
                /\ \A k \in 1 .. Len(q) : g[k] = BreakOne(g[k - 1], q[k])
<1> DEFINE n == Len(q)
           Runs(m, f) == f = [k \in 0 .. m |-> IF k = 0 THEN r ELSE BreakOne(f[k - 1], q[k])]
           Has(m) == \E f : Runs(m, f)
           S == {m \in Nat : Has(m)}
<1>1. Break(r, q) = (CHOOSE f : Runs(n, f))[n]
  BY DEF Break, BreakOne
<1>0. n \in Nat
  OBVIOUS
<1> HIDE DEF n
<1>2. 0 \in S
  <2> DEFINE f == [k \in 0 .. 0 |-> r]
  <2>1. Runs(0, f)
    OBVIOUS
  <2> QED  BY <2>1, Zenon
<1>3. \A m \in Nat : m \in S => m + 1 \in S
  <2> SUFFICES ASSUME NEW m \in Nat, Has(m) PROVE Has(m + 1)
    <3> HIDE DEF Has
    <3> QED  OBVIOUS
  <2>1. PICK f : Runs(m, f)
    OBVIOUS
  <2>2. f[0] = r /\ \A k \in 1 .. m : f[k] = BreakOne(f[k - 1], q[k])
    BY <2>1
  <2> DEFINE g == [k \in 0 .. m + 1 |-> IF k = m + 1 THEN BreakOne(f[m], q[m + 1]) ELSE f[k]]
             h == [k \in 0 .. m + 1 |-> IF k = 0 THEN r ELSE BreakOne(g[k - 1], q[k])]
  <2>3. ASSUME NEW k \in 0 .. m + 1 PROVE g[k] = h[k]
    <3>1. CASE k = 0
      <4>1. g[k] = f[0] /\ h[k] = r
        BY <3>1
      <4> QED  BY <2>2, <4>1
    <3>2. CASE k = m + 1
      <4>0. k - 1 = m /\ k # 0 /\ m \in 0 .. m + 1 /\ m # m + 1
        BY <3>2
      <4>1. g[k] = BreakOne(f[m], q[k]) /\ g[m] = f[m]
        BY <3>2, <4>0, Zenon
      <4>2. h[k] = BreakOne(g[k - 1], q[k])
        BY <4>0, Zenon
      <4> HIDE DEF g, h
      <4> QED  BY <4>0, <4>1, <4>2
    <3>3. CASE k \in 1 .. m
      <4>1. g[k] = f[k] /\ g[k - 1] = f[k - 1] /\ h[k] = BreakOne(g[k - 1], q[k])
        BY <3>3
      <4> HIDE DEF g, h
      <4> QED  BY <2>2, <3>3, <4>1
    <3> QED  BY <3>1, <3>2, <3>3
  <2>4. g = h
    BY <2>3
  <2>5. Runs(m + 1, g)
    BY <2>4
  <2> QED  BY <2>5, Zenon
<1> HIDE DEF S
<1>4. n \in S
  BY <1>0, <1>2, <1>3, Induction
<1> DEFINE g == CHOOSE f : Runs(n, f)
<1>5. Runs(n, g)
  BY <1>4, Zenon DEF S
<1> HIDE DEF g
<1>6. g[0] = r /\ \A k \in 1 .. n : g[k] = BreakOne(g[k - 1], q[k])
  BY <1>0, <1>5
<1>7. Break(r, q) = g[n]
  BY <1>1 DEF g
<1> QED  BY <1>6, <1>7 DEF n

\* The first of what is pending is taken.
LEMMA PendingPop ==
  ASSUME NEW r, Good(r), SlotsAt(r), r.pending # <<>>, NEW u, u = Head(r.pending),
         NEW r2, Repends(r, r2, Tail(r.pending))
  PROVE  /\ Good(r2) /\ SlotsAt(r2) /\ u \in Commands /\ Holds(r, u) /\ r2.state = r.state
         /\ r2.pending = Tail(r.pending)
         /\ \A v \in Commands : Holds(r2, v) <=> Holds(r, v) /\ v # u
<1> DEFINE p == Tail(r.pending)
<1>1. r \in Client /\ Apart(Lanes(r))
  BY DEF Good
<1>2. r.pending \in Seq(Commands) /\ Lanes(r)[NoNode] = r.pending
  BY <1>1, LanesAre
<1>3. p \in Seq(Commands) /\ u \in Commands
  BY <1>2
<1>4. Repends(r, r2, p)
  OBVIOUS
<1> HIDE DEF p
<1>5. /\ r2 \in Client /\ r2.state = r.state /\ r2.nodes = r.nodes /\ r2.pending = p
      /\ Rest(Lanes(r), Lanes(r2), NoNode) /\ Lanes(r2)[NoNode] = p /\ NoNode \in Lane
  BY <1>1, <1>3, <1>4, PendingRest
<1>6. IsPop(Lanes(r), Lanes(r2), NoNode) /\ Head(Lanes(r)[NoNode]) = u
  BY <1>2, <1>5 DEF IsPop, p
<1>7. /\ \A m \in Lane : \A y : At(Lanes(r2), m, y) <=> At(Lanes(r), m, y) /\ y # u
      /\ Apart(Lanes(r2)) /\ At(Lanes(r), NoNode, u)
  BY <1>1, <1>5, <1>6, PopAt
<1>8. \A n \in Nodes : AskedAt(r2, n) <=> AskedAt(r, n)
  BY <1>3, <1>7, NodeNames DEF AskedAt, Lane
<1>9. SlotsAt(r2)
  BY <1>5, <1>8 DEF SlotsAt
<1>10. \A v \in Commands : Holds(r2, v) <=> Holds(r, v) /\ v # u
  BY <1>7 DEF Holds
<1>11. Holds(r, u)
  BY <1>5, <1>7 DEF Holds
<1> QED  BY <1>3, <1>5, <1>7, <1>9, <1>10, <1>11 DEF Good, p

\* An outcome of the loop with j commands still pending: what r held is held
\* or lost, and nothing is both.
Drained(r, o, j) ==
  /\ Good(o.client) /\ SlotsAt(o.client) /\ o.client.state = "updated" /\ Len(o.client.pending) = j
  /\ \A u \in Commands : /\ Holds(r, u) <=> Holds(o.client, u) \/ u \in o.lost
                         /\ ~(Holds(o.client, u) /\ u \in o.lost)

\* One round leaves one command less to send.
LEMMA DrainRound ==
  ASSUME NEW r, NEW o, NEW j \in Nat, j # 0, Drained(r, o, j), NEW y \in DrainOne(o)
  PROVE  Drained(r, y, j - 1)
<1> DEFINE c == o.client
           u == Head(c.pending)
           d == [c EXCEPT !.pending = Tail(@)]
<1>1. PICK x \in Exec(d, u) : y = [client |-> x.client, lost |-> IF x.ok THEN o.lost ELSE o.lost \cup {u}]
  BY Zenon DEF DrainOne
<1>2. /\ Good(c) /\ SlotsAt(c) /\ c.state = "updated" /\ Len(c.pending) = j
      /\ \A v \in Commands : /\ Holds(r, v) <=> Holds(c, v) \/ v \in o.lost
                             /\ ~(Holds(c, v) /\ v \in o.lost)
  BY DEF Drained
<1> HIDE DEF c
<1>3. c \in Client /\ c.pending \in Seq(Commands)
  BY <1>2, LanesAre DEF Good
<1>4. c.pending # <<>> /\ Len(Tail(c.pending)) = j - 1
  BY <1>2, <1>3
<1>5. Repends(c, d, Tail(c.pending))
  BY DEF Repends
<1> HIDE DEF d, u
<1>6. /\ Good(d) /\ SlotsAt(d) /\ u \in Commands /\ Holds(c, u) /\ d.state = c.state
      /\ d.pending = Tail(c.pending)
      /\ \A v \in Commands : Holds(d, v) <=> Holds(c, v) /\ v # u
  BY <1>2, <1>4, <1>5, PendingPop DEF u
<1>7. /\ x.ok \in BOOLEAN /\ Good(x.client) /\ SlotsAt(x.client)
      /\ \A v \in Commands : Holds(x.client, v) <=> Holds(d, v) \/ (x.ok /\ v = u)
      /\ x.client.state = "updated" /\ x.client.pending = d.pending
  BY <1>1, <1>2, <1>6, ExecKeeps
<1>8. y.client = x.client /\ y.lost = IF x.ok THEN o.lost ELSE o.lost \cup {u}
  BY <1>1
<1>9. ASSUME NEW v \in Commands
      PROVE  (Holds(r, v) <=> Holds(x.client, v) \/ v \in y.lost) /\ ~(Holds(x.client, v) /\ v \in y.lost)
  BY <1>2, <1>6, <1>7, <1>8
<1> QED  BY <1>4, <1>6, <1>7, <1>8, <1>9 DEF Drained

\* Once the slots are known, each command that was pending has been sent once
\* or is lost, and the others are where they were.
LEMMA DrainKeeps ==
  ASSUME NEW r, Good(r), SlotsAt(r), r.state = "updated", NEW x \in Drain(r)
  PROVE  /\ Good(x.client) /\ SlotsAt(x.client)
         /\ \A u \in Commands : /\ Holds(r, u) <=> Holds(x.client, u) \/ u \in x.lost
                                /\ ~(Holds(x.client, u) /\ u \in x.lost)
<1>1. PICK n \in Nat : n = Len(r.pending)
  BY LanesAre DEF Good
<1>2. PICK g : /\ g[0] = {[client |-> r, lost |-> {}]} /\ Drain(r) = g[n]
               /\ \A k \in 1 .. n : g[k] = DrainAll(g[k - 1])
  BY <1>1, DrainRuns
<1> DEFINE S == {k \in 0 .. n : \A o \in g[k] : Drained(r, o, n - k)}
<1>3. 0 \in S
  <2> DEFINE o == [client |-> r, lost |-> {}]
  <2>1. o.client = r /\ o.lost = {} /\ g[0] = {o}
    BY <1>2
  <2> HIDE DEF o
  <2>2. Drained(r, o, n)
    BY <1>1, <2>1 DEF Drained
  <2>3. n - 0 = n /\ 0 \in 0 .. n
    OBVIOUS
  <2> QED  BY <2>1, <2>2, <2>3
<1>4. \A k \in 1 .. n : k - 1 \in S => k \in S
  <2> SUFFICES ASSUME NEW k \in 1 .. n, k - 1 \in S, NEW y \in g[k] PROVE Drained(r, y, n - k)
    BY <1>1
  <2>1. PICK o \in g[k - 1] : y \in DrainOne(o)
    BY <1>2 DEF DrainAll
  <2>2. Drained(r, o, n - (k - 1))
    OBVIOUS
  <2> DEFINE j == n - (k - 1)
  <2>3. j \in Nat /\ j # 0 /\ j - 1 = n - k /\ Drained(r, o, j)
    BY <1>1, <2>2
  <2> HIDE DEF j
  <2>4. Drained(r, y, j - 1)
    BY <2>1, <2>3, DrainRound
  <2> QED  BY <2>3, <2>4
<1> HIDE DEF S
<1>5. n \in S
  BY <1>1, <1>3, <1>4, Rounds
<1>6. Drained(r, x, n - n)
  BY <1>2, <1>5 DEF S
<1> QED  BY <1>6 DEF Drained

HasSlots(q) == \E k \in 1 .. Len(q) : q[k].type = "slots"

\* Break() asks the next node once if the queue had the one CLUSTER SLOTS.
LEMMA BreakIs ==
  ASSUME NEW r, NEW q \in Seq(Cmd),
         \A j, k \in 1 .. Len(q) : q[j].type = "slots" /\ q[k].type = "slots" => j = k
  PROVE  Break(r, q) = IF HasSlots(q) THEN SlotsFailed(r) ELSE r
<1> DEFINE n == Len(q)
<1>1. n \in Nat
  OBVIOUS
<1>2. PICK g : /\ g[0] = r /\ Break(r, q) = g[n]
               /\ \A k \in 1 .. n : g[k] = BreakOne(g[k - 1], q[k])
  BY <1>1, BreakRuns
<1> DEFINE Upto(k) == \E i \in 1 .. k : q[i].type = "slots"
           S == {k \in 0 .. n : g[k] = IF Upto(k) THEN SlotsFailed(r) ELSE r}
<1>3. 0 \in S
  BY <1>1, <1>2
<1>4. \A k \in 1 .. n : k - 1 \in S => k \in S
  <2> SUFFICES ASSUME NEW k \in 1 .. n, k - 1 \in S PROVE g[k] = IF Upto(k) THEN SlotsFailed(r) ELSE r
    BY <1>1
  <2>1. g[k] = BreakOne(g[k - 1], q[k]) /\ g[k - 1] = IF Upto(k - 1) THEN SlotsFailed(r) ELSE r
    BY <1>2
  <2>2. Upto(k) <=> Upto(k - 1) \/ q[k].type = "slots"
    BY <1>1
  <2>3. ~(Upto(k - 1) /\ q[k].type = "slots")
    BY <1>1
  <2> HIDE DEF Upto
  <2> QED  BY <2>1, <2>2, <2>3 DEF BreakOne
<1> HIDE DEF S
<1>5. n \in S
  BY <1>1, <1>3, <1>4, Rounds
<1>6. g[n] = IF Upto(n) THEN SlotsFailed(r) ELSE r
  BY <1>5 DEF S
<1> QED  BY <1>2, <1>6 DEF HasSlots
------------------------------------------------------------------------------
(* The steps *)

Fine(r, f) == f \in [Commands -> Fates] /\ Good(r) /\ SlotsAt(r) /\ Agrees(r, f)

\* A connection that ends with its last answer takes nothing with it.
LEMMA FinishAlike ==
  ASSUME NEW r \in Client, NEW n \in Nodes, NEW r2, r2 = Finish(r, n)
  PROVE  Alike(r, r2)
<1>1. CASE r.conns[n].closing /\ r.conns[n].queue = <<>>
  <2>1. r2 = [r EXCEPT !.conns[n] = NoConn]
    BY <1>1 DEF Finish, release_connection
  <2>2. IsReplaced(r, r2, n, NoConn, r.ttl) /\ r.ttl \in [Commands -> Int]
    BY <2>1 DEF IsReplaced, Client
  <2>3. Near(r, r2, n) /\ r2.conns[n] = NoConn
    BY <2>2, Conns, Replaced
  <2>4. Lanes(r2) = Lanes(r)
    BY <1>1, <2>3, Conns, NearSame
  <2> QED  BY <2>3, <2>4 DEF Alike, Near
<1>2. CASE ~(r.conns[n].closing /\ r.conns[n].queue = <<>>)
  BY <1>2 DEF Finish, Alike
<1> QED  BY <1>1, <1>2

LEMMA AlikeFine ==
  ASSUME NEW r, NEW f, Fine(r, f), NEW r2, Alike(r, r2)
  PROVE  Fine(r2, f)
BY AlikeKeeps DEF Fine, Agrees

\* The head of a queue is taken.
LEMMA AnsweredIs ==
  ASSUME Good(cluster), NEW n \in Nodes, NEW type, Answerable(n, type)
  PROVE  /\ Good(Answered(n)) /\ Answered(n).state = cluster.state /\ Answered(n).nodes = cluster.nodes
         /\ \A l \in Lane : \A y : At(Lanes(Answered(n)), l, y) <=> At(Lanes(cluster), l, y) /\ y # Asked(n)
         /\ At(Lanes(cluster), n, Asked(n))
         /\ IF type = "slots" THEN Asked(n) = NoNode ELSE Asked(n) \in Commands
<1> DEFINE q == cluster.conns[n].queue
           c == [cluster.conns[n] EXCEPT !.queue = Tail(q)]
           a == Answered(n)
<1>1. cluster \in Client /\ Apart(Lanes(cluster))
  BY DEF Good
<1>2. /\ q \in Seq(Cmd) /\ q # <<>> /\ Head(q).type = type /\ cluster.conns[n] \in Conn
      /\ cluster.ttl \in [Commands -> Int]
  BY <1>1, LanesAre DEF Answerable, Client
<1>3. Head(q) \in Cmd /\ Tail(q) \in Seq(Cmd) /\ Asked(n) = Head(q).of
  BY <1>2, KeysTail DEF Asked
<1>4. c \in Conn /\ c.queue = Tail(q)
  BY <1>2, <1>3, QueueSet
<1>5. IsReplaced(cluster, a, n, c, cluster.ttl)
  BY <1>1 DEF IsReplaced, Answered, Client
<1> HIDE DEF c, a
<1>6. Near(cluster, a, n) /\ a.conns[n] = c
  BY <1>1, <1>2, <1>4, <1>5, Replaced
<1>7. IsPop(Lanes(cluster), Lanes(a), n) /\ n \in Lane /\ Head(Lanes(cluster)[n]) = Asked(n)
  BY <1>2, <1>3, <1>4, <1>6, NearPop
<1>8. /\ \A l \in Lane : \A y : At(Lanes(a), l, y) <=> At(Lanes(cluster), l, y) /\ y # Asked(n)
      /\ Apart(Lanes(a)) /\ At(Lanes(cluster), n, Asked(n))
  BY <1>1, <1>7, PopAt
<1>9. a \in Client /\ a.state = cluster.state /\ a.nodes = cluster.nodes
  BY <1>6 DEF Near
<1>10. IF type = "slots" THEN Asked(n) = NoNode ELSE Asked(n) \in Commands
  BY <1>2, <1>3 DEF Cmd, SlotsCmd
<1> QED  BY <1>8, <1>9, <1>10 DEF Good, a

\* A command, or the ASKING before it, is answered: nobody holds it any more.
LEMMA UserAnswered ==
  ASSUME Fine(cluster, fate), NEW n \in Nodes, NEW type, type # "slots", Answerable(n, type)
  PROVE  /\ Good(Answered(n)) /\ SlotsAt(Answered(n)) /\ Asked(n) \in Commands /\ fate[Asked(n)] = "accepted"
         /\ \A v \in Commands : Holds(Answered(n), v) <=> Holds(cluster, v) /\ v # Asked(n)
<1> DEFINE a == Answered(n)
           u == Asked(n)
<1>1. /\ Good(a) /\ a.state = cluster.state /\ a.nodes = cluster.nodes /\ u \in Commands
      /\ \A l \in Lane : \A y : At(Lanes(a), l, y) <=> At(Lanes(cluster), l, y) /\ y # u
      /\ At(Lanes(cluster), n, u)
  BY AnsweredIs DEF Fine
<1> HIDE DEF a, u
<1>2. \A m \in Nodes : AskedAt(a, m) <=> AskedAt(cluster, m)
  BY <1>1, NodeNames DEF AskedAt, Lane
<1>3. SlotsAt(a)
  BY <1>1, <1>2 DEF SlotsAt, Fine
<1>4. \A v \in Commands : Holds(a, v) <=> Holds(cluster, v) /\ v # u
  BY <1>1 DEF Holds
<1>5. Holds(cluster, u)
  BY <1>1 DEF Holds, Lane
<1>6. fate[u] = "accepted"
  BY <1>1, <1>5 DEF Fine, Agrees
<1> QED  BY <1>1, <1>3, <1>4, <1>6 DEF a, u

\* CLUSTER SLOTS is answered: nobody is asked any more.
LEMMA SlotsAnswered ==
  ASSUME Fine(cluster, fate), NEW n \in Nodes, Answerable(n, "slots")
  PROVE  /\ Good(Answered(n)) /\ \A l \in Lane : ~At(Lanes(Answered(n)), l, NoNode)
         /\ \A v \in Commands : Holds(Answered(n), v) <=> Holds(cluster, v)
<1>1. /\ Good(Answered(n)) /\ Asked(n) = NoNode
      /\ \A l \in Lane : \A y : At(Lanes(Answered(n)), l, y) <=> At(Lanes(cluster), l, y) /\ y # Asked(n)
  BY AnsweredIs DEF Fine
<1> QED  BY <1>1, NodeNames DEF Holds

\* What Result() leaves, if client holds u when it is accepted again.
LEMMA ResultFine ==
  ASSUME Fine(cluster, fate), NEW n \in Nodes, NEW u \in Commands, NEW to \in Fates, NEW r,
         Good(r), SlotsAt(r),
         \A v \in Commands : Holds(r, v) <=> (Holds(cluster, v) /\ v # u) \/ (to = "accepted" /\ v = u),
         Result(n, r, u, to)
  PROVE  Fine(cluster', fate') /\ UNCHANGED phase
<1>1. cluster' = Finish(r, n) /\ fate' = [fate EXCEPT ![u] = to] /\ UNCHANGED phase
  BY DEF Result
<1>2. fate' \in [Commands -> Fates] /\ fate'[u] = to /\ \A v \in Commands : v # u => fate'[v] = fate[v]
  BY <1>1 DEF Fine
<1>3. Agrees(r, fate')
  BY <1>2 DEF Fine, Agrees
<1>4. Fine(r, fate')
  BY <1>2, <1>3 DEF Fine
<1>5. Alike(r, cluster')
  BY <1>1, FinishAlike DEF Good
<1> QED  BY <1>1, <1>4, <1>5, AlikeFine

\* The steps, one by one.
LEMMA ExecStep ==
  ASSUME Fine(cluster, fate), NEW u \in Commands, exec(u)
  PROVE  Fine(cluster', fate')
<1> DEFINE r == NewCommand(cluster, u)
<1>1. cluster \in Client
  BY DEF Fine, Good
<1>2. Alike(cluster, r)
  <2>1. /\ r \in Client /\ r.conns = cluster.conns /\ r.pending = cluster.pending /\ r.state = cluster.state
        /\ r.nodes = cluster.nodes
    <3> DEFINE t == [cluster.ttl EXCEPT ![u] = MAX_REQUEST_TTL]
    <3>1. MAX_REQUEST_TTL \in Int
      BY RedisAssumption
    <3>2. t \in [Commands -> Int] /\ r = [cluster EXCEPT !.ttl = t]
      BY <1>1, <3>1 DEF NewCommand, Client
    <3> HIDE DEF t, r
    <3> QED  BY <1>1, <3>2 DEF Client
  <2> HIDE DEF r
  <2>2. Lanes(r) = Lanes(cluster)
    BY <1>1, <2>1, SameLanes
  <2> QED  BY <2>1, <2>2 DEF Alike
<1>3. PICK x \in Exec(r, u) : cluster' = x.client /\ fate' = [fate EXCEPT ![u] = IF x.ok THEN "accepted" ELSE "new"]
  BY DEF exec
<1> HIDE DEF r
<1>4. Fine(r, fate)
  BY <1>2, AlikeFine
<1>5. ~Holds(r, u)
  BY <1>4 DEF exec, Fine, Agrees
<1>6. /\ x.ok \in BOOLEAN /\ Good(x.client) /\ SlotsAt(x.client)
      /\ \A v \in Commands : Holds(x.client, v) <=> Holds(r, v) \/ (x.ok /\ v = u)
  BY <1>3, <1>4, <1>5, ExecKeeps DEF Fine
<1>7. /\ fate' \in [Commands -> Fates] /\ \A v \in Commands : v # u => fate'[v] = fate[v]
      /\ fate'[u] = IF x.ok THEN "accepted" ELSE "new"
  BY <1>3 DEF Fine, Fates
<1>8. Agrees(x.client, fate')
  BY <1>4, <1>5, <1>6, <1>7 DEF Fine, Agrees
<1> QED  BY <1>3, <1>6, <1>7, <1>8 DEF Fine

LEMMA ReplyStep ==
  ASSUME Fine(cluster, fate), NEW n \in Nodes, on_reply(n)
  PROVE  Fine(cluster', fate') /\ UNCHANGED phase
<1>1. Answerable(n, "user") /\ Result(n, Answered(n), Asked(n), "answered")
  BY DEF on_reply
<1>2. /\ Good(Answered(n)) /\ SlotsAt(Answered(n)) /\ Asked(n) \in Commands
      /\ \A v \in Commands : Holds(Answered(n), v) <=> Holds(cluster, v) /\ v # Asked(n)
  BY <1>1, UserAnswered
<1>3. "answered" \in Fates
  BY DEF Fates
<1> QED  BY <1>1, <1>2, <1>3, ResultFine

\* A command goes on, or ASKING for it, from a client that does not hold it.
LEMMA GoesOn ==
  ASSUME Fine(cluster, fate), NEW n \in Nodes, NEW to \in Nodes, NEW u \in Commands, NEW r,
         Good(r), SlotsAt(r), \A v \in Commands : Holds(r, v) <=> Holds(cluster, v) /\ v # u,
         NEW cmd \in {UserCmd(u), AskCmd(u)}, NEW x, x = ExecOn(r, cmd, to),
         Result(n, x.client, u, IF x.ok THEN "accepted" ELSE "lost")
  PROVE  Fine(cluster', fate') /\ UNCHANGED phase
<1>1. ~Holds(r, u)
  OBVIOUS
<1>2. /\ x.ok \in BOOLEAN /\ Good(x.client) /\ SlotsAt(x.client)
      /\ \A v \in Commands : Holds(x.client, v) <=> Holds(r, v) \/ (x.ok /\ v = u)
  BY <1>1, SendKeeps
<1> DEFINE f == IF x.ok THEN "accepted" ELSE "lost"
<1>3. f \in Fates /\ (f = "accepted" <=> x.ok) /\ Result(n, x.client, u, f)
  BY <1>2 DEF Fates
<1> HIDE DEF f
<1>4. \A v \in Commands : Holds(x.client, v) <=> (Holds(cluster, v) /\ v # u) \/ (f = "accepted" /\ v = u)
  BY <1>2, <1>3
<1> QED  BY <1>2, <1>3, <1>4, ResultFine

LEMMA RedirectStep ==
  ASSUME Fine(cluster, fate), NEW n \in Nodes, NEW to \in Nodes, NEW moved \in BOOLEAN, on_redirect(n, to, moved)
  PROVE  Fine(cluster', fate') /\ UNCHANGED phase
<1> DEFINE a == Answered(n)
           u == Asked(n)
<1>1. Answerable(n, "user")
  BY DEF on_redirect
<1>2. /\ Good(a) /\ SlotsAt(a) /\ u \in Commands
      /\ \A v \in Commands : Holds(a, v) <=> Holds(cluster, v) /\ v # u
  BY <1>1, UserAnswered
<1>3. PICK x : /\ x = IF moved THEN on_moved_received(a, u, to) ELSE on_ask_received(a, u, to)
               /\ Result(n, x.client, u, IF x.ok THEN "accepted" ELSE "lost")
  BY Zenon DEF on_redirect
<1> HIDE DEF a, u
<1>4. CASE moved
  <2> DEFINE q == reload_slot_cache(a)
             r == [q EXCEPT !.slots[SlotOf[u]] = to]
  <2>1. x = ExecOn(r, UserCmd(u), to)
    BY <1>3, <1>4 DEF on_moved_received
  <2>2. /\ Good(q) /\ SlotsAt(q) /\ \A v \in Commands : Holds(q, v) <=> Holds(a, v)
    BY <1>2, ReloadKeeps
  <2> HIDE DEF q
  <2>3. Alike(q, r)
    <3>1. q \in Client
      BY <2>2 DEF Good
    <3>2. r \in Client /\ r.conns = q.conns /\ r.pending = q.pending /\ r.state = q.state /\ r.nodes = q.nodes
      <4> DEFINE s == [q.slots EXCEPT ![SlotOf[u]] = to]
      <4>1. s \in [Slots -> Nodes \cup {NoNode}] /\ r = [q EXCEPT !.slots = s]
        BY <3>1 DEF Client
      <4> HIDE DEF s, r
      <4> QED  BY <3>1, <4>1 DEF Client
    <3> HIDE DEF r
    <3>3. Lanes(r) = Lanes(q)
      BY <3>1, <3>2, SameLanes
    <3> QED  BY <3>2, <3>3 DEF Alike
  <2> HIDE DEF r
  <2>4. Good(r) /\ SlotsAt(r) /\ \A v \in Commands : Holds(r, v) <=> Holds(cluster, v) /\ v # u
    BY <1>2, <2>2, <2>3, AlikeKeeps
  <2> DEFINE cmd == UserCmd(u)
  <2>5. cmd \in {UserCmd(u), AskCmd(u)}
    OBVIOUS
  <2> HIDE DEF cmd
  <2>6. x = ExecOn(r, cmd, to)
    BY <2>1 DEF cmd
  <2> QED  BY <1>2, <1>3, <2>4, <2>5, <2>6, GoesOn
<1>5. CASE ~moved
  <2> DEFINE cmd == AskCmd(u)
  <2>1. x = ExecOn(a, cmd, to)
    BY <1>3, <1>5 DEF on_ask_received
  <2>2. cmd \in {UserCmd(u), AskCmd(u)}
    OBVIOUS
  <2> HIDE DEF cmd
  <2> QED  BY <1>2, <1>3, <2>1, <2>2, GoesOn
<1> QED  BY <1>4, <1>5

LEMMA BadRedirectStep ==
  ASSUME Fine(cluster, fate), NEW n \in Nodes, NEW moved \in BOOLEAN, on_bad_redirect(n, moved)
  PROVE  Fine(cluster', fate') /\ UNCHANGED phase
<1> DEFINE a == Answered(n)
           u == Asked(n)
           r == IF moved THEN reload_slot_cache(a) ELSE a
<1>1. Answerable(n, "user") /\ Result(n, r, u, "lost")
  BY DEF on_bad_redirect
<1>2. /\ Good(a) /\ SlotsAt(a) /\ u \in Commands
      /\ \A v \in Commands : Holds(a, v) <=> Holds(cluster, v) /\ v # u
  BY <1>1, UserAnswered
<1> HIDE DEF a, u
<1>3. Good(r) /\ SlotsAt(r) /\ \A v \in Commands : Holds(r, v) <=> Holds(a, v)
  BY <1>2, ReloadKeeps
<1> HIDE DEF r
<1>4. "lost" \in Fates
  BY DEF Fates
<1> QED  BY <1>1, <1>2, <1>3, <1>4, ResultFine

LEMMA AskReplyStep ==
  ASSUME Fine(cluster, fate), NEW n \in Nodes, NEW ok \in BOOLEAN, on_ask_reply(n, ok)
  PROVE  Fine(cluster', fate') /\ UNCHANGED phase
<1> DEFINE a == Answered(n)
           u == Asked(n)
<1>1. Answerable(n, "ask")
  BY DEF on_ask_reply
<1>2. /\ Good(a) /\ SlotsAt(a) /\ u \in Commands
      /\ \A v \in Commands : Holds(a, v) <=> Holds(cluster, v) /\ v # u
  BY <1>1, UserAnswered
<1>3. PICK x : /\ x = IF ok THEN ExecOn(a, UserCmd(u), n) ELSE Failed(a)
               /\ Result(n, x.client, u, IF x.ok THEN "accepted" ELSE "lost")
  BY Zenon DEF on_ask_reply
<1> HIDE DEF a, u
<1>4. CASE ok
  <2> DEFINE cmd == UserCmd(u)
  <2>1. x = ExecOn(a, cmd, n)
    BY <1>3, <1>4
  <2>2. cmd \in {UserCmd(u), AskCmd(u)}
    OBVIOUS
  <2> HIDE DEF cmd
  <2> QED  BY <1>2, <1>3, <2>1, <2>2, GoesOn
<1>5. CASE ~ok
  <2>1. x = Failed(a)
    BY <1>3, <1>5
  <2>2. x.client = a /\ x.ok = FALSE
    BY <2>1 DEF Failed
  <2>3. Result(n, a, u, "lost") /\ "lost" \in Fates
    BY <1>3, <2>2 DEF Fates
  <2> QED  BY <1>2, <2>3, ResultFine
<1> QED  BY <1>4, <1>5

LEMMA SlotReplyStep ==
  ASSUME Fine(cluster, fate), NEW n \in Nodes, on_cluster_slot_reply(n)
  PROVE  Fine(cluster', fate') /\ UNCHANGED phase
<1> DEFINE a == Answered(n)
<1>1. Answerable(n, "slots") /\ UNCHANGED phase
  BY DEF on_cluster_slot_reply
<1>2. /\ Good(a) /\ \A l \in Lane : ~At(Lanes(a), l, NoNode)
      /\ \A v \in Commands : Holds(a, v) <=> Holds(cluster, v)
  BY <1>1, SlotsAnswered
<1>3. fate \in [Commands -> Fates] /\ \A v \in Commands : Holds(cluster, v) <=> fate[v] = "accepted"
  BY DEF Fine, Agrees
<1>4. CASE cluster' = Finish(SlotsFailed(a), n) /\ UNCHANGED fate
  <2> DEFINE s == SlotsFailed(a)
  <2> HIDE DEF a
  <2>1. Good(s) /\ SlotsAt(s) /\ \A v \in Commands : Holds(s, v) <=> Holds(a, v)
    BY <1>2, SlotsFailedKeeps
  <2>2. cluster' = Finish(s, n) /\ fate' = fate
    BY <1>4
  <2> HIDE DEF s
  <2>3. Fine(s, fate')
    BY <1>2, <1>3, <2>1, <2>2 DEF Fine, Agrees
  <2>4. Alike(s, cluster')
    BY <2>1, <2>2, FinishAlike DEF Good
  <2> QED  BY <1>1, <2>3, <2>4, AlikeFine
<1>5. ASSUME NEW layout \in Layouts, NEW x \in SlotsKnown(a, layout), cluster' = Finish(x.client, n),
             fate' = [u \in Commands |-> IF u \in x.lost THEN "lost" ELSE fate[u]]
      PROVE  Fine(cluster', fate')
  <2> DEFINE N == a.nodes \cup Range(layout)
             S == [s \in Slots |-> IF s \in DOMAIN layout THEN layout[s] ELSE NoNode]
             r == [a EXCEPT !.nodes = N, !.state = "updated", !.slots = S]
  <2>1. x \in Drain(r)
    BY <1>5 DEF SlotsKnown
  <2> HIDE DEF a
  <2>2. a \in Client /\ Apart(Lanes(a))
    BY <1>2 DEF Good
  <2>3. N \in SUBSET Nodes /\ S \in [Slots -> Nodes \cup {NoNode}]
    <3>1. Range(layout) \subseteq Nodes
      BY RedisAssumption
    <3>2. \A s \in DOMAIN layout : layout[s] \in Nodes
      BY <3>1 DEF Range
    <3> QED  BY <2>2, <3>1, <3>2 DEF Client
  <2> HIDE DEF N, S
  <2>4. r \in Client /\ r.conns = a.conns /\ r.pending = a.pending /\ r.state = "updated"
    BY <2>2, <2>3 DEF Client
  <2> HIDE DEF r
  <2>5. Lanes(r) = Lanes(a)
    BY <2>2, <2>4, SameLanes
  <2>6. Good(r) /\ \A v \in Commands : Holds(r, v) <=> Holds(a, v)
    BY <2>2, <2>4, <2>5 DEF Good, Holds
  <2>7. SlotsAt(r)
    BY <1>2, <2>4, <2>5 DEF SlotsAt, AskedAt, Lane
  <2>8. /\ Good(x.client) /\ SlotsAt(x.client)
        /\ \A u \in Commands : /\ Holds(r, u) <=> Holds(x.client, u) \/ u \in x.lost
                               /\ ~(Holds(x.client, u) /\ u \in x.lost)
    BY <2>1, <2>4, <2>6, <2>7, DrainKeeps
  <2>9. fate' \in [Commands -> Fates] /\ \A v \in Commands : fate'[v] = IF v \in x.lost THEN "lost" ELSE fate[v]
    BY <1>3, <1>5 DEF Fates
  <2>10. Agrees(x.client, fate')
    BY <1>2, <1>3, <2>6, <2>8, <2>9 DEF Agrees
  <2>11. Fine(x.client, fate')
    BY <2>8, <2>9, <2>10 DEF Fine
  <2>12. Alike(x.client, cluster')
    BY <1>5, <2>8, FinishAlike DEF Good
  <2> QED  BY <2>11, <2>12, AlikeFine
<1> QED  BY <1>1, <1>4, <1>5 DEF on_cluster_slot_reply

\* A key is put into one lane while another lane, that had it, is cleared.
LEMMA PutAndClear ==
  ASSUME NEW L, NEW L2, NEW L3, NEW n \in Lane, NEW m \in Lane, m # n, NEW x \in Key, Apart(L),
         \A l \in Lane : At(L, l, x) => l = n,
         IsPut(L, L2, m, x), IsClear(L2, L3, n)
  PROVE  /\ Apart(L3)
         /\ \A l \in Lane : \A y : At(L3, l, y) <=> (At(L, l, y) /\ l # n) \/ (l = m /\ y = x)
<1> DEFINE K == [L EXCEPT ![n] = <<>>]
<1>1. L \in Keyed /\ L2 \in Keyed /\ L3 \in Keyed
  BY DEF IsPut, IsClear, Rest
<1>2. K \in Keyed /\ K[n] = <<>> /\ \A l \in Lane \ {n} : K[l] = L[l]
  BY <1>1 DEF Keyed
<1> HIDE DEF K
<1>3. IsClear(L, K, n)
  BY <1>1, <1>2 DEF IsClear, Rest
<1>4. IsPut(K, L3, m, x)
  <2>1. L3[m] = Append(K[m], x)
    BY <1>2 DEF IsPut, IsClear, Rest
  <2>2. \A l \in Lane \ {m} : L3[l] = K[l]
    BY <1>2 DEF IsPut, IsClear, Rest
  <2> QED  BY <1>1, <1>2, <2>1, <2>2 DEF IsPut, Rest
<1>5. Apart(K) /\ \A l \in Lane : \A y : At(K, l, y) <=> At(L, l, y) /\ l # n
  BY <1>3, ClearAt
<1>6. \A l \in Lane : ~At(K, l, x)
  BY <1>5
<1> QED  BY <1>4, <1>5, <1>6, PutAt

\* release_connection() empties a lane.
LEMMA Released ==
  ASSUME NEW r \in Client, NEW n \in Nodes, NEW r2, r2 = release_connection(r, n)
  PROVE  /\ IsClear(Lanes(r), Lanes(r2), n) /\ n \in Lane
         /\ r2 \in Client /\ r2.state = r.state /\ r2.nodes = r.nodes
<1>1. IsReplaced(r, r2, n, NoConn, r.ttl) /\ r.ttl \in [Commands -> Int]
  BY DEF IsReplaced, release_connection, Client
<1>2. Near(r, r2, n) /\ r2.conns[n] = NoConn
  BY <1>1, Conns, Replaced
<1> QED  BY <1>2, Conns, NearClear DEF Near

\* What is sent on a connection is gone when it breaks, and the next node is
\* asked for the slots if the request was there.
LEMMA BreakKeeps ==
  ASSUME NEW r, Good(r), SlotsAt(r), NEW n \in Nodes, NEW q, q = r.conns[n].queue,
         NEW x, x = release_connection(Break(r, q), n)
  PROVE  /\ Good(x) /\ SlotsAt(x)
         /\ \A v \in Commands : Holds(x, v) <=> \E l \in Lane \ {n} : At(Lanes(r), l, v)
<1> DEFINE L == Lanes(r)
<1>1. r \in Client /\ Apart(L) /\ q \in Seq(Cmd) /\ L[n] = KeysOf(q) /\ n \in Lane
  BY LanesAre DEF Good
<1>2. Len(L[n]) = Len(q) /\ \A k \in 1 .. Len(q) : L[n][k] = q[k].of /\ q[k] \in Cmd
  BY <1>1, KeysAre
<1>3. \A k \in 1 .. Len(q) : q[k].type = "slots" <=> L[n][k] = NoNode
  BY <1>2, NodeNames DEF Cmd, SlotsCmd
<1>4. \A j, k \in 1 .. Len(q) : q[j].type = "slots" /\ q[k].type = "slots" => j = k
  <2> SUFFICES ASSUME NEW j \in 1 .. Len(q), NEW k \in 1 .. Len(q), q[j].type = "slots", q[k].type = "slots"
               PROVE  j = k
    OBVIOUS
  <2> HIDE DEF L
  <2>1. L[n][j] = L[n][k] /\ j \in 1 .. Len(L[n]) /\ k \in 1 .. Len(L[n])
    BY <1>2, <1>3
  <2> QED  BY <1>1, <2>1, OnePlace
<1>5. HasSlots(q) <=> AskedAt(r, n)
  BY <1>2, <1>3 DEF HasSlots, AskedAt, At
<1>6. Break(r, q) = IF HasSlots(q) THEN SlotsFailed(r) ELSE r
  BY <1>1, <1>4, BreakIs
<1>7. \A l \in Lane : At(L, l, NoNode) => l \in Nodes /\ AskedAt(r, l)
  BY <1>1, LanesAre DEF AskedAt, Lane
<1> HIDE DEF L
\* The lanes are those of r without n, with or without a new request.
<1> DEFINE Asks(m) == /\ Apart(Lanes(x)) /\ x \in Client
                      /\ \A l \in Lane : \A y : At(Lanes(x), l, y) <=> (At(L, l, y) /\ l # n) \/ (l = m /\ y = NoNode)
           AsksNot == /\ Apart(Lanes(x)) /\ x \in Client
                      /\ \A l \in Lane : \A y : At(Lanes(x), l, y) <=> At(L, l, y) /\ l # n
<1>8. \/ AsksNot /\ SlotsAt(x)
      \/ \E m \in Nodes : Asks(m) /\ SlotsAt(x)
  <2>1. CASE ~HasSlots(q)
    <3>1. x = release_connection(r, n)
      BY <1>6, <2>1
    <3>2. IsClear(L, Lanes(x), n) /\ x \in Client /\ x.state = r.state /\ x.nodes = r.nodes
      BY <1>1, <3>1, Released DEF L
    <3>3. AsksNot
      BY <1>1, <3>2, ClearAt
    <3>4. \A m \in Nodes : AskedAt(x, m) <=> AskedAt(r, m)
      BY <1>5, <2>1, <3>3 DEF AskedAt, Lane, L
    <3>5. SlotsAt(x)
      BY <3>2, <3>4 DEF SlotsAt
    <3> QED  BY <3>3, <3>5
  <2>2. CASE HasSlots(q)
    <3>1. /\ r.state = "updating" /\ n = Min(r.nodes) /\ r.nodes # {}
          /\ \A l \in Lane : At(L, l, NoNode) => l = n
      BY <1>5, <1>7, <2>2 DEF SlotsAt
    <3>2. PICK p \in Client : /\ p.nodes = r.nodes \ {Min(r.nodes)} /\ p.state = "invalid"
                              /\ Lanes(p) = L /\ SlotsFailed(r) = reload_slot_cache(p)
      BY <1>1, SlotsFailedIs DEF L
    <3> DEFINE b == SlotsFailed(r)
    <3>3. b = reload_slot_cache(p) /\ p.state # "updating" /\ x = release_connection(b, n)
      BY <1>6, <2>2, <3>2
    <3> HIDE DEF b
    <3>4. /\ b \in Client /\ b.nodes = p.nodes
          /\ \/ b.state = p.state /\ Lanes(b) = Lanes(p)
             \/ /\ b.state = "updating" /\ p.nodes # {} /\ Min(p.nodes) \in Nodes
                /\ IsPut(Lanes(p), Lanes(b), Min(p.nodes), NoNode)
      BY <3>3, ReloadIs
    <3>5. IsClear(Lanes(b), Lanes(x), n) /\ x \in Client /\ x.state = b.state /\ x.nodes = b.nodes
      BY <3>3, <3>4, Released
    <3>6. CASE b.state = p.state /\ Lanes(b) = Lanes(p)
      <4>1. IsClear(L, Lanes(x), n) /\ x.state = "invalid"
        BY <3>2, <3>5, <3>6
      <4>2. AsksNot
        BY <1>1, <3>5, <4>1, ClearAt
      <4>3. \A m \in Nodes : ~AskedAt(x, m)
        BY <3>1, <4>2 DEF AskedAt, Lane
      <4>4. SlotsAt(x)
        BY <4>1, <4>3 DEF SlotsAt
      <4> QED  BY <4>2, <4>4
    <3>7. CASE /\ b.state = "updating" /\ p.nodes # {} /\ Min(p.nodes) \in Nodes
               /\ IsPut(Lanes(p), Lanes(b), Min(p.nodes), NoNode)
      <4> DEFINE m == Min(p.nodes)
      <4>1. m \in p.nodes /\ m \in Nodes
        BY <3>7, FirstNode
      <4>2. m # n /\ m \in Lane /\ NoNode \in Key
        BY <3>1, <3>2, <4>1 DEF Lane, Key
      <4>3. IsPut(L, Lanes(b), m, NoNode)
        BY <3>2, <3>7
      <4>4. x.state = "updating" /\ x.nodes # {} /\ Min(x.nodes) = m
        BY <3>4, <3>5, <3>7
      <4> HIDE DEF m
      <4>5. Asks(m)
        BY <1>1, <3>1, <3>5, <4>2, <4>3, PutAndClear
      <4>6. \A k \in Nodes : AskedAt(x, k) <=> k = m
        BY <3>1, <4>2, <4>5 DEF AskedAt, Lane
      <4>7. SlotsAt(x)
        BY <4>4, <4>6 DEF SlotsAt
      <4> QED  BY <4>1, <4>5, <4>7
    <3> QED  BY <3>4, <3>6, <3>7
  <2> QED  BY <2>1, <2>2
<1>9. Good(x) /\ SlotsAt(x)
  BY <1>8 DEF Good
<1>10. \A v \in Commands : Holds(x, v) <=> \E l \in Lane \ {n} : At(L, l, v)
  BY <1>8, NodeNames DEF Holds
<1> QED  BY <1>9, <1>10 DEF L

LEMMA DisconnectedStep ==
  ASSUME Fine(cluster, fate), NEW n \in Nodes, on_disconnected(n)
  PROVE  Fine(cluster', fate') /\ UNCHANGED phase
<1> DEFINE q == cluster.conns[n].queue
           c == [cluster.conns[n] EXCEPT !.closing = TRUE]
           r == [cluster EXCEPT !.conns[n].closing = TRUE]
           Gone(u) == UserCmd(u) \in ToSet(q) \/ AskCmd(u) \in ToSet(q)
<1>1. /\ cluster' = release_connection(Break(r, q), n) /\ UNCHANGED phase
      /\ fate' = [u \in Commands |-> CASE UserCmd(u) \in ToSet(q) -> "answered"
                                       [] AskCmd(u) \in ToSet(q) -> "lost"
                                       [] OTHER -> fate[u]]
  BY DEF on_disconnected
<1>2. cluster \in Client /\ Good(cluster) /\ SlotsAt(cluster) /\ Agrees(cluster, fate) /\ fate \in [Commands -> Fates]
  BY DEF Fine, Good
<1>3. /\ cluster.conns[n] \in Conn /\ q \in Seq(Cmd) /\ Lanes(cluster)[n] = KeysOf(q) /\ n \in Lane
      /\ cluster.ttl \in [Commands -> Int]
  BY <1>2, LanesAre DEF Client
<1>4. Alike(cluster, r) /\ r.conns[n].queue = q
  <2>1. c \in Conn /\ c.queue = q
    BY <1>3 DEF Conn
  <2>2. IsReplaced(cluster, r, n, c, cluster.ttl)
    BY <1>2 DEF IsReplaced, Client
  <2> HIDE DEF c, r
  <2>3. Near(cluster, r, n) /\ r.conns[n] = c
    BY <1>2, <1>3, <2>1, <2>2, Replaced
  <2>4. Lanes(r) = Lanes(cluster)
    BY <2>1, <2>3, NearSame
  <2> QED  BY <2>1, <2>3, <2>4 DEF Alike, Near
<1> HIDE DEF c, r
<1>5. Good(r) /\ SlotsAt(r) /\ Lanes(r) = Lanes(cluster)
  BY <1>2, <1>4, AlikeKeeps DEF Alike
<1> DEFINE x == release_connection(Break(r, q), n)
<1>6. /\ Good(x) /\ SlotsAt(x)
      /\ \A v \in Commands : Holds(x, v) <=> \E l \in Lane \ {n} : At(Lanes(r), l, v)
  <2> HIDE DEF x
  <2>1. x = release_connection(Break(r, q), n) /\ q = r.conns[n].queue
    BY <1>4 DEF x
  <2> HIDE DEF q
  <2> QED  BY <1>5, <2>1, BreakKeeps
<1> HIDE DEF x
<1>7. \A v \in Commands : Gone(v) <=> At(Lanes(cluster), n, v)
  <2>1. /\ Len(KeysOf(q)) = Len(q) /\ Len(q) \in Nat
        /\ \A k \in 1 .. Len(q) : KeysOf(q)[k] = q[k].of /\ q[k] \in Cmd
    BY <1>3, KeysAre
  <2>2. \A v \in Commands : \A k \in 1 .. Len(q) : q[k] \in {UserCmd(v), AskCmd(v)} <=> q[k].of = v
    BY <2>1, NodeNames DEF Cmd, SlotsCmd, UserCmd, AskCmd
  <2>3. \A v \in Commands : Gone(v) <=> \E k \in 1 .. Len(q) : q[k] \in {UserCmd(v), AskCmd(v)}
    BY <1>3 DEF ToSet
  <2> HIDE DEF q, Gone
  <2> QED  BY <1>3, <2>1, <2>2, <2>3 DEF At
<1>8. \A v \in Commands : At(Lanes(cluster), n, v) => \A l \in Lane \ {n} : ~At(Lanes(cluster), l, v)
  BY <1>2, <1>3 DEF Good, Apart, At
<1>9. /\ fate' \in [Commands -> Fates]
      /\ \A v \in Commands : /\ Gone(v) => fate'[v] # "accepted"
                             /\ ~Gone(v) => fate'[v] = fate[v]
  BY <1>1, <1>2 DEF Fates
<1> HIDE DEF Gone
<1>10. ASSUME NEW v \in Commands PROVE Holds(x, v) <=> fate'[v] = "accepted"
  <2>1. Holds(cluster, v) <=> fate[v] = "accepted"
    BY <1>2 DEF Agrees
  <2>2. Holds(x, v) <=> Holds(cluster, v) /\ ~At(Lanes(cluster), n, v)
    BY <1>3, <1>5, <1>6, <1>8 DEF Holds
  <2> QED  BY <1>7, <1>9, <2>1, <2>2
<1>11. Fine(x, fate')
  BY <1>6, <1>9, <1>10 DEF Fine, Agrees
<1> QED  BY <1>1, <1>11 DEF x

LEMMA ConnectedStep ==
  ASSUME Fine(cluster, fate), NEW n \in Nodes, on_connected(n)
  PROVE  Fine(cluster', fate') /\ UNCHANGED phase
<1> DEFINE c == [cluster.conns[n] EXCEPT !.state = "connected", !.ctx = "open"]
<1>1. cluster \in Client
  BY DEF Fine, Good
<1>2. cluster.conns[n] \in Conn /\ cluster.ttl \in [Commands -> Int]
  BY <1>1 DEF Client
<1>3. c \in Conn /\ c.queue = cluster.conns[n].queue
  BY <1>2 DEF Conn
<1>4. IsReplaced(cluster, cluster', n, c, cluster.ttl)
  BY <1>1 DEF IsReplaced, Client, on_connected
<1> HIDE DEF c
<1>5. Near(cluster, cluster', n) /\ cluster'.conns[n] = c
  BY <1>1, <1>2, <1>3, <1>4, Replaced
<1>6. Lanes(cluster') = Lanes(cluster)
  BY <1>3, <1>5, NearSame
<1>7. Alike(cluster, cluster')
  BY <1>5, <1>6 DEF Alike, Near
<1>8. Fine(cluster', fate)
  BY <1>7, AlikeFine
<1> QED  BY <1>8 DEF on_connected

LEMMA ConnectErrorStep ==
  ASSUME Fine(cluster, fate), NEW n \in Nodes, on_connect_error(n)
  PROVE  /\ fate' = fate /\ phase' \in {phase, "ended"}
         /\ phase' # "ended" => Fine(cluster', fate')
<1>1. /\ fate' = fate /\ phase' = IF cluster.conns[n].queue = <<>> THEN phase ELSE "ended"
      /\ cluster' = release_connection(cluster, n)
  BY DEF on_connect_error
<1>2. ASSUME cluster.conns[n].queue = <<>> PROVE Fine(cluster', fate')
  <2>1. cluster \in Client
    BY DEF Fine, Good
  <2>2. IsReplaced(cluster, cluster', n, NoConn, cluster.ttl) /\ cluster.ttl \in [Commands -> Int]
    BY <1>1, <2>1 DEF IsReplaced, release_connection, Client
  <2>3. Near(cluster, cluster', n) /\ cluster'.conns[n] = NoConn
    BY <2>1, <2>2, Conns, Replaced
  <2>4. Lanes(cluster') = Lanes(cluster)
    BY <1>2, <2>3, Conns, NearSame
  <2>5. Alike(cluster, cluster')
    BY <2>3, <2>4 DEF Alike, Near
  <2>6. Fine(cluster', fate)
    BY <2>5, AlikeFine
  <2> QED  BY <1>1, <2>6
<1> QED  BY <1>1, <1>2

LEMMA StopStep ==
  ASSUME Fine(cluster, fate), stop
  PROVE  Fine(cluster', fate') /\ phase' = "stopped"
<1> DEFINE C == [n \in Nodes |-> Close(cluster.conns[n])]
<1>1. cluster \in Client
  BY DEF Fine, Good
<1>2. \A c \in Conn : Close(c) \in Conn /\ Close(c).queue = c.queue
  <2> SUFFICES ASSUME NEW c \in Conn PROVE Close(c) \in Conn /\ Close(c).queue = c.queue
    OBVIOUS
  <2>1. CASE c.state \in {"none", "disconnecting"}
    BY <2>1 DEF Close
  <2>2. CASE c.state \notin {"none", "disconnecting"} /\ c.queue # <<>>
    BY <2>2 DEF Close, Conn
  <2>3. CASE c.state \notin {"none", "disconnecting"} /\ c.queue = <<>> /\ c.ctx = "open"
    BY <2>3, Conns DEF Close
  <2>4. CASE c.state \notin {"none", "disconnecting"} /\ c.queue = <<>> /\ c.ctx # "open"
    BY <2>4 DEF Close, Conn
  <2> QED  BY <2>1, <2>2, <2>3, <2>4
<1>3. C \in [Nodes -> Conn] /\ \A n \in Nodes : C[n].queue = cluster.conns[n].queue
  BY <1>1, <1>2 DEF Client
<1>4. cluster' = [cluster EXCEPT !.conns = C] /\ phase' = "stopped" /\ fate' = fate
  BY DEF stop
<1> HIDE DEF C
<1>5. /\ cluster' \in Client /\ cluster'.conns = C /\ cluster'.pending = cluster.pending
      /\ cluster'.state = cluster.state /\ cluster'.nodes = cluster.nodes
  BY <1>1, <1>3, <1>4 DEF Client
<1>6. Lanes(cluster') = Lanes(cluster)
  <2>1. \A l \in Lane : Lanes(cluster')[l] = Lanes(cluster)[l]
    BY <1>1, <1>3, <1>5, LanesAre DEF Lane
  <2>2. Lanes(cluster') \in [Lane -> Seq(Key)] /\ Lanes(cluster) \in [Lane -> Seq(Key)]
    BY <1>1, <1>5, LanesAre DEF Keyed
  <2> QED  BY <2>1, <2>2
<1>7. Alike(cluster, cluster')
  BY <1>5, <1>6 DEF Alike
<1>8. Fine(cluster', fate)
  BY <1>7, AlikeFine
<1> QED  BY <1>4, <1>8

\* The invariant is inductive.
LEMMA InitFine == Init => IInv
<1> SUFFICES ASSUME Init PROVE IInv
  OBVIOUS
<1>1. cluster = [state |-> "invalid", nodes |-> Hosts, slots |-> [s \in Slots |-> NoNode],
                 conns |-> [n \in Nodes |-> NoConn], pending |-> <<>>,
                 ttl |-> [u \in Commands |-> MAX_REQUEST_TTL]]
  BY DEF Init
<1>2. fate = [u \in Commands |-> "new"] /\ phase = "running"
  BY DEF Init
<1>3. cluster \in Client
  <2>1. Hosts \in SUBSET Nodes /\ [u \in Commands |-> MAX_REQUEST_TTL] \in [Commands -> Int]
    BY RedisAssumption
  <2>2. [n \in Nodes |-> NoConn] \in [Nodes -> Conn] /\ <<>> \in Seq(Commands)
    BY Conns
  <2>3. [s \in Slots |-> NoNode] \in [Slots -> Nodes \cup {NoNode}]
    OBVIOUS
  <2> QED  BY <1>1, <2>1, <2>2, <2>3 DEF Client
<1>4. cluster.pending = <<>> /\ cluster.state = "invalid" /\ \A n \in Nodes : cluster.conns[n].queue = <<>>
  BY <1>1, Conns
<1>5. \A l \in Lane : Lanes(cluster)[l] = <<>>
  <2>1. Lanes(cluster)[NoNode] = <<>>
    BY <1>3, <1>4, LanesAre
  <2>2. ASSUME NEW n \in Nodes PROVE Lanes(cluster)[n] = <<>>
    <3>1. Lanes(cluster)[n] = KeysOf(cluster.conns[n].queue) /\ cluster.conns[n].queue \in Seq(Cmd)
      BY <1>3, LanesAre
    <3> QED  BY <1>4, <3>1, KeysAre
  <2> QED  BY <2>1, <2>2 DEF Lane
<1>6. Apart(Lanes(cluster)) /\ \A l \in Lane : \A y : ~At(Lanes(cluster), l, y)
  BY <1>5 DEF Apart, At
<1>7. Good(cluster) /\ SlotsAt(cluster)
  BY <1>3, <1>4, <1>6 DEF Good, SlotsAt, AskedAt, Lane
<1>8. fate \in [Commands -> Fates] /\ Agrees(cluster, fate)
  BY <1>2, <1>6 DEF Fates, Agrees, Holds
<1> QED  BY <1>2, <1>7, <1>8 DEF IInv

LEMMA NextFine == IInv /\ [Next]_vars => IInv'
<1> SUFFICES ASSUME IInv, [Next]_vars PROVE IInv'
  OBVIOUS
<1>1. CASE UNCHANGED vars
  BY <1>1 DEF IInv, vars
<1>2. CASE Next
  <2>1. Fine(cluster, fate) /\ phase \in {"running", "stopped"}
    BY <1>2 DEF Next, IInv, Fine
  <2>2. ASSUME Fine(cluster', fate'), phase' \in {"running", "stopped"} PROVE IInv'
    BY <2>2 DEF IInv, Fine
  <2>3. ASSUME NEW u \in Commands, exec(u) PROVE IInv'
    <3>1. Fine(cluster', fate') /\ phase' = phase
      BY <2>1, <2>3, ExecStep DEF exec
    <3> QED  BY <2>1, <2>2, <3>1
  <2>4. CASE stop
    BY <2>1, <2>2, <2>4, StopStep
  <2>5. ASSUME NEW n \in Nodes, on_connect_error(n) PROVE IInv'
    <3>1. /\ fate' = fate /\ phase' \in {phase, "ended"}
          /\ phase' # "ended" => Fine(cluster', fate')
      BY <2>1, <2>5, ConnectErrorStep
    <3>2. fate \in [Commands -> Fates]
      BY <2>1 DEF Fine
    <3> QED  BY <2>1, <3>1, <3>2 DEF IInv, Fine
  <2>6. ASSUME NEW n \in Nodes, on_reply(n) PROVE IInv'
    BY <2>1, <2>2, <2>6, ReplyStep
  <2>7. ASSUME NEW n \in Nodes, NEW to \in Nodes, NEW moved \in BOOLEAN, on_redirect(n, to, moved) PROVE IInv'
    BY <2>1, <2>2, <2>7, RedirectStep
  <2>8. ASSUME NEW n \in Nodes, NEW b \in BOOLEAN, on_bad_redirect(n, b) PROVE IInv'
    BY <2>1, <2>2, <2>8, BadRedirectStep
  <2>9. ASSUME NEW n \in Nodes, NEW b \in BOOLEAN, on_ask_reply(n, b) PROVE IInv'
    BY <2>1, <2>2, <2>9, AskReplyStep
  <2>10. ASSUME NEW n \in Nodes, on_cluster_slot_reply(n) PROVE IInv'
    BY <2>1, <2>2, <2>10, SlotReplyStep
  <2>11. ASSUME NEW n \in Nodes, on_connected(n) PROVE IInv'
    BY <2>1, <2>2, <2>11, ConnectedStep
  <2>12. ASSUME NEW n \in Nodes, on_disconnected(n) PROVE IInv'
    BY <2>1, <2>2, <2>12, DisconnectedStep
  <2> QED  BY <1>2, <2>3, <2>4, <2>5, <2>6, <2>7, <2>8, <2>9, <2>10, <2>11, <2>12, Zenon DEF Next, Callback
<1> QED  BY <1>1, <1>2

\* The invariant: a command the client has accepted, and nothing else, is held,
\* in one place of one lane; CLUSTER SLOTS is under way at the first node
\* exactly while the state is "updating".
THEOREM Invariance == Spec => []IInv
BY InitFine, NextFine, PTL DEF Spec

\* Where a key is, and where Places() says.
LEMMA PlacesAre ==
  ASSUME NEW u \in Commands, cluster \in Client
  PROVE  Places(u) = {p \in {<<l, k>> : l \in Lane, k \in Nat} :
                        p[2] \in 1 .. Len(Lanes(cluster)[p[1]]) /\ Lanes(cluster)[p[1]][p[2]] = u}
<1> DEFINE L == Lanes(cluster)
           P == {<<NoNode, k>> : k \in {j \in DOMAIN cluster.pending : cluster.pending[j] = u}}
           Q(n) == {<<n, k>> : k \in {j \in DOMAIN cluster.conns[n].queue :
                                        cluster.conns[n].queue[j] \in {UserCmd(u), AskCmd(u)}}}
           E(l) == {<<l, k>> : k \in {j \in 1 .. Len(L[l]) : L[l][j] = u}}
<1>1. Places(u) = P \cup UNION {Q(n) : n \in Nodes}
  BY DEF Places
<1>2. P = E(NoNode)
  BY LanesAre
<1>3. ASSUME NEW n \in Nodes PROVE Q(n) = E(n)
  <2> DEFINE q == cluster.conns[n].queue
  <2>1. q \in Seq(Cmd) /\ L[n] = KeysOf(q)
    BY LanesAre
  <2>2. /\ Len(KeysOf(q)) = Len(q) /\ Len(q) \in Nat /\ DOMAIN q = 1 .. Len(q)
        /\ \A k \in 1 .. Len(q) : KeysOf(q)[k] = q[k].of /\ q[k] \in Cmd
    BY <2>1, KeysAre
  <2>3. \A k \in 1 .. Len(q) : q[k] \in {UserCmd(u), AskCmd(u)} <=> q[k].of = u
    BY <2>2, NodeNames DEF Cmd, SlotsCmd, UserCmd, AskCmd
  <2>4. {j \in DOMAIN q : q[j] \in {UserCmd(u), AskCmd(u)}} = {j \in 1 .. Len(L[n]) : L[n][j] = u}
    <3> HIDE DEF L, q
    <3> QED  BY <2>1, <2>2, <2>3
  <2> QED  BY <2>4, Zenon
<1>4. Places(u) = UNION {E(l) : l \in Lane}
  <2>1. UNION {Q(n) : n \in Nodes} = UNION {E(n) : n \in Nodes}
    <3> HIDE DEF Q, E
    <3> QED  BY <1>3, Zenon
  <2> HIDE DEF P, Q, E
  <2> QED  BY <1>1, <1>2, <2>1 DEF Lane
<1>5. L \in [Lane -> Seq(Key)]
  BY LanesAre DEF Keyed
<1> HIDE DEF L
<1>6. \A l \in Lane : Len(L[l]) \in Nat
  BY <1>5
<1>7. UNION {E(l) : l \in Lane} =
        {p \in {<<l, k>> : l \in Lane, k \in Nat} : p[2] \in 1 .. Len(L[p[1]]) /\ L[p[1]][p[2]] = u}
  BY <1>6
<1> QED  BY <1>4, <1>7 DEF L

\* What the invariant says, counted.
LEMMA HeldOnceHolds == IInv => HeldOnce
<1> SUFFICES ASSUME IInv, phase # "ended", NEW u \in Commands
             PROVE  Cardinality(Places(u)) = IF fate[u] = "accepted" THEN 1 ELSE 0
  BY DEF HeldOnce
<1> DEFINE L == Lanes(cluster)
<1>1. cluster \in Client /\ Apart(L) /\ (Holds(cluster, u) <=> fate[u] = "accepted")
  BY DEF IInv, Good, Agrees
<1>2. Places(u) = {p \in {<<l, k>> : l \in Lane, k \in Nat} :
                     p[2] \in 1 .. Len(L[p[1]]) /\ L[p[1]][p[2]] = u}
  BY <1>1, PlacesAre
<1>3. Holds(cluster, u) <=> \E l \in Lane : \E k \in 1 .. Len(L[l]) : L[l][k] = u
  BY DEF Holds, At
<1>4. \A l \in Lane : Len(L[l]) \in Nat
  BY <1>1, LanesAre DEF Keyed
<1> HIDE DEF L
<1>5. CASE Holds(cluster, u)
  <2>0. PICK l \in Lane : \E k \in 1 .. Len(L[l]) : L[l][k] = u
    BY <1>3, <1>5
  <2>1. PICK k \in 1 .. Len(L[l]) : L[l][k] = u
    BY <2>0
  <2>2. Places(u) = {<<l, k>>}
    <3>1. ASSUME NEW p \in Places(u) PROVE p = <<l, k>>
      <4>1. PICK m \in Lane, j \in Nat : p = <<m, j>> /\ j \in 1 .. Len(L[m]) /\ L[m][j] = u
        BY <1>2
      <4>2. m = l /\ j = k
        BY <1>1, <2>1, <4>1, OnePlace
      <4> QED  BY <4>1, <4>2
    <3>2. <<l, k>> \in Places(u)
      BY <1>2, <1>4, <2>1
    <3> QED  BY <3>1, <3>2
  <2> QED  BY <1>1, <1>5, <2>2, FS_Singleton
<1>6. CASE ~Holds(cluster, u)
  <2>1. Places(u) = {}
    <3> SUFFICES ASSUME NEW p \in Places(u) PROVE FALSE
      OBVIOUS
    <3>1. PICK m \in Lane, j \in Nat : j \in 1 .. Len(L[m]) /\ L[m][j] = u
      BY <1>2
    <3> QED  BY <1>3, <1>6, <3>1
  <2> QED  BY <1>1, <1>6, <2>1, FS_EmptySet
<1> QED  BY <1>5, <1>6

LEMMA OneSlotsRequestHolds == IInv => OneSlotsRequest
<1> SUFFICES ASSUME IInv, phase # "ended" PROVE OneSlotsRequest
  BY DEF OneSlotsRequest
<1> DEFINE L == Lanes(cluster)
           q(n) == cluster.conns[n].queue
           where == {n \in Nodes : SlotsCmd \in ToSet(q(n))}
           spots(n) == {k \in DOMAIN q(n) : q(n)[k] = SlotsCmd}
<1>1. cluster \in Client /\ Apart(L) /\ SlotsAt(cluster)
  BY DEF IInv, Good
<1>2. ASSUME NEW n \in Nodes
      PROVE  /\ n \in Lane /\ DOMAIN q(n) = 1 .. Len(q(n)) /\ Len(L[n]) = Len(q(n))
             /\ \A k \in 1 .. Len(q(n)) : q(n)[k] = SlotsCmd <=> L[n][k] = NoNode
  <2>1. q(n) \in Seq(Cmd) /\ L[n] = KeysOf(q(n)) /\ n \in Lane
    BY <1>1, LanesAre
  <2>2. Len(L[n]) = Len(q(n)) /\ \A k \in 1 .. Len(q(n)) : L[n][k] = q(n)[k].of /\ q(n)[k] \in Cmd
    BY <2>1, KeysAre
  <2>3. \A c \in Cmd : c = SlotsCmd <=> c.of = NoNode
    BY NodeNames DEF Cmd, SlotsCmd
  <2>4. DOMAIN q(n) = 1 .. Len(q(n))
    BY <2>1
  <2> HIDE DEF L, q
  <2> QED  BY <2>1, <2>2, <2>3, <2>4
<1>3. ASSUME NEW n \in Nodes PROVE SlotsCmd \in ToSet(q(n)) <=> AskedAt(cluster, n)
  <2> HIDE DEF q
  <2> QED  BY <1>2 DEF ToSet, AskedAt, At
<1>4. where = IF cluster.state = "updating" THEN {Min(cluster.nodes)} ELSE {}
  <2>1. ASSUME cluster.state = "updating" PROVE Min(cluster.nodes) \in Nodes
    BY <1>1, <2>1, FirstNode DEF SlotsAt
  <2>2. \A n \in Nodes : n \in where <=> cluster.state = "updating" /\ n = Min(cluster.nodes)
    BY <1>1, <1>3 DEF SlotsAt
  <2> HIDE DEF q
  <2> QED  BY <2>1, <2>2
<1>5. ASSUME NEW n \in where PROVE Cardinality(spots(n)) = 1
  <2>1. n \in Nodes /\ AskedAt(cluster, n)
    BY <1>3
  <2>2. PICK k \in 1 .. Len(L[n]) : L[n][k] = NoNode
    BY <2>1 DEF AskedAt, At
  <2> HIDE DEF L, q
  <2>3. spots(n) = {k}
    <3>1. k \in spots(n)
      BY <1>2, <2>1, <2>2
    <3>2. ASSUME NEW j \in spots(n) PROVE j = k
      <4>1. j \in 1 .. Len(L[n]) /\ L[n][j] = NoNode /\ n \in Lane
        BY <1>2, <2>1
      <4> QED  BY <1>1, <2>2, <4>1, OnePlace
    <3> QED  BY <3>1, <3>2
  <2> HIDE DEF spots
  <2> QED  BY <2>3, FS_Singleton
<1> QED  BY <1>4, <1>5, Zenon DEF OneSlotsRequest

\* Whatever is redirected, refused, broken or stopped and in whatever order, a
\* command that was accepted waits, is sent or is kept behind ASKING, in one
\* place, until it is answered or lost.
THEOREM CommandsHeldOnce == Spec => []HeldOnce
BY Invariance, HeldOnceHolds, PTL

\* There is one CLUSTER SLOTS request while slots are being updated, at the
\* first node, and none otherwise: redirections, broken connections and nodes
\* that cannot be asked never make a second one or lose track of it.
THEOREM SlotsAskedOnce == Spec => []OneSlotsRequest
BY Invariance, OneSlotsRequestHolds, PTL
------------------------------------------------------------------------------
(* The HTTP client *)

\* handle_socket() with CURL_POLL_REMOVE: the sockets lose their contexts.
LEMMA SocketsRemoved ==
  ASSUME HttpConstants, Http!SocketsAgree, NEW fs \in SUBSET Fds, Http!RemoveSockets(fs)
  PROVE  /\ Http!SocketsAgree' /\ Http!Polled' = Http!Polled \ fs
         /\ \A f \in Fds \ fs : owner'[f] = owner[f]
         /\ \A f \in fs : owner'[f] = Http!None
         /\ \A x \in Contexts : poll[x] # "free" => poll'[x] # "free"
<1> DEFINE dropped == {socketp[f] : f \in fs} \ {Http!None}
<1>0. /\ owner \in [Fds -> Handles \cup {Http!None}] /\ socketp \in [Fds -> Contexts \cup {Http!None}]
      /\ poll \in [Contexts -> {"free", "polling", "closing"}]
      /\ \A f \in Fds : owner[f] = Http!None <=> socketp[f] = Http!None
      /\ \A f \in Http!Polled, g \in Http!Polled : socketp[f] = socketp[g] => f = g
      /\ contexts = {socketp[f] : f \in Http!Polled} /\ contexts = {x \in Contexts : poll[x] = "polling"}
  BY DEF Http!SocketsAgree
<1>1. /\ owner' = [f \in Fds |-> IF f \in fs THEN Http!None ELSE owner[f]]
      /\ socketp' = [f \in Fds |-> IF f \in fs THEN Http!None ELSE socketp[f]]
      /\ contexts' = contexts \ dropped
      /\ poll' = [x \in Contexts |-> IF x \in dropped THEN "closing" ELSE poll[x]]
  BY DEF Http!RemoveSockets
<1>2. Http!Polled' = Http!Polled \ fs
  BY <1>1 DEF Http!Polled
<1>3. \A f \in Fds \ fs : owner'[f] = owner[f] /\ socketp'[f] = socketp[f]
  BY <1>1
<1>4. \A f \in fs : owner'[f] = Http!None /\ socketp'[f] = Http!None
  BY <1>1
<1>5. /\ owner' \in [Fds -> Handles \cup {Http!None}] /\ socketp' \in [Fds -> Contexts \cup {Http!None}]
      /\ poll' \in [Contexts -> {"free", "polling", "closing"}]
  <2> HIDE DEF dropped
  <2> QED  BY <1>0, <1>1
<1>6. \A f \in Fds : owner'[f] = Http!None <=> socketp'[f] = Http!None
  BY <1>0, <1>3, <1>4
<1>7. \A f \in Http!Polled', g \in Http!Polled' : socketp'[f] = socketp'[g] => f = g
  BY <1>0, <1>2, <1>3 DEF Http!Polled
<1>8. contexts' = {socketp'[f] : f \in Http!Polled'}
  <2>1. ASSUME NEW x \in contexts' PROVE \E f \in Http!Polled' : socketp'[f] = x
    <3>1. x \in contexts /\ x \notin dropped
      BY <1>1
    <3>2. PICK f \in Http!Polled : socketp[f] = x
      BY <1>0, <3>1
    <3>3. f \in Fds /\ x # Http!None
      BY <1>0, <3>2 DEF Http!Polled
    <3>4. f \notin fs
      BY <3>1, <3>2, <3>3
    <3> QED  BY <1>2, <1>3, <3>2, <3>3, <3>4
  <2>2. ASSUME NEW f \in Http!Polled' PROVE socketp'[f] \in contexts'
    <3>1. f \in Http!Polled /\ f \notin fs /\ f \in Fds /\ socketp'[f] = socketp[f]
      BY <1>2, <1>3 DEF Http!Polled
    <3>2. socketp[f] \in contexts
      BY <1>0, <3>1
    <3>3. socketp[f] \notin dropped
      <4> SUFFICES ASSUME NEW g \in fs, socketp[g] = socketp[f], socketp[f] # Http!None PROVE FALSE
        OBVIOUS
      <4>1. g \in Http!Polled
        BY <1>0 DEF Http!Polled
      <4> QED  BY <1>0, <3>1, <4>1
    <3> QED  BY <1>1, <3>1, <3>2, <3>3
  <2> QED  BY <2>1, <2>2
<1>9. contexts' = {x \in Contexts : poll'[x] = "polling"}
  <2> HIDE DEF dropped
  <2> QED  BY <1>0, <1>1
<1>10. \A x \in Contexts : poll[x] # "free" => poll'[x] # "free"
  <2> HIDE DEF dropped
  <2> QED  BY <1>0, <1>1
<1>11. Http!SocketsAgree'
  BY <1>5, <1>6, <1>7, <1>8, <1>9 DEF Http!SocketsAgree, Http!None
<1> QED  BY <1>2, <1>3, <1>4, <1>10, <1>11

\* What a step that leaves the sockets alone keeps of them
LEMMA SocketsAlone ==
  ASSUME Http!SocketsAgree, UNCHANGED <<owner, socketp, contexts, poll>>
  PROVE  Http!SocketsAgree' /\ Http!Polled' = Http!Polled
<1>1. Http!Polled' = Http!Polled
  BY DEF Http!Polled
<1> QED  BY <1>1 DEF Http!SocketsAgree, Http!None

LEMMA RequestKeeps ==
  ASSUME HttpConstants, Http!IInv, NEW h \in Handles, Http!Request(h)
  PROVE  Http!IInv'
<1>1. /\ at \in {"loop"} \cup Handles /\ transfer[h] = "free" /\ transfer' = [transfer EXCEPT ![h] = "running"]
      /\ rsp_body' = [rsp_body EXCEPT ![h] = 0] /\ got' = [got EXCEPT ![h] = 0] /\ calls' = [calls EXCEPT ![h] = 0]
      /\ asked' = TRUE /\ armed' = TRUE
      /\ restFailed' = (restFailed \/ ~(h \notin handles)) /\ handles' = handles \cup {h}
      /\ UNCHANGED <<owner, socketp, contexts, poll, at, event>>
  BY DEF Http!Request, Http!create_handle, Http!Asserts
<1>2. Http!SocketsAgree' /\ Http!Polled' = Http!Polled
  BY <1>1, SocketsAlone DEF Http!IInv
<1>3. Http!RequestsAgree'
  BY <1>1 DEF Http!IInv, Http!RequestsAgree, HttpConstants
<1>4. restFailed' = FALSE
  <2>1. h \notin handles /\ restFailed = FALSE
    BY <1>1 DEF Http!IInv, Http!RequestsAgree
  <2> QED  BY <1>1, <2>1, Zenon
<1>5. Http!Awaited'
  <2>1. \A f \in Http!Polled : transfer'[owner[f]] # "free"
    BY <1>1 DEF Http!IInv, Http!Awaited, Http!RequestsAgree
  <2> QED  BY <1>1, <1>2, <2>1 DEF Http!IInv, Http!Awaited, Http!None
<1> QED  BY <1>1, <1>2, <1>3, <1>4, <1>5 DEF Http!IInv

\* A transfer goes from one stage to the next, between the loop and its
\* callback.
LEMMA StageKeeps ==
  ASSUME HttpConstants, Http!IInv, NEW h \in Handles,
         Http!TransferEnds(h) \/ Http!CallBack(h)
  PROVE  Http!IInv'
<1>1. UNCHANGED <<owner, socketp, asked, handles, contexts, poll, armed, event, rsp_body, got, restFailed>>
  BY DEF Http!TransferEnds, Http!CallBack, Http!client, Http!http
<1>2. Http!SocketsAgree' /\ Http!Polled' = Http!Polled
  BY <1>1, SocketsAlone DEF Http!IInv
<1>3. \E t \in {"done", "told"} : transfer' = [transfer EXCEPT ![h] = t] /\ transfer[h] # "free"
  BY DEF Http!TransferEnds, Http!CallBack
<1>4. Http!RequestsAgree' /\ at' \in {"loop", "curl", "info"} \cup Handles
  <2>1. CASE Http!TransferEnds(h)
    <3>1. at = "curl" /\ transfer[h] = "running" /\ transfer' = [transfer EXCEPT ![h] = "done"] /\ UNCHANGED <<at, calls>>
      BY <2>1 DEF Http!TransferEnds, Http!http
    <3> QED  BY <1>1, <3>1 DEF Http!IInv, Http!RequestsAgree, HttpConstants
  <2>2. CASE Http!CallBack(h)
    <3>1. /\ at = "info" /\ transfer[h] = "done" /\ at' = h /\ transfer' = [transfer EXCEPT ![h] = "told"]
          /\ calls' = [calls EXCEPT ![h] = @ + 1]
      BY <2>2 DEF Http!CallBack
    <3> QED  BY <1>1, <3>1 DEF Http!IInv, Http!RequestsAgree, HttpConstants
  <2> QED  BY <2>1, <2>2
<1>5. Http!Awaited'
  <2>1. \A f \in Http!Polled : transfer'[owner[f]] # "free"
    BY <1>3 DEF Http!IInv, Http!Awaited, Http!RequestsAgree
  <2>2. at # "loop" /\ at' # "loop" /\ (at = "curl" => at' = "curl")
    BY DEF Http!TransferEnds, Http!CallBack, HttpConstants
  <2>3. \A g \in Handles : transfer'[g] = "running" => transfer[g] = "running"
    BY <1>3 DEF Http!IInv, Http!RequestsAgree
  <2> QED  BY <1>1, <1>2, <2>1, <2>2, <2>3 DEF Http!IInv, Http!Awaited, Http!None
<1> QED  BY <1>1, <1>2, <1>4, <1>5 DEF Http!IInv

\* stop() and the end of a callback: handles are cleaned up, with their sockets.
LEMMA CleanedUp ==
  ASSUME HttpConstants, Http!IInv, NEW hs \in SUBSET Handles, Http!CleanUp(hs), handles' = handles \ hs,
         UNCHANGED <<event, rsp_body, got, calls, restFailed>>,
         asked' => armed', \/ armed' = armed
                           \/ {h \in Handles : transfer[h] # "free"} \subseteq hs,
         at # "curl", at' \in {"loop", "info"}, at' = "loop" => at = "loop",
         \A h \in Handles : at = h => h \in hs
  PROVE  Http!IInv'
<1> DEFINE fs == {f \in Fds : owner[f] \in hs}
<1>0. transfer' = [h \in Handles |-> IF h \in hs THEN "free" ELSE transfer[h]] /\ Http!RemoveSockets(fs)
  BY DEF Http!CleanUp
<1>1. /\ Http!SocketsAgree' /\ Http!Polled' = Http!Polled \ fs
      /\ \A f \in Fds \ fs : owner'[f] = owner[f]
      /\ \A f \in fs : owner'[f] = Http!None
      /\ \A x \in Contexts : poll[x] # "free" => poll'[x] # "free"
  BY <1>0, SocketsRemoved DEF Http!IInv
<1>2. transfer \in [Handles -> {"free", "running", "done", "told"}]
  BY DEF Http!IInv, Http!RequestsAgree
<1>3. \A h \in Handles : h \in hs => transfer'[h] = "free"
  BY <1>0
<1>4. \A h \in Handles : h \notin hs => transfer'[h] = transfer[h]
  BY <1>0
<1>5. \A h \in Handles : at' # h
  BY DEF HttpConstants
<1>6. Http!RequestsAgree'
  <2>1. transfer' \in [Handles -> {"free", "running", "done", "told"}]
    BY <1>0, <1>2
  <2>2. handles' = {h \in Handles : transfer'[h] # "free"}
    BY <1>3, <1>4 DEF Http!IInv, Http!RequestsAgree
  <2>3. ASSUME NEW h \in Handles, transfer'[h] # "free"
        PROVE  transfer'[h] # "told" /\ calls'[h] = 0
    BY <1>3, <1>4, <2>3 DEF Http!IInv, Http!RequestsAgree
  <2> QED  BY <1>3, <1>5, <2>1, <2>2, <2>3 DEF Http!IInv, Http!RequestsAgree
<1>7. Http!Awaited'
  <2>1. ASSUME NEW f \in Http!Polled' PROVE transfer'[owner'[f]] # "free"
    <3>1. f \in Http!Polled /\ f \in Fds \ fs /\ owner'[f] = owner[f]
      BY <1>1 DEF Http!Polled
    <3>2. owner[f] \in Handles /\ owner[f] \notin hs /\ transfer[owner[f]] # "free"
      BY <3>1 DEF Http!IInv, Http!SocketsAgree, Http!Awaited, Http!Polled
    <3> QED  BY <1>4, <3>1, <3>2
  <2>2. ASSUME NEW h \in Handles, transfer'[h] = "running" PROVE armed' \/ \E f \in Fds : owner'[f] = h
    <3>1. h \notin hs /\ transfer[h] = "running"
      BY <1>3, <1>4, <2>2
    <3>2. armed' = armed
      BY <3>1
    <3>3. armed \/ \E f \in Fds : owner[f] = h
      BY <3>1 DEF Http!IInv, Http!Awaited
    <3>4. \A f \in Fds : owner[f] = h => owner'[f] = h
      BY <1>1, <3>1
    <3> QED  BY <3>2, <3>3, <3>4
  <2>3. event' # Http!None => event' \in Contexts /\ poll'[event'] # "free"
    BY <1>1 DEF Http!IInv, Http!Awaited
  <2>4. at' = "loop" => event' = Http!None
    BY DEF Http!IInv, Http!Awaited
  <2> HIDE DEF fs
  <2> QED  BY <2>1, <2>2, <2>3, <2>4 DEF Http!Awaited, Http!None
<1> QED  BY <1>1, <1>6, <1>7 DEF Http!IInv

LEMMA FreedKeeps ==
  ASSUME HttpConstants, Http!IInv, Http!stop \/ Http!CalledBack
  PROVE  Http!IInv'
<1>0. handles = {h \in Handles : transfer[h] # "free"} /\ \A h \in Handles : transfer[h] = "told" <=> at = h
  BY DEF Http!IInv, Http!RequestsAgree
<1>1. CASE Http!stop
  <2>1. /\ at = "loop" /\ Http!CleanUp(handles) /\ handles' = {} /\ armed' = FALSE /\ asked' = FALSE
        /\ UNCHANGED <<at, event, rsp_body, got, calls, restFailed>>
    BY <1>1 DEF Http!stop, Http!timer_stop, Http!http
  <2>2. handles \in SUBSET Handles /\ handles' = handles \ handles /\ (asked' => armed')
        /\ {h \in Handles : transfer[h] # "free"} \subseteq handles /\ \A h \in Handles : at # h
    BY <1>0, <2>1 DEF HttpConstants
  <2> QED  BY <2>1, <2>2, CleanedUp
<1>2. CASE Http!CalledBack
  <2>1. /\ at \in Handles /\ handles' = handles \ {at} /\ Http!CleanUp({at}) /\ at' = "info"
        /\ UNCHANGED <<asked, armed, event, rsp_body, got, calls, restFailed>>
    BY <1>2 DEF Http!CalledBack, Http!Erase, Http!http
  <2>2. at # "curl" /\ {at} \in SUBSET Handles
    BY <2>1 DEF HttpConstants
  <2>3. asked => armed
    BY DEF Http!IInv, Http!Awaited
  <2> QED  BY <2>1, <2>2, <2>3, CleanedUp
<1> QED  BY <1>1, <1>2

LEMMA PollSocketKeeps ==
  ASSUME HttpConstants, Http!IInv, NEW f \in Fds, NEW h \in Handles, Http!PollSocket(f, h)
  PROVE  Http!IInv'
<1>0. /\ owner \in [Fds -> Handles \cup {Http!None}] /\ socketp \in [Fds -> Contexts \cup {Http!None}]
      /\ poll \in [Contexts -> {"free", "polling", "closing"}]
      /\ \A g \in Fds : owner[g] = Http!None <=> socketp[g] = Http!None
      /\ \A g \in Http!Polled, k \in Http!Polled : socketp[g] = socketp[k] => g = k
      /\ contexts = {socketp[g] : g \in Http!Polled} /\ contexts = {x \in Contexts : poll[x] = "polling"}
  BY DEF Http!IInv, Http!SocketsAgree
<1>1. /\ at = "curl" /\ transfer[h] = "running" /\ owner[f] \in {Http!None, h}
      /\ owner' = [owner EXCEPT ![f] = h]
      /\ UNCHANGED <<transfer, asked, handles, armed, at, event, rsp_body, got, calls>>
  BY DEF Http!PollSocket, Http!http
<1>2. Http!RequestsAgree'
  BY <1>1 DEF Http!IInv, Http!RequestsAgree
<1>3. CASE socketp[f] # Http!None
  <2>1. UNCHANGED <<owner, socketp, contexts, poll, restFailed>>
    <3>1. owner[f] = h
      BY <1>0, <1>1, <1>3
    <3> QED  BY <1>0, <1>1, <1>3, <3>1 DEF Http!PollSocket
  <2>2. Http!SocketsAgree' /\ Http!Polled' = Http!Polled
    BY <2>1, SocketsAlone DEF Http!IInv
  <2>3. Http!Awaited'
    BY <1>1, <2>1, <2>2 DEF Http!IInv, Http!Awaited, Http!None
  <2> QED  BY <1>1, <1>2, <2>1, <2>2, <2>3 DEF Http!IInv
<1>4. CASE socketp[f] = Http!None
  <2>1. PICK x \in Contexts :
          /\ poll[x] = "free" /\ poll' = [poll EXCEPT ![x] = "polling"]
          /\ restFailed' = (restFailed \/ ~(x \notin contexts)) /\ contexts' = contexts \cup {x}
          /\ socketp' = [socketp EXCEPT ![f] = x]
    BY <1>4 DEF Http!PollSocket, Http!Asserts
  <2>2. x \notin contexts /\ x # Http!None /\ f \notin Http!Polled /\ h # Http!None
    BY <1>0, <1>4, <2>1 DEF HttpConstants, Http!Polled
  <2>3. restFailed' = FALSE
    <3>1. restFailed = FALSE
      BY DEF Http!IInv
    <3> QED  BY <2>1, <2>2, <3>1, Zenon
  <2>4. owner'[f] = h /\ socketp'[f] = x /\ \A g \in Fds \ {f} : owner'[g] = owner[g] /\ socketp'[g] = socketp[g]
    BY <1>0, <1>1, <2>1
  <2>5. Http!Polled' = Http!Polled \cup {f}
    BY <2>2, <2>4 DEF Http!Polled, Http!None
  <2>6. /\ owner' \in [Fds -> Handles \cup {Http!None}] /\ socketp' \in [Fds -> Contexts \cup {Http!None}]
        /\ poll' \in [Contexts -> {"free", "polling", "closing"}]
    BY <1>0, <1>1, <2>1
  <2>7. \A g \in Fds : owner'[g] = Http!None <=> socketp'[g] = Http!None
    BY <1>0, <2>2, <2>4
  <2>8. \A g \in Http!Polled : g \in Fds \ {f} /\ socketp'[g] = socketp[g] /\ socketp[g] \in contexts
    BY <1>0, <2>2, <2>4 DEF Http!Polled
  <2>9. \A g \in Http!Polled', k \in Http!Polled' : socketp'[g] = socketp'[k] => g = k
    BY <1>0, <2>2, <2>4, <2>5, <2>8
  <2>10. contexts' = {socketp'[g] : g \in Http!Polled'}
    <3>1. ASSUME NEW y \in contexts PROVE \E g \in Http!Polled' : socketp'[g] = y
      <4>1. PICK g \in Http!Polled : socketp[g] = y
        BY <1>0, <3>1
      <4> QED  BY <2>5, <2>8, <4>1
    <3>2. x = socketp'[f] /\ f \in Http!Polled'
      BY <2>4, <2>5
    <3>3. ASSUME NEW g \in Http!Polled' PROVE socketp'[g] \in contexts'
      BY <2>1, <2>4, <2>5, <2>8, <3>3
    <3> QED  BY <2>1, <3>1, <3>2, <3>3
  <2>11. contexts' = {y \in Contexts : poll'[y] = "polling"}
    BY <1>0, <2>1
  <2>12. Http!SocketsAgree'
    BY <2>6, <2>7, <2>9, <2>10, <2>11 DEF Http!SocketsAgree, Http!None
  <2>13. Http!Awaited'
    <3>1. \A g \in Http!Polled' : transfer'[owner'[g]] # "free"
      BY <1>1, <2>4, <2>5, <2>8 DEF Http!IInv, Http!Awaited
    <3>2. event # Http!None => event \in Contexts /\ poll'[event] # "free"
      BY <1>0, <2>1 DEF Http!IInv, Http!Awaited
    <3> QED  BY <1>1, <3>1, <3>2 DEF Http!IInv, Http!Awaited, Http!None
  <2> QED  BY <1>1, <1>2, <2>3, <2>12, <2>13 DEF Http!IInv
<1> QED  BY <1>3, <1>4

LEMMA DropSocketKeeps ==
  ASSUME HttpConstants, Http!IInv, NEW f \in Fds, Http!DropSocket(f)
  PROVE  Http!IInv'
<1>1. /\ at = "curl" /\ Http!RemoveSockets({f})
      /\ UNCHANGED <<transfer, asked, handles, armed, at, event, rsp_body, got, calls, restFailed>>
  BY DEF Http!DropSocket, Http!http
<1>2. /\ Http!SocketsAgree' /\ Http!Polled' = Http!Polled \ {f}
      /\ \A g \in Fds \ {f} : owner'[g] = owner[g]
      /\ \A x \in Contexts : poll[x] # "free" => poll'[x] # "free"
  <2>1. {f} \in SUBSET Fds
    OBVIOUS
  <2> QED  BY <1>1, <2>1, SocketsRemoved DEF Http!IInv
<1>3. Http!RequestsAgree'
  BY <1>1 DEF Http!IInv, Http!RequestsAgree
<1>4. Http!Awaited'
  <2>1. \A g \in Http!Polled' : transfer'[owner'[g]] # "free"
    BY <1>1, <1>2 DEF Http!IInv, Http!Awaited, Http!Polled
  <2>2. event # Http!None => event \in Contexts /\ poll'[event] # "free"
    BY <1>2 DEF Http!IInv, Http!Awaited
  <2> QED  BY <1>1, <2>1, <2>2 DEF Http!IInv, Http!Awaited, Http!None
<1> QED  BY <1>1, <1>2, <1>3, <1>4 DEF Http!IInv

\* What else the loop and libcurl call, and their returns
LEMMA CallsKeep ==
  ASSUME HttpConstants, Http!IInv,
         \/ Http!on_timeout \/ Http!CurlReturns \/ Http!InfoEnds
         \/ \E wanted \in BOOLEAN : Http!SetTimer(wanted)
         \/ \E h \in Handles : Http!on_body(h)
         \/ \E x \in Contexts : Http!on_event(x)
  PROVE  Http!IInv'
<1>1. UNCHANGED <<transfer, owner, socketp, handles, contexts, poll, calls>>
  BY DEF Http!on_timeout, Http!CurlReturns, Http!InfoEnds, Http!SetTimer, Http!on_body, Http!on_event,
         Http!curl, Http!client, Http!http
<1>2. Http!SocketsAgree' /\ Http!Polled' = Http!Polled
  BY <1>1, SocketsAlone DEF Http!IInv
<1>3. /\ \A h \in Handles : (at = h <=> at' = h)
      /\ at' \in {"loop", "curl", "info"} \cup Handles
  BY DEF Http!on_timeout, Http!CurlReturns, Http!InfoEnds, Http!SetTimer, Http!on_body, Http!on_event, HttpConstants
<1>4. got' \in [Handles -> Int] /\ rsp_body' = got'
  <2>1. got \in [Handles -> Int] /\ rsp_body = got
    BY DEF Http!IInv, Http!RequestsAgree
  <2>2. ASSUME NEW h \in Handles, Http!on_body(h) PROVE got' \in [Handles -> Int] /\ rsp_body' = got'
    BY <2>1, <2>2 DEF Http!on_body
  <2>3. CASE UNCHANGED <<got, rsp_body>>
    BY <2>1, <2>3
  <2> QED  BY <2>2, <2>3 DEF Http!on_timeout, Http!CurlReturns, Http!InfoEnds, Http!SetTimer, Http!on_event, Http!http
<1>5. Http!RequestsAgree'
  BY <1>1, <1>3, <1>4 DEF Http!IInv, Http!RequestsAgree
<1>6. restFailed' = FALSE
  <2>0. restFailed = FALSE
    BY DEF Http!IInv
  <2>1. ASSUME NEW x \in Contexts, Http!on_event(x) PROVE restFailed' = FALSE
    <3>1. x \in contexts /\ restFailed' = (restFailed \/ ~(x \in contexts))
      BY <2>1 DEF Http!on_event, Http!Asserts, Http!IInv, Http!SocketsAgree
    <3> QED  BY <2>0, <3>1, Zenon
  <2> QED  BY <2>0, <2>1 DEF Http!on_timeout, Http!CurlReturns, Http!InfoEnds, Http!SetTimer, Http!on_body
<1>7. Http!Awaited'
  <2>0. /\ asked => armed
        /\ at # "curl" => \A h \in Handles : transfer[h] = "running" => armed \/ \E f \in Fds : owner[f] = h
        /\ \A f \in Http!Polled : transfer[owner[f]] # "free"
        /\ at = "loop" => event = Http!None
        /\ event # Http!None => event \in Contexts /\ poll[event] # "free"
    BY DEF Http!IInv, Http!Awaited
  <2>1. CASE Http!on_timeout
    BY <1>1, <1>2, <2>0, <2>1 DEF Http!on_timeout, Http!Awaited, Http!None
  <2>2. CASE Http!CurlReturns
    BY <1>1, <1>2, <2>0, <2>2 DEF Http!CurlReturns, Http!Awaited, Http!None, Http!curl, Http!client
  <2>3. CASE Http!InfoEnds
    BY <1>1, <1>2, <2>0, <2>3 DEF Http!InfoEnds, Http!Awaited, Http!None, Http!curl, Http!client
  <2>4. ASSUME NEW wanted \in BOOLEAN, Http!SetTimer(wanted) PROVE Http!Awaited'
    BY <1>1, <1>2, <2>0, <2>4 DEF Http!SetTimer, Http!start_timer, Http!Awaited, Http!None
  <2>5. ASSUME NEW h \in Handles, Http!on_body(h) PROVE Http!Awaited'
    BY <1>1, <1>2, <2>0, <2>5 DEF Http!on_body, Http!Awaited, Http!None, Http!curl, Http!client
  <2>6. ASSUME NEW x \in Contexts, Http!on_event(x) PROVE Http!Awaited'
    BY <1>1, <1>2, <2>0, <2>6 DEF Http!on_event, Http!Awaited, Http!None, Http!curl, Http!client
  <2> QED  BY <2>1, <2>2, <2>3, <2>4, <2>5, <2>6
<1> QED  BY <1>2, <1>3, <1>5, <1>6, <1>7 DEF Http!IInv

\* A context is deleted in the callback of its closed handle.
LEMMA OnCloseFrees ==
  ASSUME HttpConstants, Http!IInv, NEW x \in Contexts, Http!on_close(x)
  PROVE  Http!IInv'
<1>1. /\ at = "loop" /\ poll[x] = "closing" /\ poll' = [poll EXCEPT ![x] = "free"]
      /\ restFailed' = (restFailed \/ ~(x \notin contexts))
      /\ UNCHANGED <<transfer, owner, socketp, asked, handles, contexts, armed, at, event, rsp_body, got, calls>>
  BY DEF Http!on_close, Http!Asserts, Http!curl, Http!http
<1>2. Http!Polled' = Http!Polled
  BY <1>1 DEF Http!Polled
<1>3. Http!SocketsAgree' /\ x \notin contexts
  <2>1. poll \in [Contexts -> {"free", "polling", "closing"}] /\ contexts = {y \in Contexts : poll[y] = "polling"}
    BY DEF Http!IInv, Http!SocketsAgree
  <2>2. x \notin contexts /\ contexts' = {y \in Contexts : poll'[y] = "polling"}
        /\ poll' \in [Contexts -> {"free", "polling", "closing"}]
    BY <1>1, <2>1
  <2> QED  BY <1>1, <1>2, <2>2 DEF Http!IInv, Http!SocketsAgree, Http!None
<1>4. restFailed' = FALSE
  <2>1. restFailed = FALSE
    BY DEF Http!IInv
  <2> QED  BY <1>1, <1>3, <2>1, Zenon
<1>5. Http!RequestsAgree'
  BY <1>1 DEF Http!IInv, Http!RequestsAgree
<1>6. Http!Awaited'
  BY <1>1, <1>2 DEF Http!IInv, Http!Awaited, Http!None
<1> QED  BY <1>1, <1>3, <1>4, <1>5, <1>6 DEF Http!IInv

\* What the requests rest on is enough for what is promised.
LEMMA RequestsAreKept ==
  ASSUME HttpConstants, Http!IInv
  PROVE  Http!RequestsKept
<1>0. /\ contexts = {socketp[f] : f \in Http!Polled}
      /\ \A f \in Http!Polled, g \in Http!Polled : socketp[f] = socketp[g] => f = g
  BY DEF Http!IInv, Http!SocketsAgree
<1>1. at = "loop" /\ handles = {} => contexts = {}
  <2> SUFFICES ASSUME handles = {}, NEW f \in Http!Polled PROVE FALSE
    BY <1>0
  <2>1. owner[f] \in Handles /\ transfer[owner[f]] # "free"
    BY DEF Http!IInv, Http!SocketsAgree, Http!Awaited, Http!Polled
  <2> QED  BY <2>1 DEF Http!IInv, Http!RequestsAgree
<1>2. at = "loop" => \A h \in Handles : transfer[h] = "running" => armed \/ \E f \in Fds : owner[f] = h
  BY DEF Http!IInv, Http!Awaited
<1>3. ~restFailed
  BY Zenon DEF Http!IInv
<1>4. event # Http!None => poll[event] # "free"
  BY DEF Http!IInv, Http!Awaited
<1>5. /\ handles = {h \in Handles : transfer[h] # "free"}
      /\ \A h \in Handles :
           /\ transfer[h] # "free" => calls[h] = (IF transfer[h] = "told" THEN 1 ELSE 0)
           /\ transfer[h] = "told" <=> at = h
           /\ at = h => rsp_body[h] = got[h]
  BY DEF Http!IInv, Http!RequestsAgree
<1>6. contexts = {x \in Contexts : poll[x] = "polling"}
  BY DEF Http!IInv, Http!SocketsAgree
<1> QED  BY <1>0, <1>1, <1>2, <1>3, <1>4, <1>5, <1>6, Zenon DEF Http!RequestsKept

\* The requests' part of a process that sends some
LEMMA RequestsInvariance ==
  ASSUME HttpConstants
  PROVE  ClientsSpec => []Http!RequestsKept
<1>1. ClientsInit => Http!IInv
  <2> SUFFICES ASSUME Http!Init PROVE Http!IInv
    BY DEF ClientsInit
  <2>1. Http!Polled = {}
    BY DEF Http!Init, Http!Polled
  <2>2. Http!RequestsAgree
    BY DEF Http!Init, Http!RequestsAgree, HttpConstants
  <2>3. Http!SocketsAgree
    BY <2>1 DEF Http!Init, Http!SocketsAgree
  <2>4. Http!Awaited
    BY <2>1 DEF Http!Init, Http!Awaited
  <2> QED  BY <2>2, <2>3, <2>4 DEF Http!Init, Http!IInv
<1>2. Http!IInv /\ [ClientsNext]_clientVars => Http!IInv'
  <2> SUFFICES ASSUME Http!IInv, [Http!Next]_restVars PROVE Http!IInv'
    <3>1. [ClientsNext]_clientVars => [Http!Next]_restVars
      BY Zenon DEF ClientsNext, clientVars, OnlyRedis
    <3> QED  BY <3>1
  <2>1. CASE UNCHANGED restVars
    <3>1. /\ UNCHANGED <<transfer, owner, socketp, asked, handles, contexts, poll, armed>>
          /\ UNCHANGED <<at, event, rsp_body, got, calls, restFailed>>
      BY <2>1 DEF restVars
    <3>2. Http!SocketsAgree' /\ Http!Polled' = Http!Polled
      BY <3>1, SocketsAlone DEF Http!IInv
    <3>3. Http!RequestsAgree'
      BY <3>1 DEF Http!IInv, Http!RequestsAgree
    <3>4. Http!Awaited'
      BY <3>1, <3>2 DEF Http!IInv, Http!Awaited, Http!None
    <3> QED  BY <3>1, <3>2, <3>3, <3>4 DEF Http!IInv
  <2>2. ASSUME NEW h \in Handles,
               Http!Request(h) \/ Http!TransferEnds(h) \/ Http!CallBack(h) \/ \E f \in Fds : Http!PollSocket(f, h)
        PROVE  Http!IInv'
    BY <2>2, RequestKeeps, StageKeeps, PollSocketKeeps
  <2> QED  BY <2>1, <2>2, CallsKeep, OnCloseFrees, DropSocketKeeps, FreedKeeps, Zenon DEF Http!Next
<1>3. Http!IInv => Http!RequestsKept
  BY RequestsAreKept
<1> QED  BY <1>1, <1>2, <1>3, PTL DEF ClientsSpec
------------------------------------------------------------------------------
(* TCP connections *)

\* A step on connections alone: none comes or goes, and none is opened again.
LEMMA SameOwners ==
  ASSUME Tcp!IInv, UNCHANGED <<state, request, handle, connection, hasty, connections>>,
         conn' \in [ConnIds -> Tcp!Connection], tcpFailed' = tcpFailed,
         \A c \in ConnIds : /\ conn'[c].outgoing = conn'[c].writes
                            /\ conn'[c].state = "free" <=> conn[c].state = "free"
                            /\ conn[c].state = "disconnecting" => conn'[c].state = "disconnecting",
         listening' = "closed" => listening = "closed" \/ \A c \in connections : conn'[c].state = "disconnecting"
  PROVE  Tcp!IInv'
<1>1. Tcp!Alive' = Tcp!Alive
  BY DEF Tcp!Alive
<1>2. ASSUME listening' = "closed", NEW c \in connections' PROVE conn'[c].state = "disconnecting"
  BY <1>2 DEF Tcp!IInv, Tcp!PeersAgree
<1>3. Tcp!PeersAgree'
  BY <1>1, <1>2 DEF Tcp!IInv, Tcp!PeersAgree, Tcp!None
<1> QED  BY <1>3 DEF Tcp!IInv, Tcp!None

\* close() of some connections
LEMMA ClosedConns ==
  ASSUME NEW cs, conn \in [ConnIds -> Tcp!Connection], \A c \in ConnIds : conn[c].outgoing = conn[c].writes,
         conn' = Tcp!Closed(cs)
  PROVE  /\ conn' \in [ConnIds -> Tcp!Connection]
         /\ \A d \in ConnIds : /\ conn'[d].outgoing = conn'[d].writes
                               /\ conn'[d].state = "free" <=> conn[d].state = "free"
                               /\ conn[d].state = "disconnecting" => conn'[d].state = "disconnecting"
                               /\ d \in cs => conn'[d].state # "connected"
<1>1. ASSUME NEW d \in ConnIds
      PROVE  /\ conn'[d] \in Tcp!Connection /\ conn'[d].outgoing = conn'[d].writes
             /\ conn'[d].state = "free" <=> conn[d].state = "free"
             /\ conn[d].state = "disconnecting" => conn'[d].state = "disconnecting"
             /\ d \in cs => conn'[d].state # "connected"
  <2>1. conn[d] \in Tcp!Connection /\ conn[d].outgoing = conn[d].writes
    OBVIOUS
  <2>2. CASE d \in cs /\ conn[d].state = "connected"
    <3>1. conn'[d] = [conn[d] EXCEPT !.state = "disconnecting"]
      BY <2>2 DEF Tcp!Closed
    <3> QED  BY <2>1, <2>2, <3>1 DEF Tcp!Connection
  <2>3. CASE ~(d \in cs /\ conn[d].state = "connected")
    <3>1. conn'[d] = conn[d]
      BY <2>3 DEF Tcp!Closed
    <3> QED  BY <2>1, <2>3, <3>1
  <2> QED  BY <2>2, <2>3
<1>2. conn' \in [ConnIds -> Tcp!Connection]
  <2>1. conn' = [d \in ConnIds |-> conn'[d]]
    BY DEF Tcp!Closed
  <2> QED  BY <1>1, <2>1
<1> QED  BY <1>1, <1>2

LEMMA ConnectionKeeps ==
  ASSUME MaxWrites \in Nat, Tcp!IInv, NEW c \in ConnIds, Tcp!send(c) \/ Tcp!close(c) \/ Tcp!on_write(c)
  PROVE  Tcp!IInv'
<1>0. /\ conn \in [ConnIds -> Tcp!Connection] /\ conn[c] \in Tcp!Connection
      /\ \A d \in ConnIds : conn[d].outgoing = conn[d].writes
  BY DEF Tcp!IInv
<1>1. CASE Tcp!send(c)
  <2> DEFINE n == (conn[c].number + 1) % (MaxWrites + 1)
  <2>1. /\ conn' = [conn EXCEPT ![c].outgoing = Append(@, n), ![c].writes = Append(@, n), ![c].number = n]
        /\ UNCHANGED <<state, request, handle, connection, hasty, listening, connections, tcpFailed>>
    BY <1>1 DEF Tcp!send, Tcp!clientVars, Tcp!serverVars
  <2>2. n \in Int
    BY <1>0 DEF Tcp!Connection
  <2> HIDE DEF n
  <2>3. conn'[c] = [conn[c] EXCEPT !.outgoing = Append(@, n), !.writes = Append(@, n), !.number = n]
        /\ \A d \in ConnIds \ {c} : conn'[d] = conn[d]
    BY <1>0, <2>1
  <2>4. conn'[c] \in Tcp!Connection /\ conn'[c].state = conn[c].state /\ conn'[c].outgoing = conn'[c].writes
    <3> DEFINE q == Append(conn[c].writes, n)
    <3>1. conn[c].outgoing = conn[c].writes /\ q \in Seq(Int)
      BY <1>0, <2>2 DEF Tcp!Connection
    <3>2. conn'[c] = [conn[c] EXCEPT !.outgoing = q, !.writes = q, !.number = n]
      BY <2>3, <3>1
    <3> HIDE DEF q
    <3> QED  BY <1>0, <2>2, <3>1, <3>2 DEF Tcp!Connection
  <2>5. conn' \in [ConnIds -> Tcp!Connection]
    BY <1>0, <2>1, <2>3, <2>4
  <2> QED  BY <1>0, <2>1, <2>3, <2>4, <2>5, SameOwners
<1>2. CASE Tcp!close(c)
  <2>1. /\ conn' = Tcp!Closed({c})
        /\ UNCHANGED <<state, request, handle, connection, hasty, listening, connections, tcpFailed>>
    BY <1>2 DEF Tcp!close, Tcp!clientVars, Tcp!serverVars
  <2>2. /\ conn' \in [ConnIds -> Tcp!Connection]
        /\ \A d \in ConnIds : /\ conn'[d].outgoing = conn'[d].writes
                              /\ conn'[d].state = "free" <=> conn[d].state = "free"
                              /\ conn[d].state = "disconnecting" => conn'[d].state = "disconnecting"
    BY <1>0, <2>1, ClosedConns
  <2> QED  BY <2>1, <2>2, SameOwners
<1>3. CASE Tcp!on_write(c)
  <2>1. conn[c].outgoing = conn[c].writes /\ conn[c].writes # <<>> /\ conn[c].writes \in Seq(Int)
    BY <1>0, <1>3 DEF Tcp!on_write, Tcp!Connection
  <2>2. /\ conn' = [conn EXCEPT ![c].outgoing = Tail(@), ![c].writes = Tail(@)]
        /\ UNCHANGED <<state, request, handle, connection, hasty, listening, connections>>
        /\ tcpFailed' = (tcpFailed \/ ~(Head(conn[c].outgoing) = Head(conn[c].writes)))
    BY <1>3, <2>1 DEF Tcp!on_write, Tcp!Asserts, Tcp!clientVars, Tcp!serverVars
  <2>3. tcpFailed' = tcpFailed
    <3>1. ~tcpFailed
      BY <1>3 DEF Tcp!on_write
    <3>2. ~tcpFailed' /\ tcpFailed' \in BOOLEAN
      BY <2>1, <2>2, <3>1, Zenon
    <3>3. tcpFailed \in BOOLEAN
      BY DEF Tcp!IInv
    <3> QED  BY <3>1, <3>2, <3>3
  <2>4. conn'[c] = [conn[c] EXCEPT !.outgoing = Tail(@), !.writes = Tail(@)]
        /\ \A d \in ConnIds \ {c} : conn'[d] = conn[d]
    BY <1>0, <2>2
  <2>5. conn'[c] \in Tcp!Connection /\ conn'[c].state = conn[c].state /\ conn'[c].outgoing = conn'[c].writes
    <3> DEFINE q == Tail(conn[c].writes)
    <3>1. q \in Seq(Int)
      BY <2>1
    <3>2. conn'[c] = [conn[c] EXCEPT !.outgoing = q, !.writes = q]
      BY <2>1, <2>4
    <3> HIDE DEF q
    <3> QED  BY <1>0, <3>1, <3>2 DEF Tcp!Connection
  <2>6. conn' \in [ConnIds -> Tcp!Connection]
    BY <1>0, <2>2, <2>4, <2>5
  <2> QED  BY <1>0, <2>2, <2>3, <2>4, <2>5, <2>6, SameOwners
<1> QED  BY <1>1, <1>2, <1>3

\* A connection comes to be, or is gone.
LEMMA OnCloseKeeps ==
  ASSUME Tcp!None \notin ConnIds, Tcp!IInv, NEW c \in ConnIds, Tcp!on_close(c)
  PROVE  Tcp!IInv'
<1>1. /\ conn' = [conn EXCEPT ![c] = Tcp!Free] /\ ~tcpFailed /\ conn[c].state = "disconnecting"
      /\ conn \in [ConnIds -> Tcp!Connection] /\ connections \subseteq ConnIds
      /\ \A d \in ConnIds : conn[d].outgoing = conn[d].writes
  BY DEF Tcp!on_close, Tcp!IInv
<1>2. Tcp!Free \in Tcp!Connection /\ Tcp!Free.state = "free" /\ Tcp!Free.outgoing = Tcp!Free.writes
  BY DEF Tcp!Free, Tcp!Connection
<1>3. /\ conn' \in [ConnIds -> Tcp!Connection] /\ conn'[c] = Tcp!Free /\ \A d \in ConnIds \ {c} : conn'[d] = conn[d]
      /\ \A d \in ConnIds : conn'[d].outgoing = conn'[d].writes
  BY <1>1, <1>2
<1>4. Tcp!Alive' = Tcp!Alive \ {c} /\ c \in Tcp!Alive
  BY <1>1, <1>2, <1>3 DEF Tcp!Alive
<1>5. CASE c \in connections
  <2>1. connections' = connections \ {c} /\ UNCHANGED <<state, request, handle, connection, hasty, listening, tcpFailed>>
    BY <1>5 DEF Tcp!on_close, Tcp!server_removes, Tcp!clientVars
  <2>2. Tcp!PeersAgree'
    BY <1>1, <1>3, <1>4, <1>5, <2>1 DEF Tcp!IInv, Tcp!PeersAgree
  <2> QED  BY <1>1, <1>3, <2>1, <2>2 DEF Tcp!IInv
<1>6. CASE c \notin connections
  <2>1. /\ tcpFailed' = (tcpFailed \/ ~(c = connection)) /\ state' = "disconnected" /\ connection' = Tcp!None
        /\ UNCHANGED <<request, handle, hasty, listening, connections>>
    BY <1>6 DEF Tcp!on_close, Tcp!serverVars, Tcp!Asserts, Tcp!Removed
  <2>2. c = connection /\ state = "connected" /\ request # "open"
    BY <1>4, <1>6 DEF Tcp!IInv, Tcp!PeersAgree
  <2>3. ~tcpFailed' /\ tcpFailed' \in BOOLEAN
    BY <1>1, <2>1, <2>2, Zenon
  <2>4. Tcp!PeersAgree'
    BY <1>1, <1>3, <1>4, <1>6, <2>1, <2>2, <2>3 DEF Tcp!IInv, Tcp!PeersAgree
  <2> QED  BY <1>1, <1>3, <2>1, <2>3, <2>4 DEF Tcp!IInv
<1> QED  BY <1>5, <1>6

LEMMA FreshKeeps ==
  ASSUME Tcp!None \notin ConnIds, Tcp!IInv, NEW c \in ConnIds, Tcp!on_connect(c) \/ Tcp!on_accept(c)
  PROVE  Tcp!IInv'
<1>1. /\ conn' = [conn EXCEPT ![c] = Tcp!Fresh] /\ ~tcpFailed /\ conn[c].state = "free"
      /\ conn \in [ConnIds -> Tcp!Connection] /\ connections \subseteq ConnIds
      /\ \A d \in ConnIds : conn[d].outgoing = conn[d].writes
  BY DEF Tcp!on_connect, Tcp!on_accept, Tcp!IInv
<1>2. Tcp!Fresh \in Tcp!Connection /\ Tcp!Fresh.state = "connected" /\ Tcp!Fresh.outgoing = Tcp!Fresh.writes
  <2>1. Tcp!Free \in Tcp!Connection /\ Tcp!Free.outgoing = Tcp!Free.writes
    BY DEF Tcp!Free, Tcp!Connection
  <2> QED  BY <2>1 DEF Tcp!Fresh, Tcp!Connection
<1>3. /\ conn' \in [ConnIds -> Tcp!Connection] /\ conn'[c] = Tcp!Fresh /\ \A d \in ConnIds \ {c} : conn'[d] = conn[d]
      /\ \A d \in ConnIds : conn'[d].outgoing = conn'[d].writes
  BY <1>1, <1>2
<1>4. Tcp!Alive' = Tcp!Alive \cup {c} /\ c \notin Tcp!Alive
  BY <1>1, <1>2, <1>3 DEF Tcp!Alive
<1>5. c \notin connections /\ c # connection
  BY <1>4 DEF Tcp!IInv, Tcp!PeersAgree
<1>6. CASE Tcp!on_connect(c)
  <2>1. /\ request = "open" /\ request' = "none" /\ state' = "connected" /\ handle' = FALSE /\ connection' = c
        /\ tcpFailed' = (tcpFailed \/ ~handle) /\ UNCHANGED <<hasty, listening, connections>>
    BY <1>6 DEF Tcp!on_connect, Tcp!Asserts, Tcp!serverVars
  <2>2. handle /\ connection = Tcp!None
    BY <1>1, <2>1 DEF Tcp!IInv, Tcp!PeersAgree
  <2>3. ~tcpFailed' /\ tcpFailed' \in BOOLEAN
    BY <1>1, <2>1, <2>2, Zenon
  <2>4. Tcp!PeersAgree'
    BY <1>1, <1>3, <1>4, <1>5, <2>1, <2>2, <2>3 DEF Tcp!IInv, Tcp!PeersAgree
  <2> QED  BY <1>1, <1>3, <2>1, <2>3, <2>4 DEF Tcp!IInv
<1>7. CASE Tcp!on_accept(c)
  <2>1. /\ connections' = connections \cup {c} /\ listening = "listening"
        /\ UNCHANGED <<state, request, handle, connection, hasty, listening, tcpFailed>>
    BY <1>7 DEF Tcp!on_accept, Tcp!clientVars
  <2>2. Tcp!PeersAgree'
    BY <1>1, <1>3, <1>4, <1>5, <2>1 DEF Tcp!IInv, Tcp!PeersAgree
  <2> QED  BY <1>1, <1>3, <2>1, <2>2 DEF Tcp!IInv
<1> QED  BY <1>6, <1>7

\* connect(), stop() and on_connect() with an error, and the server's start and
\* stop()
LEMMA PeerKeeps ==
  ASSUME Tcp!None \notin ConnIds, Tcp!IInv,
         Tcp!connect \/ Tcp!client_stop \/ Tcp!on_connect_error \/ Tcp!start \/ Tcp!server_stop
  PROVE  Tcp!IInv'
<1>0. /\ conn \in [ConnIds -> Tcp!Connection] /\ connections \subseteq ConnIds /\ connection \in ConnIds \cup {Tcp!None}
      /\ \A d \in ConnIds : conn[d].outgoing = conn[d].writes
      /\ tcpFailed \in BOOLEAN /\ ~tcpFailed /\ Tcp!PeersAgree
      /\ (handle <=> request # "none") /\ (request = "closed" => state = "disconnected")
  BY DEF Tcp!IInv, Tcp!connect, Tcp!client_stop, Tcp!on_connect_error, Tcp!start, Tcp!server_stop
<1>1. CASE Tcp!connect
  <2>1. /\ state = "disconnected" /\ tcpFailed' = (tcpFailed \/ ~~handle) /\ hasty' = (hasty \/ handle)
        /\ \/ state' = "connecting" /\ request' = "open" /\ handle' = TRUE
           \/ UNCHANGED <<state, request>> /\ handle' = FALSE
        /\ UNCHANGED <<connection, listening, connections, conn>>
    BY <1>1 DEF Tcp!connect, Tcp!Asserts, Tcp!serverVars
  <2>2. (tcpFailed' <=> handle) /\ tcpFailed' \in BOOLEAN /\ (handle => hasty')
    BY <1>0, <2>1, Zenon
  <2>3. Tcp!Alive' = Tcp!Alive
    BY <2>1 DEF Tcp!Alive
  <2>4. Tcp!PeersAgree'
    BY <1>0, <2>1, <2>2, <2>3 DEF Tcp!PeersAgree, Tcp!None
  <2> QED  BY <1>0, <2>1, <2>2, <2>4 DEF Tcp!IInv, Tcp!None
<1>2. CASE Tcp!client_stop
  <2>1. CASE state = "connecting"
    <3>1. /\ request' = "closed" /\ state' = "disconnected"
          /\ UNCHANGED <<handle, connection, hasty, conn, tcpFailed, listening, connections>>
      BY <1>2, <2>1 DEF Tcp!client_stop, Tcp!serverVars
    <3>2. Tcp!Alive' = Tcp!Alive
      BY <3>1 DEF Tcp!Alive
    <3>3. Tcp!PeersAgree'
      BY <1>0, <2>1, <3>1, <3>2 DEF Tcp!PeersAgree, Tcp!None
    <3>4. request # "none"
      BY <1>0, <2>1 DEF Tcp!PeersAgree
    <3> QED  BY <1>0, <3>1, <3>3, <3>4 DEF Tcp!IInv, Tcp!None
  <2>2. CASE state # "connecting"
    <3>1. /\ tcpFailed' = (tcpFailed \/ ~(connection # Tcp!None)) /\ conn' = Tcp!Closed({connection})
          /\ state # "disconnected" /\ UNCHANGED <<state, request, handle, connection, hasty, listening, connections>>
      BY <1>2, <2>2 DEF Tcp!client_stop, Tcp!serverVars, Tcp!clientVars, Tcp!Asserts
    <3>2. connection # Tcp!None
      BY <1>0, <2>2, <3>1 DEF Tcp!IInv, Tcp!PeersAgree
    <3>3. tcpFailed' = tcpFailed
      BY <1>0, <3>1, <3>2, Zenon
    <3>4. /\ conn' \in [ConnIds -> Tcp!Connection]
          /\ \A d \in ConnIds : /\ conn'[d].outgoing = conn'[d].writes
                                /\ conn'[d].state = "free" <=> conn[d].state = "free"
                                /\ conn[d].state = "disconnecting" => conn'[d].state = "disconnecting"
      BY <1>0, <3>1, ClosedConns
    <3> QED  BY <3>1, <3>3, <3>4, SameOwners
  <2> QED  BY <2>1, <2>2
<1>3. CASE Tcp!on_connect_error
  <2>1. /\ request # "none" /\ request' = "none" /\ tcpFailed' = (tcpFailed \/ ~handle)
        /\ state' = "disconnected" /\ handle' = FALSE /\ UNCHANGED <<connection, hasty, listening, connections, conn>>
    BY <1>3 DEF Tcp!on_connect_error, Tcp!Asserts, Tcp!serverVars
  <2>2. ~tcpFailed' /\ tcpFailed' \in BOOLEAN
    BY <1>0, <2>1, Zenon
  <2>3. Tcp!Alive' = Tcp!Alive
    BY <2>1 DEF Tcp!Alive
  <2>4. connection = Tcp!None
    BY <1>0, <2>1 DEF Tcp!IInv, Tcp!PeersAgree
  <2>5. Tcp!PeersAgree'
    BY <1>0, <2>1, <2>2, <2>3, <2>4 DEF Tcp!PeersAgree, Tcp!None
  <2> QED  BY <1>0, <2>1, <2>2, <2>5 DEF Tcp!IInv, Tcp!None
<1>4. CASE Tcp!start
  <2>1. listening' = "listening" /\ UNCHANGED <<state, request, handle, connection, hasty, connections, conn, tcpFailed>>
    BY <1>4 DEF Tcp!start, Tcp!clientVars
  <2> QED  BY <1>0, <2>1, SameOwners
<1>5. CASE Tcp!server_stop
  <2>1. /\ conn' = Tcp!Closed(connections)
        /\ UNCHANGED <<state, request, handle, connection, hasty, connections, tcpFailed>>
    BY <1>5 DEF Tcp!server_stop, Tcp!clientVars
  <2>2. /\ conn' \in [ConnIds -> Tcp!Connection]
        /\ \A d \in ConnIds : /\ conn'[d].outgoing = conn'[d].writes
                              /\ conn'[d].state = "free" <=> conn[d].state = "free"
                              /\ conn[d].state = "disconnecting" => conn'[d].state = "disconnecting"
                              /\ d \in connections => conn'[d].state # "connected"
    BY <1>0, <2>1, ClosedConns
  <2>3. ASSUME NEW d \in connections PROVE conn'[d].state = "disconnecting"
    <3>1. conn[d].state # "free" /\ d \in ConnIds
      BY <1>0, <2>3 DEF Tcp!PeersAgree, Tcp!Alive
    <3>2. conn'[d].state \in {"free", "connected", "disconnecting"}
      BY <2>2, <3>1 DEF Tcp!Connection
    <3> QED  BY <2>2, <2>3, <3>1, <3>2
  <2> QED  BY <2>1, <2>2, <2>3, SameOwners
<1> QED  BY <1>1, <1>2, <1>3, <1>4, <1>5

\* The connections' part of a process that has a client and a server
LEMMA PeersInvariance ==
  ASSUME Tcp!None \notin ConnIds, MaxWrites \in Nat
  PROVE  ClientsSpec => []Tcp!PeersAgree
<1>1. ClientsInit => Tcp!IInv
  <2> SUFFICES ASSUME Tcp!Init PROVE Tcp!IInv
    BY DEF ClientsInit
  <2>1. tcpFailed = FALSE /\ handle = FALSE /\ ~tcpFailed /\ ~handle
    BY Zenon DEF Tcp!Init
  <2>2. Tcp!Free \in Tcp!Connection /\ Tcp!Free.state = "free" /\ Tcp!Free.outgoing = Tcp!Free.writes
    BY DEF Tcp!Free, Tcp!Connection
  <2>3. conn \in [ConnIds -> Tcp!Connection] /\ \A c \in ConnIds : conn[c] = Tcp!Free
    BY <2>2 DEF Tcp!Init
  <2>4. Tcp!Alive = {}
    BY <2>2, <2>3 DEF Tcp!Alive
  <2> QED  BY <2>1, <2>2, <2>3, <2>4 DEF Tcp!Init, Tcp!IInv, Tcp!PeersAgree
<1>2. Tcp!IInv /\ [ClientsNext]_clientVars => Tcp!IInv'
  <2> SUFFICES ASSUME Tcp!IInv, [Tcp!Next]_tcpVars PROVE Tcp!IInv'
    <3>1. [ClientsNext]_clientVars => [Tcp!Next]_tcpVars
      BY Zenon DEF ClientsNext, clientVars, OnlyRedis
    <3> QED  BY <3>1
  <2>1. CASE UNCHANGED tcpVars
    BY <2>1, SameOwners DEF tcpVars, Tcp!IInv
  <2> QED  BY <2>1, ConnectionKeeps, OnCloseKeeps, FreshKeeps, PeerKeeps, Zenon DEF Tcp!Next
<1>3. Tcp!IInv => Tcp!PeersAgree
  BY DEF Tcp!IInv
<1> QED  BY <1>1, <1>2, <1>3, PTL DEF ClientsSpec
------------------------------------------------------------------------------
(* The file watcher *)

\* What a queue of events holds, as it grows and is read
LEMMA EventsGrow ==
  ASSUME NEW S, NEW s \in Seq(S), NEW t \in Seq(S)
  PROVE  /\ s \o t \in Seq(S)
         /\ \A x \in S : Append(s, x) \in Seq(S) /\ Watcher!ToSet(s) \subseteq Watcher!ToSet(Append(s, x))
         /\ Watcher!ToSet(s) \cup Watcher!ToSet(t) = Watcher!ToSet(s \o t)
<1>1. ASSUME NEW x \in S PROVE Append(s, x) \in Seq(S) /\ Watcher!ToSet(s) \subseteq Watcher!ToSet(Append(s, x))
  BY <1>1 DEF Watcher!ToSet
<1>2. s \o t \in Seq(S) /\ Len(s \o t) = Len(s) + Len(t)
  OBVIOUS
<1>3. \A k \in 1 .. Len(s) : (s \o t)[k] = s[k]
  OBVIOUS
<1>4. \A k \in 1 .. Len(t) : (s \o t)[Len(s) + k] = t[k]
  OBVIOUS
<1>5. Watcher!ToSet(s) \cup Watcher!ToSet(t) \subseteq Watcher!ToSet(s \o t)
  <2>1. \A k \in 1 .. Len(t) : Len(s) + k \in 1 .. Len(s \o t)
    BY <1>2
  <2>2. DOMAIN s = 1 .. Len(s) /\ DOMAIN t = 1 .. Len(t) /\ DOMAIN (s \o t) = 1 .. Len(s \o t)
    BY <1>2
  <2>3. Watcher!ToSet(s) \subseteq Watcher!ToSet(s \o t)
    BY <1>2, <1>3, <2>2 DEF Watcher!ToSet
  <2>4. Watcher!ToSet(t) \subseteq Watcher!ToSet(s \o t)
    BY <1>4, <2>1, <2>2 DEF Watcher!ToSet
  <2> QED  BY <2>3, <2>4
<1>6. Watcher!ToSet(s \o t) \subseteq Watcher!ToSet(s) \cup Watcher!ToSet(t)
  <2> SUFFICES ASSUME NEW k \in 1 .. Len(s \o t)
               PROVE  (s \o t)[k] \in Watcher!ToSet(s) \cup Watcher!ToSet(t)
    BY <1>2 DEF Watcher!ToSet
  <2>1. CASE k <= Len(s)
    BY <1>3, <2>1 DEF Watcher!ToSet
  <2>2. CASE k > Len(s)
    <3>1. k - Len(s) \in 1 .. Len(t) /\ k = Len(s) + (k - Len(s))
      BY <1>2, <2>2
    <3>2. (s \o t)[k] = t[k - Len(s)]
      BY <1>4, <3>1
    <3> QED  BY <3>1, <3>2 DEF Watcher!ToSet
  <2> QED  BY <2>1, <2>2
<1> QED  BY <1>1, <1>2, <1>5, <1>6

\* watch() and unwatch() keep the tables in step.
LEMMA WatchKeeps ==
  ASSUME Watcher!IInv, NEW f \in Names, Watcher!watch(f)
  PROVE  Watcher!IInv'
<1> USE DEF Watcher!BadWd
<1>1. PICK wd : /\ wd \in IF names[f] = Watcher!None THEN {-1}
                          ELSE IF Watcher!WdsOf(names[f]) # {} THEN Watcher!WdsOf(names[f]) ELSE {last_wd + 1}
                /\ last_wd' = IF wd > last_wd THEN wd ELSE last_wd
                /\ watches' = IF wd = -1 THEN watches ELSE Watcher!With(watches, wd, names[f])
                /\ file2wd' = Watcher!With(file2wd, f, wd) /\ wd2file' = Watcher!With(wd2file, wd, f)
                /\ aliased' = (aliased \/ wd \in DOMAIN wd2file)
  BY DEF Watcher!watch
<1>2. f \notin DOMAIN file2wd /\ UNCHANGED <<names, events, polling, batch, told, deleted>>
  BY DEF Watcher!watch, Watcher!has_watch
<1>3. last_wd \in Nat /\ DOMAIN watches \subseteq Nat
  BY DEF Watcher!IInv
<1>4. wd \in Nat \cup {-1}
  BY <1>1, <1>3 DEF Watcher!WdsOf
<1>5. last_wd' \in Nat
  BY <1>1, <1>3, <1>4
<1>6. DOMAIN watches' = IF wd = -1 THEN DOMAIN watches ELSE DOMAIN watches \cup {wd}
  BY <1>1 DEF Watcher!With, Watcher!Without, Watcher!Restrict
<1>7. DOMAIN wd2file' = DOMAIN wd2file \cup {wd} /\ wd2file'[wd] = f
      /\ \A z \in DOMAIN wd2file \ {wd} : wd2file'[z] = wd2file[z]
  BY <1>1 DEF Watcher!With, Watcher!Without, Watcher!Restrict
<1>8. DOMAIN file2wd' = DOMAIN file2wd \cup {f} /\ file2wd'[f] = wd
      /\ \A z \in DOMAIN file2wd \ {f} : file2wd'[z] = file2wd[z]
  BY <1>1 DEF Watcher!With, Watcher!Without, Watcher!Restrict
<1>9. ~aliased' => ~aliased /\ wd \notin DOMAIN wd2file
  BY <1>1, Zenon
<1>10. Watcher!Unread' = Watcher!Unread
  BY <1>2 DEF Watcher!Unread
<1>11. Watcher!WatchesAgree'
  <2>1. Watcher!WatchesAgree
    BY DEF Watcher!IInv
  <2>2. DOMAIN watches' \subseteq DOMAIN wd2file'
    BY <1>6, <1>7, <2>1 DEF Watcher!WatchesAgree
  <2>3. ASSUME ~aliased', NEW g \in DOMAIN file2wd' PROVE file2wd'[g] \in DOMAIN wd2file' /\ wd2file'[file2wd'[g]] = g
    BY <1>2, <1>7, <1>8, <1>9, <2>1, <2>3 DEF Watcher!WatchesAgree
  <2>4. ASSUME ~aliased', NEW w \in DOMAIN wd2file' PROVE wd2file'[w] \in DOMAIN file2wd'
    BY <1>7, <1>8, <1>9, <2>1, <2>4 DEF Watcher!WatchesAgree
  <2>5. ASSUME ~aliased', NEW w \in DOMAIN wd2file' \ {-1}
        PROVE  \/ w \in DOMAIN watches'
               \/ w \in deleted' /\ (w \in told' \/ Watcher!Event(w, "delete") \in Watcher!Unread')
    BY <1>2, <1>6, <1>7, <1>9, <1>10, <2>1, <2>5 DEF Watcher!WatchesAgree
  <2> QED  BY <2>2, <2>3, <2>4, <2>5 DEF Watcher!WatchesAgree, Watcher!Event
<1>12. ASSUME ~aliased', NEW w \in DOMAIN wd2file' PROVE file2wd'[wd2file'[w]] = w
  <2>1. CASE w = wd
    BY <1>7, <1>8, <2>1
  <2>2. CASE w # wd
    <3>1. w \in DOMAIN wd2file /\ wd2file'[w] = wd2file[w]
      BY <1>7, <2>2
    <3>2. wd2file[w] \in DOMAIN file2wd /\ file2wd[wd2file[w]] = w
      BY <1>9, <1>12, <3>1 DEF Watcher!IInv, Watcher!WatchesAgree
    <3> QED  BY <1>2, <1>8, <3>1, <3>2
  <2> QED  BY <2>1, <2>2
<1> QED  BY <1>2, <1>3, <1>4, <1>5, <1>6, <1>11, <1>12 DEF Watcher!IInv

LEMMA UnwatchKeeps ==
  ASSUME Watcher!IInv, NEW f \in Names, Watcher!unwatch(f)
  PROVE  Watcher!IInv'
<1> DEFINE wd == file2wd[f]
<1>1. /\ f \in DOMAIN file2wd /\ watches' = Watcher!Without(watches, wd)
      /\ file2wd' = Watcher!Without(file2wd, f) /\ wd2file' = Watcher!Without(wd2file, wd)
      /\ UNCHANGED <<last_wd, batch, told, deleted, aliased>>
      /\ events' = IF wd \in DOMAIN watches THEN Append(events, Watcher!Event(wd, "ignored")) ELSE events
  BY DEF Watcher!unwatch, Watcher!has_watch, Watcher!Forget, Watcher!ghosts
<1>2. DOMAIN watches \subseteq Nat /\ events \in Seq(Watcher!Change) /\ batch \in Seq(Watcher!Change) /\ last_wd \in Nat
  BY DEF Watcher!IInv
<1>3. events' \in Seq(Watcher!Change) /\ Watcher!ToSet(events) \subseteq Watcher!ToSet(events')
  <2>1. wd \in DOMAIN watches => Watcher!Event(wd, "ignored") \in Watcher!Change
    BY <1>2 DEF Watcher!Event, Watcher!Change
  <2> QED  BY <1>1, <1>2, <2>1, EventsGrow
<1>4. Watcher!Unread \subseteq Watcher!Unread'
  BY <1>1, <1>3 DEF Watcher!Unread
<1>5. DOMAIN watches' = DOMAIN watches \ {wd}
  BY <1>1 DEF Watcher!With, Watcher!Without, Watcher!Restrict
<1>6. DOMAIN wd2file' = DOMAIN wd2file \ {wd} /\ \A z \in DOMAIN wd2file \ {wd} : wd2file'[z] = wd2file[z]
  BY <1>1 DEF Watcher!With, Watcher!Without, Watcher!Restrict
<1>7. DOMAIN file2wd' = DOMAIN file2wd \ {f} /\ \A z \in DOMAIN file2wd \ {f} : file2wd'[z] = file2wd[z]
  BY <1>1 DEF Watcher!With, Watcher!Without, Watcher!Restrict
<1> HIDE DEF wd
<1>8. Watcher!WatchesAgree'
  <2>1. Watcher!WatchesAgree
    BY DEF Watcher!IInv
  <2>2. DOMAIN watches' \subseteq DOMAIN wd2file'
    BY <1>5, <1>6, <2>1 DEF Watcher!WatchesAgree
  <2>3. ASSUME ~aliased', NEW g \in DOMAIN file2wd' PROVE file2wd'[g] \in DOMAIN wd2file' /\ wd2file'[file2wd'[g]] = g
    BY <1>1, <1>6, <1>7, <2>1, <2>3 DEF Watcher!WatchesAgree, wd
  <2>4. ASSUME ~aliased', NEW w \in DOMAIN wd2file' PROVE wd2file'[w] \in DOMAIN file2wd'
    <3>1. w \in DOMAIN wd2file \ {wd} /\ wd2file'[w] = wd2file[w] /\ ~aliased
      BY <1>1, <1>6, <2>4
    <3>2. wd2file[w] \in DOMAIN file2wd /\ file2wd[wd2file[w]] = w
      BY <3>1, <2>1 DEF Watcher!IInv, Watcher!WatchesAgree
    <3> QED  BY <1>7, <3>1, <3>2 DEF wd
  <2>5. ASSUME ~aliased', NEW w \in DOMAIN wd2file' \ {Watcher!BadWd}
        PROVE  \/ w \in DOMAIN watches'
               \/ w \in deleted' /\ (w \in told' \/ Watcher!Event(w, "delete") \in Watcher!Unread')
    BY <1>1, <1>4, <1>5, <1>6, <2>1, <2>5 DEF Watcher!WatchesAgree
  <2> QED  BY <2>2, <2>3, <2>4, <2>5 DEF Watcher!WatchesAgree, Watcher!Event
<1>9. ASSUME ~aliased', NEW w \in DOMAIN wd2file' PROVE file2wd'[wd2file'[w]] = w
  <2>1. w \in DOMAIN wd2file \ {wd} /\ wd2file'[w] = wd2file[w] /\ ~aliased
    BY <1>1, <1>6, <1>9
  <2>2. wd2file[w] \in DOMAIN file2wd /\ file2wd[wd2file[w]] = w
    BY <2>1 DEF Watcher!IInv, Watcher!WatchesAgree
  <2> QED  BY <1>7, <2>1, <2>2 DEF wd
<1> QED  BY <1>1, <1>2, <1>3, <1>5, <1>8, <1>9 DEF Watcher!IInv

\* What a step that leaves the tables alone must keep.
LEMMA TablesAlone ==
  ASSUME Watcher!IInv, UNCHANGED <<last_wd, file2wd, wd2file, aliased>>,
         events' \in Seq(Watcher!Change), batch' \in Seq(Watcher!Change),
         DOMAIN watches' \subseteq DOMAIN watches,
         \A wd \in DOMAIN wd2file :
           \/ wd \in DOMAIN watches /\ wd \in DOMAIN watches'
           \/ wd \in DOMAIN watches /\ wd \in deleted' /\ Watcher!Event(wd, "delete") \in Watcher!Unread'
           \/ /\ wd \in deleted => wd \in deleted'
              /\ wd \in told => wd \in told'
              /\ Watcher!Event(wd, "delete") \in Watcher!Unread =>
                   wd \in told' \/ Watcher!Event(wd, "delete") \in Watcher!Unread'
              /\ wd \in DOMAIN watches => wd \in DOMAIN watches'
  PROVE  Watcher!IInv'
<1>1. DOMAIN watches' \subseteq DOMAIN wd2file'
  BY DEF Watcher!IInv, Watcher!WatchesAgree
<1>2. ASSUME ~aliased, NEW wd \in DOMAIN wd2file \ {Watcher!BadWd}
      PROVE  \/ wd \in DOMAIN watches'
             \/ wd \in deleted' /\ (wd \in told' \/ Watcher!Event(wd, "delete") \in Watcher!Unread')
  <2>1. \/ wd \in DOMAIN watches
        \/ wd \in deleted /\ (wd \in told \/ Watcher!Event(wd, "delete") \in Watcher!Unread)
    BY <1>2 DEF Watcher!IInv, Watcher!WatchesAgree
  <2> QED  BY <2>1, Zenon
<1>3. Watcher!WatchesAgree'
  <2>1. ~aliased => /\ \A f \in DOMAIN file2wd : file2wd[f] \in DOMAIN wd2file /\ wd2file[file2wd[f]] = f
                    /\ \A wd \in DOMAIN wd2file : wd2file[wd] \in DOMAIN file2wd
    BY DEF Watcher!IInv, Watcher!WatchesAgree
  <2> QED  BY <1>1, <1>2, <2>1 DEF Watcher!WatchesAgree, Watcher!Event, Watcher!BadWd
<1> QED  BY <1>3 DEF Watcher!IInv

LEMMA KernelKeeps ==
  ASSUME Watcher!IInv, NEW f \in Names,
         Watcher!Delete(f) \/ Watcher!Use(f, "modify") \/ \E i \in Inodes : Watcher!Create(f, i)
  PROVE  Watcher!IInv'
<1>0. DOMAIN watches \subseteq Nat /\ events \in Seq(Watcher!Change) /\ batch \in Seq(Watcher!Change)
  BY DEF Watcher!IInv
<1>1. ASSUME NEW i \in Inodes, Watcher!Create(f, i) PROVE Watcher!IInv'
  <2>1. UNCHANGED <<watches, last_wd, events, file2wd, wd2file, batch, told, deleted, aliased>>
    BY <1>1 DEF Watcher!Create, Watcher!ghosts
  <2>2. Watcher!Unread' = Watcher!Unread
    BY <2>1 DEF Watcher!Unread
  <2> QED  BY <1>0, <2>1, <2>2, TablesAlone
<1>2. CASE Watcher!Use(f, "modify")
  <2>1. PICK wd \in Watcher!WdsOf(names[f]) : events' = Append(events, Watcher!Event(wd, "modify"))
    BY <1>2 DEF Watcher!Use
  <2>2. UNCHANGED <<watches, last_wd, file2wd, wd2file, batch, told, deleted, aliased>>
    BY <1>2 DEF Watcher!Use, Watcher!ghosts
  <2>3. Watcher!Event(wd, "modify") \in Watcher!Change
    BY <1>0, <2>1 DEF Watcher!WdsOf, Watcher!Event, Watcher!Change
  <2>4. events' \in Seq(Watcher!Change) /\ Watcher!ToSet(events) \subseteq Watcher!ToSet(events')
    BY <1>0, <2>1, <2>3, EventsGrow
  <2>5. Watcher!Unread \subseteq Watcher!Unread'
    BY <2>2, <2>4 DEF Watcher!Unread
  <2> QED  BY <1>0, <2>2, <2>4, <2>5, TablesAlone
<1>3. CASE Watcher!Delete(f)
  <2>1. UNCHANGED <<last_wd, file2wd, wd2file, batch, told, aliased>>
    BY <1>3 DEF Watcher!Delete
  <2>2. CASE UNCHANGED <<watches, events, deleted>>
    <3>1. Watcher!Unread' = Watcher!Unread
      BY <2>1, <2>2 DEF Watcher!Unread
    <3> QED  BY <1>0, <2>1, <2>2, <3>1, TablesAlone
  <2>3. ASSUME NEW wd \in Watcher!WdsOf(names[f]),
               watches' = Watcher!Without(watches, wd), deleted' = deleted \cup {wd},
               events' = events \o <<Watcher!Event(wd, "delete"), Watcher!Event(wd, "ignored")>>
        PROVE  Watcher!IInv'
    <3> DEFINE two == <<Watcher!Event(wd, "delete"), Watcher!Event(wd, "ignored")>>
    <3>1. Watcher!Event(wd, "delete") \in Watcher!Change /\ Watcher!Event(wd, "ignored") \in Watcher!Change
      BY <1>0 DEF Watcher!WdsOf, Watcher!Event, Watcher!Change
    <3>2. two \in Seq(Watcher!Change) /\ Watcher!Event(wd, "delete") \in Watcher!ToSet(two)
      <4> HIDE DEF Watcher!Event
      <4>1. two \in Seq(Watcher!Change) /\ 1 \in DOMAIN two /\ two[1] = Watcher!Event(wd, "delete")
        BY <3>1
      <4> QED  BY <4>1 DEF Watcher!ToSet
    <3> HIDE DEF two
    <3>3. events' = events \o two
      BY <2>3 DEF two
    <3>4. events' \in Seq(Watcher!Change) /\ Watcher!ToSet(events') = Watcher!ToSet(events) \cup Watcher!ToSet(two)
      BY <1>0, <3>2, <3>3, EventsGrow
    <3>5. Watcher!Unread \subseteq Watcher!Unread' /\ Watcher!Event(wd, "delete") \in Watcher!Unread'
      BY <2>1, <3>2, <3>4 DEF Watcher!Unread
    <3>6. DOMAIN watches' = DOMAIN watches \ {wd} /\ wd \in DOMAIN watches
      BY <2>3 DEF Watcher!Without, Watcher!Restrict, Watcher!WdsOf
    <3> QED  BY <1>0, <2>1, <2>3, <3>4, <3>5, <3>6, TablesAlone
  <2> QED  BY <1>3, <2>2, <2>3 DEF Watcher!Delete
<1> QED  BY <1>1, <1>2, <1>3

LEMMA ReaderKeeps ==
  ASSUME Watcher!IInv,
         \/ \E n \in 1 .. MaxEvents : Watcher!on_inotify_read(n)
         \/ Watcher!start \/ Watcher!stop \/ Watcher!on_event
  PROVE  Watcher!IInv'
<1>0. events \in Seq(Watcher!Change) /\ batch \in Seq(Watcher!Change)
  BY DEF Watcher!IInv
<1>1. ASSUME NEW n \in 1 .. MaxEvents, Watcher!on_inotify_read(n) PROVE Watcher!IInv'
  <2>1. /\ batch = <<>> /\ n \in 0 .. Len(events) /\ batch' = SubSeq(events, 1, n) /\ events' = SubSeq(events, n + 1, Len(events))
        /\ UNCHANGED <<watches, last_wd, file2wd, wd2file, told, deleted, aliased>>
    BY <1>0, <1>1 DEF Watcher!on_inotify_read, Watcher!on_inotify_event, Watcher!ghosts
  <2>2. batch' \in Seq(Watcher!Change) /\ events' \in Seq(Watcher!Change) /\ batch' \o events' = events
    <3>1. n = Len(events) => events' = <<>> /\ batch' = events
      BY <1>0, <2>1
    <3> QED  BY <1>0, <2>1, <3>1
  <2>3. Watcher!ToSet(batch') \cup Watcher!ToSet(events') = Watcher!ToSet(events)
    <3>1. Watcher!ToSet(batch') \cup Watcher!ToSet(events') = Watcher!ToSet(batch' \o events')
      BY <2>2, EventsGrow, Zenon
    <3> QED  BY <2>2, <3>1, Zenon
  <2>4. Watcher!ToSet(batch) = {}
    BY <2>1 DEF Watcher!ToSet
  <2>5. Watcher!Unread' = Watcher!Unread
    BY <2>3, <2>4 DEF Watcher!Unread
  <2> QED  BY <2>1, <2>2, <2>5, TablesAlone
<1>2. CASE Watcher!start \/ Watcher!stop
  <2>1. UNCHANGED <<watches, last_wd, events, file2wd, wd2file, batch, told, deleted, aliased>>
    BY <1>2 DEF Watcher!start, Watcher!stop, Watcher!kernel, Watcher!ghosts
  <2>2. Watcher!Unread' = Watcher!Unread
    BY <2>1 DEF Watcher!Unread
  <2> QED  BY <1>0, <2>1, <2>2, TablesAlone
<1>3. CASE Watcher!on_event
  <2>1. /\ batch # <<>> /\ batch' = Tail(batch)
        /\ told' = IF Head(batch).mask = "delete" /\ Head(batch).wd \in DOMAIN wd2file
                   THEN told \cup {Head(batch).wd} ELSE told
        /\ UNCHANGED <<watches, last_wd, events, file2wd, wd2file, deleted, aliased>>
    BY <1>3 DEF Watcher!on_event, Watcher!kernel
  <2>2. batch' \in Seq(Watcher!Change) /\ batch = <<Head(batch)>> \o batch' /\ <<Head(batch)>> \in Seq(Watcher!Change)
    BY <1>0, <2>1
  <2>3. Watcher!ToSet(batch) = {Head(batch)} \cup Watcher!ToSet(batch')
    <3>1. Watcher!ToSet(<<Head(batch)>>) = {Head(batch)}
      BY DEF Watcher!ToSet
    <3>2. Watcher!ToSet(<<Head(batch)>>) \cup Watcher!ToSet(batch') = Watcher!ToSet(<<Head(batch)>> \o batch')
      BY <2>2, EventsGrow, Zenon
    <3> QED  BY <2>2, <3>1, <3>2, Zenon
  <2>4. ASSUME NEW wd \in DOMAIN wd2file, Watcher!Event(wd, "delete") \in Watcher!Unread
        PROVE  wd \in told' \/ Watcher!Event(wd, "delete") \in Watcher!Unread'
    <3>1. CASE Watcher!Event(wd, "delete") = Head(batch)
      <4>1. Head(batch).mask = "delete" /\ Head(batch).wd = wd
        BY <3>1 DEF Watcher!Event
      <4> QED  BY <2>1, <4>1
    <3>2. CASE Watcher!Event(wd, "delete") # Head(batch)
      BY <2>1, <2>3, <2>4, <3>2 DEF Watcher!Unread
    <3> QED  BY <3>1, <3>2
  <2>5. told \subseteq told'
    BY <2>1
  <2> QED  BY <1>0, <2>1, <2>2, <2>4, <2>5, TablesAlone
<1> QED  BY <1>1, <1>2, <1>3

\* The file watcher's part of a process that only watches
LEMMA WatcherInvariance == ClientsSpec => []Watcher!WatchesAgree
<1>1. ClientsInit => Watcher!IInv
  <2> SUFFICES ASSUME Watcher!Init PROVE Watcher!IInv
    BY DEF ClientsInit
  <2>1. DOMAIN watches = {} /\ DOMAIN file2wd = {} /\ DOMAIN wd2file = {} /\ last_wd = 0 /\ events = <<>> /\ batch = <<>>
    BY DEF Watcher!Init, Watcher!Empty
  <2> QED  BY <2>1 DEF Watcher!IInv, Watcher!WatchesAgree
<1>2. Watcher!IInv /\ [ClientsNext]_clientVars => Watcher!IInv'
  <2> SUFFICES ASSUME Watcher!IInv, [Watcher!Next]_watcherVars PROVE Watcher!IInv'
    <3>1. [ClientsNext]_clientVars => [Watcher!Next]_watcherVars
      BY Zenon DEF ClientsNext, clientVars, OnlyRedis
    <3> QED  BY <3>1
  <2>1. CASE UNCHANGED watcherVars
    <3>1. Watcher!Unread' = Watcher!Unread
      BY <2>1 DEF watcherVars, Watcher!Unread
    <3> QED  BY <2>1, <3>1, TablesAlone DEF watcherVars, Watcher!IInv
  <2>2. ASSUME NEW f \in Names, Watcher!watch(f) PROVE Watcher!IInv'
    BY <2>2, WatchKeeps
  <2>3. ASSUME NEW f \in Names, Watcher!unwatch(f) PROVE Watcher!IInv'
    BY <2>3, UnwatchKeeps
  <2> QED  BY <2>1, <2>2, <2>3, KernelKeeps, ReaderKeeps, Zenon DEF Watcher!Next
<1>3. Watcher!IInv => Watcher!WatchesAgree
  BY DEF Watcher!IInv
<1> QED  BY <1>1, <1>2, <1>3, PTL DEF ClientsSpec
------------------------------------------------------------------------------
\* Whatever the loop, libcurl, the peers and the kernel do and in whatever
\* order: a request is answered once and always waited for, and its socket has
\* one context (rest_client.cpp); a connection belongs to its client or its
\* server until on_close() (tcp_client.cpp, tcp_server.cpp); and the tables of
\* the file watcher stay each other's inverse and name watches the kernel has
\* or has told the removal of (file_watcher.cpp).
THEOREM ClientsSound == ClientsSpec => []ClientsAreSound
<1>1. ClientsSpec => []Http!RequestsKept
  BY ClientConstants, RequestsInvariance
<1>2. ClientsSpec => []Tcp!PeersAgree
  BY ClientConstants, PeersInvariance
<1>3. ClientsSpec => []Watcher!WatchesAgree
  BY WatcherInvariance
<1>4. Http!RequestsKept /\ Tcp!PeersAgree /\ Watcher!WatchesAgree => ClientsAreSound
  BY DEF ClientsAreSound
<1> QED  BY <1>1, <1>2, <1>3, <1>4, PTL
==============================================================================
