--------------------------- MODULE BusRouterProofs ---------------------------
(***************************************************************************)
(* The proofs that the tables of the bus daemon stay consistent            *)
(* (TablesConsistent of BusRouter) and that it neither forgets, doubles    *)
(* nor reorders a message (MessagesKept), for any local processes, hosts,  *)
(* channel sizes and numbers of messages, registrations and failures.      *)
(***************************************************************************)
EXTENDS BusRouter, FiniteSetTheorems, WellFoundedInduction, TLAPS

\* What may be sent once n messages have been.
Message(n) == [id : 1 .. n, src : BusId, dst : BusId]

Queue(n) == Seq(Message(n))
Route == Host \cup {NoHost}
Endpoint == {"none", "connecting", "connected", "failed"}
Waiting == {"connecting", "failed"}

MailType(n) == [busq : [BusId -> Queue(n)], hostq : [Peers -> Queue(n)], ep : [Peers -> Endpoint],
                wire : [Peers -> Queue(n)], rchan : [Local -> Queue(n)], lost : SUBSET (1 .. n)]

\* The mail agrees with the routes it is handled by.
Sorted(s, active, inactive) ==
  /\ \A b \in Local : Len(s.rchan[b]) <= ChanCap[b]
  /\ \A b \in BusId : s.busq[b] # <<>> => active[b] = NoHost /\ b \notin inactive
  /\ \A h \in Peers : (s.hostq[h] # <<>>) <=> (s.ep[h] \in Waiting)

\* A request to delete a route is made for a bus id that is active, and from
\* then on that is active or known to have left.
DelIsKnown ==
  \A b \in Local : \A stage \in {"sent", "ok", "failed"} :
    reqs[Req("del", b, stage)] > 0 => active_endpoints[b] # NoHost \/ b \in inactive_endpoints

Types ==
  /\ desc \in [Local -> {"none", "open", "closed"}]
  /\ sigs \in Seq(Signal)
  /\ active_endpoints \in [BusId -> Route] /\ inactive_endpoints \in SUBSET BusId
  /\ kv \in [BusId -> Route]
  /\ watch.kind \in {"armed", "error", "routes"}
  /\ watch.kind = "routes" => watch.routes \in [BusId -> Route]
  /\ reqs \in [Op \X Local \X Stage -> Nat]
  /\ sent \in Nat

Parts(n) ==
  /\ busid2queue \in [BusId -> Queue(n)] /\ host2queue \in [Peers -> Queue(n)]
  /\ host2endpoints \in [Peers -> Endpoint] /\ wire \in [Peers -> Queue(n)]
  /\ rchan \in [Local -> Queue(n)] /\ dropped \in SUBSET (1 .. n)

PartsSorted ==
  /\ \A b \in Local : Len(rchan[b]) <= ChanCap[b]
  /\ \A b \in BusId : busid2queue[b] # <<>> => active_endpoints[b] = NoHost /\ b \notin inactive_endpoints
  /\ \A h \in Peers : (host2queue[h] # <<>>) <=> (host2endpoints[h] \in Waiting)

ChannelsTyped ==
  /\ wchan \in [Local -> Queue(sent)] /\ inwire \in Queue(sent)
  /\ \A b \in Local : Len(wchan[b]) <= ChanCap[b]

LeftIsUnrouted == \A b \in inactive_endpoints : active_endpoints[b] = NoHost

IInv == Types /\ ChannelsTyped /\ Parts(sent) /\ PartsSorted /\ DelIsKnown /\ LeftIsUnrouted
------------------------------------------------------------------------------
(* Folding over a sequence *)

LEMMA Smallest ==
  ASSUME NEW S, S \subseteq Nat, S # {}
  PROVE  \E x \in S : \A y \in S : x <= y
<1>1. PICK x \in S : \A y \in S : ~(<<y, x>> \in OpToRel(<, Nat))
  BY WFMin, NatLessThanWellFounded
<1>2. ASSUME NEW y \in S PROVE x <= y
  <2>1. x \in Nat /\ y \in Nat
    OBVIOUS
  <2>2. ~(y < x)
    BY <1>1, <2>1 DEF OpToRel
  <2> QED  BY <2>1, <2>2
<1> QED  BY <1>2

\* A set of numbers that holds 0, and with each number the next, holds all.
LEMMA Induction ==
  ASSUME NEW S, 0 \in S, \A n \in Nat : n \in S => n + 1 \in S
  PROVE  Nat \subseteq S
<1> SUFFICES ASSUME ~(Nat \subseteq S) PROVE FALSE
  OBVIOUS
<1> DEFINE B == Nat \ S
<1>1. B \subseteq Nat /\ B # {}
  OBVIOUS
<1> HIDE DEF B
<1>2. PICK x \in B : \A y \in B : x <= y
  BY <1>1, Smallest
<1>3. x \in Nat /\ x # 0
  BY <1>1 DEF B
<1>4. x - 1 \in Nat /\ x - 1 \in S
  <2>1. x - 1 \in Nat /\ ~(x <= x - 1)
    BY <1>3
  <2> QED  BY <1>2, <2>1 DEF B
<1> QED  BY <1>3, <1>4 DEF B

Leads(g, n, I) == \A i \in 1 .. n : g[i - 1] \in I => g[i] \in I

\* Whatever leads from each element of a sequence to the next leads to the last.
LEMMA Reaches ==
  ASSUME NEW I, NEW n \in Nat, NEW g, g[0] \in I, Leads(g, n, I)
  PROVE  \A i \in 0 .. n : g[i] \in I
<1> USE DEF Leads
<1> DEFINE S == {i \in Nat : i <= n => g[i] \in I}
<1>1. 0 \in S
  OBVIOUS
<1>2. \A i \in Nat : i \in S => i + 1 \in S
  <2> SUFFICES ASSUME NEW i \in S, i + 1 <= n PROVE g[i + 1] \in I
    OBVIOUS
  <2>1. i + 1 \in 1 .. n /\ (i + 1) - 1 = i /\ i <= n
    OBVIOUS
  <2>2. g[i] \in I
    BY <2>1
  <2> QED  BY <2>1, <2>2
<1> HIDE DEF S
<1>3. Nat \subseteq S
  BY <1>1, <1>2, Induction
<1> QED  BY <1>3 DEF S

\* The same for a set of positions.
LEMMA Steps ==
  ASSUME NEW n \in Nat, NEW S, 0 \in S, \A i \in 1 .. n : i - 1 \in S => i \in S
  PROVE  \A i \in 0 .. n : i \in S
<1> DEFINE T == {i \in Nat : i <= n => i \in S}
<1>1. 0 \in T
  OBVIOUS
<1>2. \A i \in Nat : i \in T => i + 1 \in T
  <2> SUFFICES ASSUME NEW i \in T, i + 1 <= n PROVE i + 1 \in S
    OBVIOUS
  <2>1. i + 1 \in 1 .. n /\ (i + 1) - 1 = i /\ i \in S
    OBVIOUS
  <2> QED  BY <2>1
<1> HIDE DEF T
<1>3. Nat \subseteq T
  BY <1>1, <1>2, Induction
<1> QED  BY <1>3 DEF T

IsFold(f, step, s, ms) ==
  \A i \in 0 .. Len(ms) : f[i] = IF i = 0 THEN s ELSE step[<<f[i - 1], ms[i]>>]

\* A fold is defined: the function that a recursive definition asks for exists.
LEMMA FoldExists ==
  ASSUME NEW I, NEW M, NEW step \in [I \X M -> I], NEW s \in I, NEW ms \in Seq(M)
  PROVE  \E f \in [0 .. Len(ms) -> I] : IsFold(f, step, s, ms)
<1> USE DEF IsFold
<1> DEFINE Upto(n, f) == \A i \in 0 .. n : f[i] = IF i = 0 THEN s ELSE step[<<f[i - 1], ms[i]>>]
           Has(n) == n <= Len(ms) => \E f \in [0 .. n -> I] : Upto(n, f)
           S == {n \in Nat : Has(n)}
<1>1. 0 \in S
  <2>1. [i \in 0 .. 0 |-> s] \in [0 .. 0 -> I] /\ Upto(0, [i \in 0 .. 0 |-> s])
    OBVIOUS
  <2> QED  BY <2>1, Zenon
<1>2. \A n \in Nat : n \in S => n + 1 \in S
  <2> SUFFICES ASSUME NEW n \in Nat, Has(n) PROVE Has(n + 1)
    <3> HIDE DEF Has
    <3> QED  OBVIOUS
  <2> SUFFICES ASSUME n + 1 <= Len(ms)
               PROVE  \E f \in [0 .. n + 1 -> I] : Upto(n + 1, f)
    OBVIOUS
  <2>1. n <= Len(ms) /\ n + 1 \in 1 .. Len(ms)
    OBVIOUS
  <2>2. PICK f \in [0 .. n -> I] : Upto(n, f)
    BY <2>1
  <2> DEFINE x == step[<<f[n], ms[n + 1]>>]
             g == [i \in 0 .. n + 1 |-> IF i = n + 1 THEN x ELSE f[i]]
  <2>3. x \in I
    BY <2>1
  <2>4. g \in [0 .. n + 1 -> I]
    <3> HIDE DEF x
    <3> QED  BY <2>3
  <2>5. ASSUME NEW i \in 0 .. n + 1 PROVE g[i] = IF i = 0 THEN s ELSE step[<<g[i - 1], ms[i]>>]
    <3>1. CASE i = n + 1
      <4>1. g[i] = x /\ i # 0 /\ i - 1 = n /\ g[i - 1] = f[n]
        BY <3>1
      <4> QED  BY <3>1, <4>1
    <3>2. CASE i = 0
      <4>1. 0 \in 0 .. n /\ 0 \in 0 .. n + 1 /\ 0 # n + 1
        OBVIOUS
      <4>2. f[0] = s
        BY <2>2, <4>1
      <4>3. g[0] = f[0]
        BY <4>1, Zenon
      <4> HIDE DEF g
      <4> QED  BY <3>2, <4>2, <4>3
    <3>3. CASE i # n + 1 /\ i # 0
      <4>1. g[i] = f[i] /\ g[i - 1] = f[i - 1] /\ i \in 0 .. n
        BY <3>3
      <4> QED  BY <2>2, <3>3, <4>1
    <3> QED  BY <3>1, <3>2, <3>3
  <2> QED  BY <2>4, <2>5
<1> HIDE DEF S
<1>3. Nat \subseteq S
  BY <1>1, <1>2, Induction
<1> QED  BY <1>3 DEF S
------------------------------------------------------------------------------
(* One message *)

Box(n, active, inactive) == {s \in MailType(n) : Sorted(s, active, inactive)}

LEMMA DropKeeps ==
  ASSUME NEW n \in Nat, NEW a, NEW ina, NEW s \in Box(n, a, ina), NEW m \in Message(n)
  PROVE  Drop(s, m) \in Box(n, a, ina)
<1>1. m.id \in 1 .. n
  BY DEF Message
<1>2. s \in MailType(n) /\ Sorted(s, a, ina)
  BY DEF Box
<1> DEFINE k == Drop(s, m)
<1>3. /\ k \in MailType(n)
      /\ k.rchan = s.rchan /\ k.busq = s.busq /\ k.hostq = s.hostq /\ k.ep = s.ep
  BY <1>1, <1>2 DEF Drop, MailType
<1> HIDE DEF k
<1>4. Sorted(k, a, ina)
  BY <1>2, <1>3 DEF Sorted
<1> QED  BY <1>3, <1>4 DEF Box, k

LEMMA LocalKeeps ==
  ASSUME NEW n \in Nat, NEW a, NEW ina, NEW s \in Box(n, a, ina), NEW m \in Message(n)
  PROVE  send_local_message(s, m) \in Box(n, a, ina)
<1>1. CASE ~(m.dst \in Local /\ desc[m.dst] = "open" /\ Len(s.rchan[m.dst]) < ChanCap[m.dst])
  BY <1>1, DropKeeps DEF send_local_message
<1>2. CASE m.dst \in Local /\ desc[m.dst] = "open" /\ Len(s.rchan[m.dst]) < ChanCap[m.dst]
  <2> DEFINE d == m.dst
             q == Append(s.rchan[d], m)
             k == [s EXCEPT !.rchan = [@ EXCEPT ![d] = q]]
  <2>1. s \in MailType(n) /\ Sorted(s, a, ina)
    BY DEF Box
  <2>2. s.rchan \in [Local -> Queue(n)]
    BY <2>1 DEF MailType
  <2>3. q \in Queue(n) /\ Len(q) = Len(s.rchan[d]) + 1 /\ Len(s.rchan[d]) \in Nat
    BY <1>2, <2>2 DEF Queue
  <2>4. Len(q) <= ChanCap[d]
    BY <1>2, <2>3, RouterAssumption DEF RouterAssumption
  <2>5. send_local_message(s, m) = k
    BY <1>2, Zenon DEF send_local_message
  <2> HIDE DEF q
  <2>6. /\ k \in MailType(n)
        /\ k.rchan = [s.rchan EXCEPT ![d] = q]
        /\ k.busq = s.busq /\ k.hostq = s.hostq /\ k.ep = s.ep
    BY <1>2, <2>1, <2>2, <2>3 DEF MailType
  <2> HIDE DEF k
  <2>7. Sorted(k, a, ina)
    BY <1>2, <2>1, <2>2, <2>4, <2>6 DEF Sorted
  <2> QED  BY <2>5, <2>6, <2>7 DEF Box
<1> QED  BY <1>1, <1>2

LEMMA RemoteKeeps ==
  ASSUME NEW n \in Nat, NEW a, NEW ina, NEW s \in Box(n, a, ina), NEW m \in Message(n), NEW h \in Peers
  PROVE  SendRemote(s, h, m) \in Box(n, a, ina)
<1>1. CASE ~link[h]
  BY <1>1, DropKeeps DEF SendRemote
<1>2. CASE link[h]
  <2> DEFINE q == Append(s.wire[h], m)
             k == [s EXCEPT !.wire = [@ EXCEPT ![h] = q]]
  <2>1. s \in MailType(n) /\ Sorted(s, a, ina)
    BY DEF Box
  <2>2. q \in Queue(n)
    BY <2>1 DEF MailType, Queue
  <2>3. SendRemote(s, h, m) = k
    BY <1>2, Zenon DEF SendRemote
  <2> HIDE DEF q
  <2>4. /\ k \in MailType(n)
        /\ k.rchan = s.rchan /\ k.busq = s.busq /\ k.hostq = s.hostq /\ k.ep = s.ep
    BY <2>1, <2>2 DEF MailType
  <2> HIDE DEF k
  <2>5. Sorted(k, a, ina)
    BY <2>1, <2>4 DEF Sorted
  <2> QED  BY <2>3, <2>4, <2>5 DEF Box
<1> QED  BY <1>1, <1>2

LEMMA NotEmpty ==
  ASSUME NEW n \in Nat, NEW q \in Queue(n), NEW m \in Message(n)
  PROVE  Append(q, m) \in Queue(n) /\ Append(q, m) # <<>>
  BY DEF Queue

\* A message is queued for a peer, and a connection to it is on its way.
LEMMA EnqueueKeeps ==
  ASSUME NEW n \in Nat, NEW a, NEW ina, NEW s \in Box(n, a, ina), NEW m \in Message(n), NEW h \in Peers,
         s.ep[h] # "connected"
  PROVE  Enqueue([s EXCEPT !.ep[h] = IF @ = "none" THEN "connecting" ELSE @], h, m) \in Box(n, a, ina)
<1> DEFINE e == IF s.ep[h] = "none" THEN "connecting" ELSE s.ep[h]
           q == Append(s.hostq[h], m)
           k == [s EXCEPT !.ep = [@ EXCEPT ![h] = e], !.hostq = [@ EXCEPT ![h] = q]]
<1>1. s \in MailType(n) /\ Sorted(s, a, ina)
  BY DEF Box
<1>2. s.ep \in [Peers -> Endpoint] /\ s.hostq \in [Peers -> Queue(n)]
  BY <1>1 DEF MailType
<1>3. e \in Waiting /\ e \in Endpoint
  BY <1>2 DEF Endpoint, Waiting
<1>4. q \in Queue(n) /\ q # <<>>
  BY <1>2, NotEmpty
<1>5. Enqueue([s EXCEPT !.ep[h] = IF @ = "none" THEN "connecting" ELSE @], h, m) = k
  BY <1>1 DEF Enqueue, MailType
<1> HIDE DEF e, q
<1>6. /\ k \in MailType(n)
      /\ k.ep = [s.ep EXCEPT ![h] = e] /\ k.hostq = [s.hostq EXCEPT ![h] = q]
      /\ k.rchan = s.rchan /\ k.busq = s.busq
  BY <1>1, <1>2, <1>3, <1>4 DEF MailType
<1> HIDE DEF k
<1>7. Sorted(k, a, ina)
  BY <1>1, <1>2, <1>3, <1>4, <1>6 DEF Sorted
<1> QED  BY <1>5, <1>6, <1>7 DEF Box

LEMMA ToPeerKeeps ==
  ASSUME NEW n \in Nat, NEW a, NEW ina, NEW s \in Box(n, a, ina), NEW m \in Message(n), NEW h \in Peers,
         NEW ok
  PROVE  ToPeer(s, h, m, ok) \in Box(n, a, ina)
<1>1. CASE s.ep[h] = "connected"
  <2>1. ToPeer(s, h, m, ok) = SendRemote(s, h, m)
    BY <1>1 DEF ToPeer
  <2> QED  BY <2>1, RemoteKeeps
<1>2. CASE s.ep[h] = "none" /\ ~ok
  <2>1. ToPeer(s, h, m, ok) = Drop(s, m)
    BY <1>2 DEF ToPeer
  <2> QED  BY <2>1, DropKeeps
<1>3. CASE s.ep[h] # "connected" /\ ~(s.ep[h] = "none" /\ ~ok)
  <2> DEFINE k == Enqueue([s EXCEPT !.ep[h] = IF @ = "none" THEN "connecting" ELSE @], h, m)
  <2>1. ToPeer(s, h, m, ok) = k
    BY <1>3, Zenon DEF ToPeer
  <2> QED  BY <1>3, <2>1, EnqueueKeeps
<1> QED  BY <1>1, <1>2, <1>3

\* A message waits for a route.
LEMMA WaitKeeps ==
  ASSUME NEW n \in Nat, NEW a, NEW ina, NEW s \in Box(n, a, ina), NEW m \in Message(n),
         a[m.dst] = NoHost, m.dst \notin ina
  PROVE  [s EXCEPT !.busq[m.dst] = Append(@, m)] \in Box(n, a, ina)
<1> DEFINE d == m.dst
           q == Append(s.busq[d], m)
           k == [s EXCEPT !.busq = [@ EXCEPT ![d] = q]]
<1>1. s \in MailType(n) /\ Sorted(s, a, ina)
  BY DEF Box
<1>2. s.busq \in [BusId -> Queue(n)] /\ d \in BusId
  BY <1>1 DEF MailType, Message
<1>3. q \in Queue(n)
  BY <1>2, NotEmpty
<1>4. [s EXCEPT !.busq[m.dst] = Append(@, m)] = k
  BY Zenon
<1> HIDE DEF q
<1>5. /\ k \in MailType(n)
      /\ k.busq = [s.busq EXCEPT ![d] = q]
      /\ k.rchan = s.rchan /\ k.hostq = s.hostq /\ k.ep = s.ep
  BY <1>1, <1>2, <1>3 DEF MailType
<1> HIDE DEF k
<1>6. Sorted(k, a, ina)
  BY <1>1, <1>2, <1>5 DEF Sorted
<1> QED  BY <1>4, <1>5, <1>6 DEF Box

\* Messages that wait by one table may wait by another.
Covers(a, ina, A, B) == \A d \in BusId : a[d] = NoHost /\ d \notin ina => A[d] = NoHost /\ d \notin B

LEMMA HandleKeeps ==
  ASSUME NEW n \in Nat, NEW a \in [BusId -> Route], NEW ina, NEW A, NEW B, Covers(a, ina, A, B),
         NEW s \in Box(n, A, B), NEW m \in Message(n), NEW ok
  PROVE  handle_message(s, m, a, ina, ok) \in Box(n, A, B)
<1>1. m.dst \in BusId
  BY DEF Message
<1>2. Here # NoHost
  BY RouterAssumption DEF RouterAssumption, Host
<1>3. CASE m.dst \in ina
  <2>1. handle_message(s, m, a, ina, ok) = Drop(s, m)
    BY <1>3 DEF handle_message
  <2> QED  BY <2>1, DropKeeps
<1>4. CASE m.dst \notin ina /\ a[m.dst] = NoHost
  <2> DEFINE k == [s EXCEPT !.busq[m.dst] = Append(@, m)]
  <2>1. k \in Box(n, A, B)
    <3>1. A[m.dst] = NoHost /\ m.dst \notin B
      BY <1>1, <1>4 DEF Covers
    <3> QED  BY <3>1, WaitKeeps, Zenon
  <2>2. a[m.dst] # Here
    BY <1>4, <1>2
  <2>3. handle_message(s, m, a, ina, ok) = k
    BY <1>4, <2>2, Zenon DEF handle_message
  <2> HIDE DEF k
  <2> QED  BY <2>1, <2>3
<1>5. CASE m.dst \notin ina /\ a[m.dst] = Here
  <2>1. handle_message(s, m, a, ina, ok) = send_local_message(s, m)
    BY <1>5, <1>2, Zenon DEF handle_message
  <2> QED  BY <2>1, LocalKeeps
<1>6. CASE m.dst \notin ina /\ a[m.dst] # NoHost /\ a[m.dst] # Here
  <2>1. handle_message(s, m, a, ina, ok) = ToPeer(s, a[m.dst], m, ok)
    BY <1>6, Zenon DEF handle_message
  <2>2. a[m.dst] \in Peers
    BY <1>1, <1>6 DEF Route, Host
  <2> QED  BY <2>1, <2>2, ToPeerKeeps
<1> QED  BY <1>3, <1>4, <1>5, <1>6
------------------------------------------------------------------------------
(* A queue of messages *)

\* g is the mail, message by message, all of it in I.
Goes(g, s, ms, k, I) == g[0] = s /\ g[Len(ms)] = k /\ \A i \in 0 .. Len(ms) : g[i] \in I

LEMMA HandleAllRuns ==
  ASSUME NEW n \in Nat, NEW a \in [BusId -> Route], NEW ina, NEW A, NEW B, Covers(a, ina, A, B),
         NEW s \in Box(n, A, B), NEW ms \in Queue(n), NEW ok
  PROVE  \E g : Goes(g, s, ms, HandleAll(s, ms, a, ina, ok), Box(n, A, B))
                /\ \A i \in 1 .. Len(ms) : g[i] = handle_message(g[i - 1], ms[i], a, ina, ok)
<1> DEFINE I == Box(n, A, B)
           M == Message(n)
           Step(t, m) == handle_message(t, m, a, ina, ok)
           step == [p \in I \X M |-> Step(p[1], p[2])]
           Runs(f) == f = [i \in 0 .. Len(ms) |-> IF i = 0 THEN s ELSE Step(f[i - 1], ms[i])]
<1>1. \A t \in I, m \in M : Step(t, m) \in I
  BY HandleKeeps
<1>2. HandleAll(s, ms, a, ina, ok) = (CHOOSE f : Runs(f))[Len(ms)]
  BY DEF HandleAll
<1>3. ms \in Seq(M) /\ Len(ms) \in Nat /\ \A i \in 1 .. Len(ms) : ms[i] \in M
  BY DEF Queue
<1> HIDE DEF I, M, Step
<1>4. \E f : Runs(f)
  <2>1. step \in [I \X M -> I]
    BY <1>1
  <2>2. \A t \in I, m \in M : step[<<t, m>>] = Step(t, m)
    OBVIOUS
  <2>3. s \in I
    BY DEF I
  <2> HIDE DEF step
  <2>4. PICK f \in [0 .. Len(ms) -> I] : IsFold(f, step, s, ms)
    BY <1>3, <2>1, <2>3, FoldExists
  <2>5. ASSUME NEW i \in 0 .. Len(ms) PROVE f[i] = IF i = 0 THEN s ELSE Step(f[i - 1], ms[i])
    <3>1. CASE i = 0
      BY <2>4, <3>1 DEF IsFold
    <3>2. CASE i # 0
      <4>1. i - 1 \in 0 .. Len(ms) /\ i \in 1 .. Len(ms)
        BY <1>3, <3>2
      <4> QED  BY <1>3, <2>2, <2>4, <3>2, <4>1 DEF IsFold
    <3> QED  BY <3>1, <3>2
  <2>6. f = [i \in 0 .. Len(ms) |-> IF i = 0 THEN s ELSE Step(f[i - 1], ms[i])]
    BY <2>5
  <2> QED  BY <2>6
<1> DEFINE g == CHOOSE f : Runs(f)
<1>5. Runs(g)
  BY <1>4, Zenon
<1> HIDE DEF g
<1>6. g[0] \in I /\ Leads(g, Len(ms), I)
  <2>1. 0 \in 0 .. Len(ms) /\ g[0] = s /\ s \in I
    BY <1>3, <1>5 DEF I
  <2>2. ASSUME NEW i \in 1 .. Len(ms), g[i - 1] \in I PROVE g[i] \in I
    <3>1. i \in 0 .. Len(ms) /\ i # 0
      BY <1>3
    <3>2. g[i] = Step(g[i - 1], ms[i])
      BY <1>5, <3>1
    <3> QED  BY <1>1, <1>3, <2>2, <3>2
  <2> QED  BY <2>1, <2>2 DEF Leads
<1>7. \A i \in 0 .. Len(ms) : g[i] \in I
  BY <1>3, <1>6, Reaches, Zenon
<1>8. g[0] = s /\ \A i \in 1 .. Len(ms) : g[i] = Step(g[i - 1], ms[i])
  <2>1. 0 \in 0 .. Len(ms) /\ \A i \in 1 .. Len(ms) : i \in 0 .. Len(ms) /\ i # 0
    BY <1>3
  <2> QED  BY <1>5, <2>1
<1>9. Goes(g, s, ms, g[Len(ms)], I)
  BY <1>7, <1>8 DEF Goes
<1> QED  BY <1>2, <1>8, <1>9, Zenon DEF g, I, Step

LEMMA LocalAllRuns ==
  ASSUME NEW n \in Nat, NEW a, NEW ina, NEW s \in Box(n, a, ina), NEW ms \in Queue(n)
  PROVE  \E g : Goes(g, s, ms, SendAllLocal(s, ms), Box(n, a, ina))
                /\ \A i \in 1 .. Len(ms) : g[i] = send_local_message(g[i - 1], ms[i])
<1> DEFINE I == Box(n, a, ina)
           M == Message(n)
           Step(t, m) == send_local_message(t, m)
           step == [p \in I \X M |-> Step(p[1], p[2])]
           Runs(f) == f = [i \in 0 .. Len(ms) |-> IF i = 0 THEN s ELSE Step(f[i - 1], ms[i])]
<1>1. \A t \in I, m \in M : Step(t, m) \in I
  BY LocalKeeps
<1>2. SendAllLocal(s, ms) = (CHOOSE f : Runs(f))[Len(ms)]
  BY DEF SendAllLocal
<1>3. ms \in Seq(M) /\ Len(ms) \in Nat /\ \A i \in 1 .. Len(ms) : ms[i] \in M
  BY DEF Queue
<1> HIDE DEF I, M, Step
<1>4. \E f : Runs(f)
  <2>1. step \in [I \X M -> I]
    BY <1>1
  <2>2. \A t \in I, m \in M : step[<<t, m>>] = Step(t, m)
    OBVIOUS
  <2>3. s \in I
    BY DEF I
  <2> HIDE DEF step
  <2>4. PICK f \in [0 .. Len(ms) -> I] : IsFold(f, step, s, ms)
    BY <1>3, <2>1, <2>3, FoldExists
  <2>5. ASSUME NEW i \in 0 .. Len(ms) PROVE f[i] = IF i = 0 THEN s ELSE Step(f[i - 1], ms[i])
    <3>1. CASE i = 0
      BY <2>4, <3>1 DEF IsFold
    <3>2. CASE i # 0
      <4>1. i - 1 \in 0 .. Len(ms) /\ i \in 1 .. Len(ms)
        BY <1>3, <3>2
      <4> QED  BY <1>3, <2>2, <2>4, <3>2, <4>1 DEF IsFold
    <3> QED  BY <3>1, <3>2
  <2>6. f = [i \in 0 .. Len(ms) |-> IF i = 0 THEN s ELSE Step(f[i - 1], ms[i])]
    BY <2>5
  <2> QED  BY <2>6
<1> DEFINE g == CHOOSE f : Runs(f)
<1>5. Runs(g)
  BY <1>4, Zenon
<1> HIDE DEF g
<1>6. g[0] \in I /\ Leads(g, Len(ms), I)
  <2>1. 0 \in 0 .. Len(ms) /\ g[0] = s /\ s \in I
    BY <1>3, <1>5 DEF I
  <2>2. ASSUME NEW i \in 1 .. Len(ms), g[i - 1] \in I PROVE g[i] \in I
    <3>1. i \in 0 .. Len(ms) /\ i # 0
      BY <1>3
    <3>2. g[i] = Step(g[i - 1], ms[i])
      BY <1>5, <3>1
    <3> QED  BY <1>1, <1>3, <2>2, <3>2
  <2> QED  BY <2>1, <2>2 DEF Leads
<1>7. \A i \in 0 .. Len(ms) : g[i] \in I
  BY <1>3, <1>6, Reaches, Zenon
<1>8. g[0] = s /\ \A i \in 1 .. Len(ms) : g[i] = Step(g[i - 1], ms[i])
  <2>1. 0 \in 0 .. Len(ms) /\ \A i \in 1 .. Len(ms) : i \in 0 .. Len(ms) /\ i # 0
    BY <1>3
  <2> QED  BY <1>5, <2>1
<1>9. Goes(g, s, ms, g[Len(ms)], I)
  BY <1>7, <1>8 DEF Goes
<1> QED  BY <1>2, <1>8, <1>9, Zenon DEF g, I, Step

LEMMA RemoteAllRuns ==
  ASSUME NEW n \in Nat, NEW a, NEW ina, NEW s \in Box(n, a, ina), NEW ms \in Queue(n), NEW h \in Peers
  PROVE  \E g : Goes(g, s, ms, SendAllRemote(s, h, ms), Box(n, a, ina))
                /\ \A i \in 1 .. Len(ms) : g[i] = SendRemote(g[i - 1], h, ms[i])
<1> DEFINE I == Box(n, a, ina)
           M == Message(n)
           Step(t, m) == SendRemote(t, h, m)
           step == [p \in I \X M |-> Step(p[1], p[2])]
           Runs(f) == f = [i \in 0 .. Len(ms) |-> IF i = 0 THEN s ELSE Step(f[i - 1], ms[i])]
<1>1. \A t \in I, m \in M : Step(t, m) \in I
  BY RemoteKeeps
<1>2. SendAllRemote(s, h, ms) = (CHOOSE f : Runs(f))[Len(ms)]
  BY DEF SendAllRemote
<1>3. ms \in Seq(M) /\ Len(ms) \in Nat /\ \A i \in 1 .. Len(ms) : ms[i] \in M
  BY DEF Queue
<1> HIDE DEF I, M, Step
<1>4. \E f : Runs(f)
  <2>1. step \in [I \X M -> I]
    BY <1>1
  <2>2. \A t \in I, m \in M : step[<<t, m>>] = Step(t, m)
    OBVIOUS
  <2>3. s \in I
    BY DEF I
  <2> HIDE DEF step
  <2>4. PICK f \in [0 .. Len(ms) -> I] : IsFold(f, step, s, ms)
    BY <1>3, <2>1, <2>3, FoldExists
  <2>5. ASSUME NEW i \in 0 .. Len(ms) PROVE f[i] = IF i = 0 THEN s ELSE Step(f[i - 1], ms[i])
    <3>1. CASE i = 0
      BY <2>4, <3>1 DEF IsFold
    <3>2. CASE i # 0
      <4>1. i - 1 \in 0 .. Len(ms) /\ i \in 1 .. Len(ms)
        BY <1>3, <3>2
      <4> QED  BY <1>3, <2>2, <2>4, <3>2, <4>1 DEF IsFold
    <3> QED  BY <3>1, <3>2
  <2>6. f = [i \in 0 .. Len(ms) |-> IF i = 0 THEN s ELSE Step(f[i - 1], ms[i])]
    BY <2>5
  <2> QED  BY <2>6
<1> DEFINE g == CHOOSE f : Runs(f)
<1>5. Runs(g)
  BY <1>4, Zenon
<1> HIDE DEF g
<1>6. g[0] \in I /\ Leads(g, Len(ms), I)
  <2>1. 0 \in 0 .. Len(ms) /\ g[0] = s /\ s \in I
    BY <1>3, <1>5 DEF I
  <2>2. ASSUME NEW i \in 1 .. Len(ms), g[i - 1] \in I PROVE g[i] \in I
    <3>1. i \in 0 .. Len(ms) /\ i # 0
      BY <1>3
    <3>2. g[i] = Step(g[i - 1], ms[i])
      BY <1>5, <3>1
    <3> QED  BY <1>1, <1>3, <2>2, <3>2
  <2> QED  BY <2>1, <2>2 DEF Leads
<1>7. \A i \in 0 .. Len(ms) : g[i] \in I
  BY <1>3, <1>6, Reaches, Zenon
<1>8. g[0] = s /\ \A i \in 1 .. Len(ms) : g[i] = Step(g[i - 1], ms[i])
  <2>1. 0 \in 0 .. Len(ms) /\ \A i \in 1 .. Len(ms) : i \in 0 .. Len(ms) /\ i # 0
    BY <1>3
  <2> QED  BY <1>5, <2>1
<1>9. Goes(g, s, ms, g[Len(ms)], I)
  BY <1>7, <1>8 DEF Goes
<1> QED  BY <1>2, <1>8, <1>9, Zenon DEF g, I, Step

\* The queues of all bus ids are handled, one after the other.
LEMMA BusOrdered ==
  /\ BusOrder \in Seq(BusId) /\ Len(BusOrder) \in Nat
  /\ \A b \in BusId : \E i \in 1 .. Len(BusOrder) : BusOrder[i] = b
<1> DEFINE D == 1 .. Cardinality(BusId)
<1>1. IsFiniteSet(BusId)
  BY RouterAssumption DEF RouterAssumption
<1>2. /\ Cardinality(BusId) \in Nat
      /\ \E f : f \in Bijection(D, BusId)
  BY <1>1, FS_CardinalityType, Zenon DEF ExistsBijection
<1>3. PICK f : f \in Bijection(D, BusId)
  BY <1>2
<1>4. f \in [D -> BusId] /\ IsInjective(f)
  BY <1>3 DEF Bijection, Injection, IsInjective
<1>5. BusOrder \in [D -> BusId] /\ IsInjective(BusOrder)
  BY <1>4, Zenon DEF BusOrder, SetToSeq
<1>6. BusOrder \in Injection(D, BusId)
  BY <1>5 DEF Injection, IsInjective
<1>7. Cardinality(D) = Cardinality(BusId)
  <2>1. Cardinality(D) = IF 1 > Cardinality(BusId) THEN 0 ELSE Cardinality(BusId) - 1 + 1
    BY <1>2, FS_Interval
  <2> HIDE DEF D
  <2> QED  BY <1>2, <2>1
<1>8. BusOrder \in Surjection(D, BusId)
  BY <1>1, <1>6, <1>7, FS_Injection
<1>9. BusOrder \in Seq(BusId) /\ Len(BusOrder) = Cardinality(BusId)
  BY <1>2, <1>5
<1> QED  BY <1>2, <1>8, <1>9 DEF Surjection

LEMMA ErasedKeeps ==
  ASSUME NEW n \in Nat, NEW A, NEW B, NEW C, NEW s \in Box(n, A, B), NEW b \in BusId,
         \A d \in BusId : d # b /\ A[d] = NoHost => C[d] = NoHost
  PROVE  /\ [s EXCEPT !.busq[b] = <<>>] \in Box(n, C, B) /\ s.busq[b] \in Queue(n)
<1> DEFINE q == [s.busq EXCEPT ![b] = <<>>]
           k == [s EXCEPT !.busq = q]
<1>1. s \in MailType(n) /\ Sorted(s, A, B)
  BY DEF Box
<1>2. s.busq \in [BusId -> Queue(n)] /\ <<>> \in Queue(n)
  BY <1>1 DEF MailType, Queue
<1>3. q \in [BusId -> Queue(n)] /\ q[b] = <<>> /\ \A d \in BusId : d # b => q[d] = s.busq[d]
  BY <1>2
<1>4. [s EXCEPT !.busq[b] = <<>>] = k
  BY <1>1 DEF MailType
<1> HIDE DEF q
<1>5. k \in MailType(n) /\ k.busq = q /\ k.rchan = s.rchan /\ k.hostq = s.hostq /\ k.ep = s.ep
  BY <1>1, <1>3 DEF MailType
<1> HIDE DEF k
<1>6. Sorted(k, C, B)
  BY <1>1, <1>3, <1>5 DEF Sorted
<1> QED  BY <1>2, <1>4, <1>5, <1>6 DEF Box

NextQueue(t, b, a, ina, ok) == IF a[b] = NoHost THEN t ELSE HandleQueue(t, b, a, ina, ok)

LEMMA QueueKeeps ==
  ASSUME NEW n \in Nat, NEW a \in [BusId -> Route], NEW ina, NEW A, NEW B, NEW C, NEW s \in Box(n, A, B),
         NEW b \in BusId, NEW ok, \A d \in BusId : (d # b \/ a[b] = NoHost) /\ A[d] = NoHost => C[d] = NoHost,
         Covers(a, ina, C, B)
  PROVE  NextQueue(s, b, a, ina, ok) \in Box(n, C, B)
<1>1. CASE a[b] = NoHost
  <2>1. s \in MailType(n) /\ Sorted(s, A, B)
    BY DEF Box
  <2>2. Sorted(s, C, B)
    BY <1>1, <2>1 DEF Sorted
  <2> QED  BY <1>1, <2>1, <2>2 DEF NextQueue, Box
<1>2. CASE a[b] # NoHost
  <2> DEFINE e == [s EXCEPT !.busq[b] = <<>>]
             ms == s.busq[b]
             k == HandleAll(e, ms, a, ina, ok)
  <2>1. e \in Box(n, C, B) /\ ms \in Queue(n)
    BY ErasedKeeps
  <2>2. NextQueue(s, b, a, ina, ok) = k
    BY <1>2 DEF NextQueue, HandleQueue
  <2> HIDE DEF e, ms
  <2>3. PICK g : Goes(g, e, ms, k, Box(n, C, B))
    BY <2>1, HandleAllRuns
  <2>4. Len(ms) \in 0 .. Len(ms)
    BY <2>1 DEF Queue
  <2> QED  BY <2>2, <2>3, <2>4 DEF Goes
<1> QED  BY <1>1, <1>2

LEMMA QueuesRun ==
  ASSUME NEW n \in Nat, NEW a \in [BusId -> Route], NEW ina, NEW s \in Box(n, UnknownRoutes, {}), NEW ok
  PROVE  \E g : /\ Goes(g, s, BusOrder, HandleQueues(s, a, ina, ok), Box(n, UnknownRoutes, {}))
                /\ \A i \in 1 .. Len(BusOrder) : g[i] = NextQueue(g[i - 1], BusOrder[i], a, ina, ok)
<1> DEFINE I == Box(n, UnknownRoutes, {})
           M == BusId
           ms == BusOrder
           Step(t, b) == NextQueue(t, b, a, ina, ok)
           step == [p \in I \X M |-> Step(p[1], p[2])]
           Runs(f) == f = [i \in 0 .. Len(ms) |-> IF i = 0 THEN s ELSE Step(f[i - 1], ms[i])]
<1>1. \A t \in I, b \in M : Step(t, b) \in I
  <2>1. \A d \in BusId : UnknownRoutes[d] = NoHost
    BY DEF UnknownRoutes
  <2>2. Covers(a, ina, UnknownRoutes, {})
    BY <2>1 DEF Covers
  <2> QED  BY <2>1, <2>2, QueueKeeps
<1>2. HandleQueues(s, a, ina, ok) = (CHOOSE f : Runs(f))[Len(ms)]
  BY DEF HandleQueues, NextQueue
<1>3. ms \in Seq(M) /\ Len(ms) \in Nat /\ \A i \in 1 .. Len(ms) : ms[i] \in M
  BY BusOrdered
<1> HIDE DEF I, M, Step, ms
<1>4. \E f : Runs(f)
  <2>1. step \in [I \X M -> I]
    BY <1>1
  <2>2. \A t \in I, m \in M : step[<<t, m>>] = Step(t, m)
    OBVIOUS
  <2>3. s \in I
    BY DEF I
  <2> HIDE DEF step
  <2>4. PICK f \in [0 .. Len(ms) -> I] : IsFold(f, step, s, ms)
    BY <1>3, <2>1, <2>3, FoldExists
  <2>5. ASSUME NEW i \in 0 .. Len(ms) PROVE f[i] = IF i = 0 THEN s ELSE Step(f[i - 1], ms[i])
    <3>1. CASE i = 0
      BY <2>4, <3>1 DEF IsFold
    <3>2. CASE i # 0
      <4>1. i - 1 \in 0 .. Len(ms) /\ i \in 1 .. Len(ms)
        BY <1>3, <3>2
      <4> QED  BY <1>3, <2>2, <2>4, <3>2, <4>1 DEF IsFold
    <3> QED  BY <3>1, <3>2
  <2>6. f = [i \in 0 .. Len(ms) |-> IF i = 0 THEN s ELSE Step(f[i - 1], ms[i])]
    BY <2>5
  <2> QED  BY <2>6
<1> DEFINE g == CHOOSE f : Runs(f)
<1>5. Runs(g)
  BY <1>4, Zenon
<1> HIDE DEF g
<1>6. g[0] \in I /\ Leads(g, Len(ms), I)
  <2>1. 0 \in 0 .. Len(ms) /\ g[0] = s /\ s \in I
    BY <1>3, <1>5 DEF I
  <2>2. ASSUME NEW i \in 1 .. Len(ms), g[i - 1] \in I PROVE g[i] \in I
    <3>1. i \in 0 .. Len(ms) /\ i # 0
      BY <1>3
    <3>2. g[i] = Step(g[i - 1], ms[i])
      BY <1>5, <3>1
    <3> QED  BY <1>1, <1>3, <2>2, <3>2
  <2> QED  BY <2>1, <2>2 DEF Leads
<1>7. \A i \in 0 .. Len(ms) : g[i] \in I
  BY <1>3, <1>6, Reaches, Zenon
<1>8. g[0] = s /\ \A i \in 1 .. Len(ms) : g[i] = Step(g[i - 1], ms[i])
  <2>1. 0 \in 0 .. Len(ms) /\ \A i \in 1 .. Len(ms) : i \in 0 .. Len(ms) /\ i # 0
    BY <1>3
  <2> QED  BY <1>5, <2>1
<1>9. Goes(g, s, ms, g[Len(ms)], I)
  BY <1>7, <1>8 DEF Goes
<1> QED  BY <1>2, <1>8, <1>9, Zenon DEF g, I, Step, ms

\* The routes by which a queue may still wait once i of them have been handled.
Left(a, i) == [b \in BusId |-> IF \E j \in i + 1 .. Len(BusOrder) : BusOrder[j] = b THEN NoHost ELSE a[b]]

LEMMA QueuesKeep ==
  ASSUME NEW n \in Nat, NEW a \in [BusId -> Route], NEW ina, NEW s \in Box(n, Left(a, 0), ina), NEW ok
  PROVE  /\ HandleQueues(s, a, ina, ok) \in Box(n, a, ina)
         /\ \E g : /\ Goes(g, s, BusOrder, HandleQueues(s, a, ina, ok), Box(n, UnknownRoutes, {}))
                   /\ \A i \in 1 .. Len(BusOrder) : g[i] = NextQueue(g[i - 1], BusOrder[i], a, ina, ok)
                   /\ \A i \in 0 .. Len(BusOrder) : g[i] \in Box(n, Left(a, i), ina)
<1> DEFINE N == Len(BusOrder)
           k == HandleQueues(s, a, ina, ok)
<1>1. BusOrder \in Seq(BusId) /\ N \in Nat /\ \A i \in 1 .. N : BusOrder[i] \in BusId
  BY BusOrdered
<1>2. s \in Box(n, UnknownRoutes, {})
  BY DEF Box, Sorted, UnknownRoutes
<1>3. PICK g : /\ Goes(g, s, BusOrder, k, Box(n, UnknownRoutes, {}))
               /\ \A i \in 1 .. N : g[i] = NextQueue(g[i - 1], BusOrder[i], a, ina, ok)
  BY <1>2, QueuesRun
<1> HIDE DEF k
<1> DEFINE S == {i \in 0 .. N : g[i] \in Box(n, Left(a, i), ina)}
<1>4. 0 \in S
  BY <1>1, <1>3 DEF Goes
<1>5. ASSUME NEW i \in 1 .. N, i - 1 \in S PROVE i \in S
  <2> DEFINE A == Left(a, i - 1)
             C == Left(a, i)
             b == BusOrder[i]
  <2>1. g[i - 1] \in Box(n, A, ina) /\ b \in BusId /\ i \in 0 .. N
    BY <1>1, <1>5
  <2>2. ASSUME NEW d \in BusId, d # b \/ a[b] = NoHost, A[d] = NoHost PROVE C[d] = NoHost
    <3>1. CASE a[d] = NoHost
      BY <3>1 DEF Left
    <3>2. CASE a[d] # NoHost
      <4>1. d # b
        BY <2>2, <3>2
      <4>2. PICK j \in (i - 1) + 1 .. N : BusOrder[j] = d
        BY <2>2, <3>2 DEF Left
      <4>3. j # i
        BY <4>1, <4>2
      <4>4. j \in i + 1 .. N
        BY <1>1, <4>3
      <4> QED  BY <4>2, <4>4 DEF Left
    <3> QED  BY <3>1, <3>2
  <2>3. Covers(a, ina, C, ina)
    BY DEF Covers, Left
  <2> HIDE DEF A, C, b
  <2>4. NextQueue(g[i - 1], b, a, ina, ok) \in Box(n, C, ina)
    BY <2>1, <2>2, <2>3, QueueKeeps
  <2> QED  BY <1>3, <2>1, <2>4 DEF b, C
<1> HIDE DEF S
<1>6. \A i \in 0 .. N : i \in S
  BY <1>1, <1>4, <1>5, Steps
<1>7. \A i \in 0 .. N : g[i] \in Box(n, Left(a, i), ina)
  BY <1>6 DEF S
<1>8. k \in Box(n, a, ina)
  <2>1. k \in Box(n, Left(a, N), ina)
    BY <1>1, <1>3, <1>7 DEF Goes
  <2>2. \A b \in BusId : Left(a, N)[b] = a[b]
    BY <1>1 DEF Left
  <2> QED  BY <2>1, <2>2 DEF Box, Sorted
<1> QED  BY <1>3, <1>7, <1>8 DEF k
------------------------------------------------------------------------------
(* The steps *)

\* What holds the mail of the invariant.
MailBox == Box(sent, active_endpoints, inactive_endpoints)

LEMMA IdsIn ==
  ASSUME NEW n \in Nat, NEW q \in Queue(n)
  PROVE  Ids(q) \subseteq 1 .. n
<1>1. \A m \in Message(n) : m.id \in 1 .. n
  BY DEF Message
<1>2. \A i \in DOMAIN q : q[i] \in Message(n)
  BY DEF Queue
<1> QED  BY <1>1, <1>2 DEF Ids

\* The mail by its parts
LEMMA MailParts ==
  /\ Mail.busq = busid2queue /\ Mail.hostq = host2queue /\ Mail.ep = host2endpoints
  /\ Mail.wire = wire /\ Mail.rchan = rchan /\ Mail.lost = dropped
  BY DEF Mail

LEMMA PartsTyped ==
  ASSUME NEW n
  PROVE  Mail \in MailType(n) <=> Parts(n)
  BY DEF Mail, MailType, Parts

LEMMA SortedParts == Sorted(Mail, active_endpoints, inactive_endpoints) <=> PartsSorted
  BY MailParts DEF Sorted, PartsSorted

LEMMA MailIn == IInv => Mail \in MailBox
  BY PartsTyped, SortedParts DEF IInv, MailBox, Box

\* Messages stay messages as more are sent.
LEMMA Grows ==
  ASSUME NEW n \in Nat
  PROVE  Message(n) \subseteq Message(n + 1) /\ Queue(n) \subseteq Queue(n + 1)
           /\ MailType(n) \subseteq MailType(n + 1)
<1>1. 1 .. n \subseteq 1 .. n + 1
  OBVIOUS
<1>2. Message(n) \subseteq Message(n + 1)
  BY <1>1 DEF Message
<1> HIDE DEF Message
<1>3. ASSUME NEW q \in Queue(n) PROVE q \in Queue(n + 1)
  BY <1>2 DEF Queue
<1>4. ASSUME NEW s \in MailType(n) PROVE s \in MailType(n + 1)
  <2>1. /\ \A f \in [BusId -> Queue(n)] : f \in [BusId -> Queue(n + 1)]
        /\ \A f \in [Peers -> Queue(n)] : f \in [Peers -> Queue(n + 1)]
        /\ \A f \in [Local -> Queue(n)] : f \in [Local -> Queue(n + 1)]
    BY <1>3
  <2> QED  BY <1>1, <2>1 DEF MailType
<1> QED  BY <1>2, <1>3, <1>4

LEMMA Locals == Local \subseteq BusId /\ Peers \subseteq Route /\ Here \in Route /\ NoHost \in Route /\ Here # NoHost
  BY RouterAssumption DEF RouterAssumption, BusId, Route, Host

\* Nothing but the mail, the channels and the tables is in the invariant: a
\* step that leaves them alone keeps it if the types stay right.
Else == <<wchan, inwire, sent, active_endpoints, inactive_endpoints>>

LEMMA MailAlone ==
  ASSUME IInv, Types', UNCHANGED <<Else, reqs>>,
         UNCHANGED <<busid2queue, host2queue, host2endpoints, wire, rchan, dropped>>
  PROVE  IInv'
  BY DEF IInv, ChannelsTyped, Parts, PartsSorted, DelIsKnown, LeftIsUnrouted, Else

LEMMA SignalKeeps ==
  ASSUME Types, NEW b \in Local, NEW kind \in {"outgoing", "registration"}, Notify(kind, b)
  PROVE  sigs' \in Seq(Signal)
<1>1. [kind |-> kind, fd |-> b] \in Signal
  BY DEF Signal
<1>2. sigs \in Seq(Signal) /\ (sigs' = Append(sigs, [kind |-> kind, fd |-> b]) \/ sigs' = sigs)
  BY DEF Types, Notify
<1> HIDE DEF Signal
<1> QED  BY <1>1, <1>2

LEMMA SignalledKeeps ==
  ASSUME Types, NEW b \in Local, NEW kind, Signalled(kind, b)
  PROVE  sigs' \in Seq(Signal)
<1>1. PICK i \in DOMAIN sigs : sigs' = RemoveAt(sigs, i)
  BY DEF Signalled
<1>2. sigs \in Seq(Signal) /\ i \in 1 .. Len(sigs)
  BY DEF Types
<1>3. SubSeq(sigs, 1, i - 1) \in Seq(Signal) /\ SubSeq(sigs, i + 1, Len(sigs)) \in Seq(Signal)
  BY <1>2
<1> QED  BY <1>1, <1>3 DEF RemoveAt

LEMMA DeregisterGood ==
  ASSUME IInv, NEW b \in Local, Deregister(b)
  PROVE  IInv'
<1>1. Types'
  <2>1. sigs' \in Seq(Signal)
    BY SignalKeeps DEF IInv, Deregister
  <2> QED  BY <2>1 DEF IInv, Types, Deregister, tables, consul
<1> QED  BY <1>1, MailAlone DEF Deregister, Else, tables, consul, queues

LEMMA RegisterGood ==
  ASSUME IInv, NEW b \in Local, Register(b)
  PROVE  IInv'
<1>1. Types'
  <2>1. sigs' \in Seq(Signal)
    BY SignalKeeps DEF IInv, Register
  <2> QED  BY <2>1 DEF IInv, Types, Register, tables, consul
<1> DEFINE r == [rchan EXCEPT ![b] = <<>>]
           w == [wchan EXCEPT ![b] = <<>>]
<1>2. sent \in Nat /\ ChannelsTyped /\ Parts(sent) /\ PartsSorted
  BY DEF IInv, Types
<1>3. Ids(rchan[b]) \subseteq 1 .. sent /\ Ids(wchan[b]) \subseteq 1 .. sent
  BY <1>2, IdsIn DEF Parts, ChannelsTyped
<1>4. <<>> \in Queue(sent) /\ Len(<<>>) = 0 /\ \A c \in Local : 0 <= ChanCap[c]
  BY RouterAssumption DEF Queue, RouterAssumption
<1>5. /\ r \in [Local -> Queue(sent)] /\ w \in [Local -> Queue(sent)]
      /\ \A c \in Local : Len(r[c]) <= ChanCap[c] /\ Len(w[c]) <= ChanCap[c]
  BY <1>2, <1>4 DEF Parts, PartsSorted, ChannelsTyped
<1>6. /\ rchan' = r /\ wchan' = w
      /\ UNCHANGED <<busid2queue, host2queue, host2endpoints, wire, inwire, sent, reqs, active_endpoints, inactive_endpoints>>
      /\ dropped' = dropped \cup Ids(rchan[b]) \cup Ids(wchan[b])
  BY DEF Register, queues, tables, consul
<1> HIDE DEF r, w
<1>7. Parts(sent)'
  BY <1>2, <1>3, <1>5, <1>6 DEF Parts
<1>8. PartsSorted'
  BY <1>2, <1>5, <1>6 DEF PartsSorted
<1>9. DelIsKnown' /\ LeftIsUnrouted'
  BY <1>6 DEF IInv, DelIsKnown, LeftIsUnrouted
<1>10. ChannelsTyped'
  BY <1>2, <1>5, <1>6 DEF ChannelsTyped
<1> QED  BY <1>1, <1>6, <1>7, <1>8, <1>9, <1>10 DEF IInv

LEMMA SendGood ==
  ASSUME IInv, NEW b \in Local, NEW d \in BusId, Send(b, d)
  PROVE  IInv'
<1> DEFINE m == [id |-> sent + 1, src |-> b, dst |-> d]
<1>1. sent \in Nat /\ sent' = sent + 1
  BY DEF IInv, Types, Send
<1>2. m \in Message(sent + 1) /\ m.id \in 1 .. sent + 1
  BY <1>1, Locals DEF Message
<1>3. Types'
  <2>1. sigs' \in Seq(Signal)
    BY SignalKeeps DEF IInv, Send
  <2> QED  BY <1>1, <2>1 DEF IInv, Types, Send, tables, consul
<1>4. /\ UNCHANGED <<busid2queue, host2queue, host2endpoints, wire, rchan, inwire, reqs,
                     active_endpoints, inactive_endpoints>>
      /\ \/ /\ Len(wchan[b]) < ChanCap[b]
            /\ wchan' = [wchan EXCEPT ![b] = Append(wchan[b], m)] /\ dropped' = dropped
         \/ wchan' = wchan /\ dropped' = dropped \cup {m.id}
  BY DEF Send, tables, consul, queues
<1> HIDE DEF m
<1>5. Parts(sent + 1)
  <2>1. MailType(sent) \subseteq MailType(sent + 1)
    BY <1>1, Grows
  <2> QED  BY <2>1, PartsTyped DEF IInv
<1>6. Parts(sent)'
  BY <1>1, <1>2, <1>4, <1>5 DEF Parts
<1>7. ChannelsTyped'
  <2>1. Queue(sent) \subseteq Queue(sent + 1)
    BY <1>1, Grows
  <2>2. inwire \in Queue(sent + 1) /\ wchan \in [Local -> Queue(sent + 1)]
    BY <2>1 DEF IInv, ChannelsTyped
  <2>3. \A c \in Local : Len(wchan[c]) <= ChanCap[c]
    BY DEF IInv, ChannelsTyped
  <2>4. CASE wchan' = wchan
    BY <1>1, <1>4, <2>2, <2>3, <2>4 DEF ChannelsTyped
  <2>5. CASE Len(wchan[b]) < ChanCap[b] /\ wchan' = [wchan EXCEPT ![b] = Append(wchan[b], m)]
    <3> DEFINE q == Append(wchan[b], m)
    <3>1. q \in Queue(sent + 1) /\ Len(q) = Len(wchan[b]) + 1 /\ Len(wchan[b]) \in Nat
      BY <1>2, <2>2 DEF Queue
    <3>2. Len(q) <= ChanCap[b]
      BY <2>5, <3>1, RouterAssumption DEF RouterAssumption
    <3> HIDE DEF q
    <3>3. wchan' = [wchan EXCEPT ![b] = q]
      BY <2>5 DEF q
    <3> QED  BY <1>1, <1>4, <2>2, <2>3, <3>1, <3>2, <3>3 DEF ChannelsTyped
  <2> QED  BY <1>4, <2>4, <2>5
<1>8. PartsSorted' /\ DelIsKnown' /\ LeftIsUnrouted'
  BY <1>4 DEF IInv, PartsSorted, DelIsKnown, LeftIsUnrouted
<1> QED  BY <1>3, <1>6, <1>7, <1>8 DEF IInv

LEMMA RecvGood ==
  ASSUME IInv, NEW b \in Local, Recv(b)
  PROVE  IInv'
<1>1. Types'
  BY DEF IInv, Types, Recv, tables, consul, bounds
<1>2. /\ rchan[b] # <<>> /\ rchan' = [rchan EXCEPT ![b] = Tail(rchan[b])]
      /\ UNCHANGED <<busid2queue, host2queue, host2endpoints, wire, dropped, wchan, inwire, reqs, sent,
                     active_endpoints, inactive_endpoints>>
  BY DEF Recv, tables, consul, queues, bounds
<1>3. Parts(sent) /\ PartsSorted
  BY DEF IInv
<1>4. Tail(rchan[b]) \in Queue(sent) /\ Len(Tail(rchan[b])) <= ChanCap[b]
  <2>1. rchan[b] \in Queue(sent) /\ Len(rchan[b]) <= ChanCap[b]
    BY <1>3 DEF Parts, PartsSorted
  <2>2. ChanCap[b] \in Nat
    BY RouterAssumption DEF RouterAssumption
  <2> QED  BY <1>2, <2>1, <2>2 DEF Queue
<1>5. Parts(sent)'
  BY <1>2, <1>3, <1>4 DEF Parts
<1>6. PartsSorted'
  BY <1>2, <1>3, <1>4 DEF PartsSorted, Parts
<1> QED  BY <1>1, <1>2, <1>5, <1>6 DEF IInv, ChannelsTyped, DelIsKnown, LeftIsUnrouted

\* The mail after a callback, if it agrees with the tables after it.
LEMMA Delivered ==
  ASSUME NEW s \in Box(sent', active_endpoints', inactive_endpoints'), Becomes(s)
  PROVE  Parts(sent)' /\ PartsSorted'
  BY DEF Box, MailType, Sorted, Becomes, Parts, PartsSorted

LEMMA LocalMessageGood ==
  ASSUME IInv, NEW b \in Local, NEW ok \in BOOLEAN, on_local_message(b, ok)
  PROVE  IInv'
<1>1. Types'
  <2>1. sigs' \in Seq(Signal)
    BY SignalledKeeps DEF IInv, on_local_message
  <2> QED  BY <2>1 DEF IInv, Types, on_local_message, tables, consul
<1>2. UNCHANGED <<active_endpoints, inactive_endpoints, inwire, reqs, sent>>
  BY DEF on_local_message, tables, consul
<1>3. DelIsKnown' /\ LeftIsUnrouted'
  BY <1>2 DEF IInv, DelIsKnown, LeftIsUnrouted
<1>4. CASE desc[b] # "open"
  <2>1. UNCHANGED <<wchan, rchan, busid2queue, host2queue, host2endpoints, wire, dropped>>
    BY <1>4 DEF on_local_message, queues
  <2> QED  BY <1>1, <1>2, <1>3, <2>1 DEF IInv, ChannelsTyped, Parts, PartsSorted
<1>5. CASE desc[b] = "open"
  <2> DEFINE batch == Batch(b)
             rest == SubSeq(wchan[b], Len(batch) + 1, Len(wchan[b]))
             k == HandleAll(Mail, batch, active_endpoints, inactive_endpoints, ok)
  <2>1. wchan' = [wchan EXCEPT ![b] = rest] /\ Becomes(k)
    BY <1>5, Zenon DEF on_local_message
  <2>2. wchan[b] \in Seq(Message(sent)) /\ wchan \in [Local -> Queue(sent)] /\ Len(wchan[b]) \in Nat
    BY DEF IInv, ChannelsTyped, Queue
  <2>3. batch \in Queue(sent) /\ Len(batch) \in Nat
    <3> DEFINE l == Min({loop_rate, Len(wchan[b])})
    <3>1. l \in Nat /\ l <= Len(wchan[b])
      <4>1. l = loop_rate \/ l = Len(wchan[b])
        <5>1. \E x \in {loop_rate, Len(wchan[b])} : \A y \in {loop_rate, Len(wchan[b])} : x <= y
          BY <2>2, RouterAssumption DEF RouterAssumption
        <5> QED  BY <5>1 DEF Min
      <4>2. l <= Len(wchan[b])
        <5>1. \E x \in {loop_rate, Len(wchan[b])} : \A y \in {loop_rate, Len(wchan[b])} : x <= y
          BY <2>2, RouterAssumption DEF RouterAssumption
        <5> QED  BY <5>1 DEF Min
      <4> QED  BY <2>2, <4>1, <4>2, RouterAssumption DEF RouterAssumption
    <3>2. batch = SubSeq(wchan[b], 1, l)
      BY DEF Batch
    <3> HIDE DEF l, batch
    <3> QED  BY <2>2, <3>1, <3>2 DEF Queue
  <2> HIDE DEF batch
  <2>4. rest \in Queue(sent) /\ Len(rest) <= Len(wchan[b])
    BY <2>2, <2>3 DEF Queue
  <2>5. k \in Box(sent, active_endpoints, inactive_endpoints)
    <3>1. Covers(active_endpoints, inactive_endpoints, active_endpoints, inactive_endpoints)
      BY DEF Covers
    <3>2. PICK g : Goes(g, Mail, batch, k, MailBox)
      BY <2>3, <3>1, MailIn, HandleAllRuns DEF IInv, Types, MailBox
    <3>3. Len(batch) \in 0 .. Len(batch)
      BY <2>3
    <3> QED  BY <3>2, <3>3 DEF Goes, MailBox
  <2> HIDE DEF k, rest
  <2>6. Parts(sent)' /\ PartsSorted'
    BY <1>2, <2>1, <2>5, Delivered
  <2>7. ChannelsTyped'
    <3>1. \A c \in Local : Len(wchan[c]) <= ChanCap[c]
      BY DEF IInv, ChannelsTyped
    <3>2. Len(rest) \in Nat /\ ChanCap[b] \in Nat
      BY <2>4, RouterAssumption DEF Queue, RouterAssumption
    <3>3. Len(rest) <= ChanCap[b]
      BY <2>2, <2>4, <3>1, <3>2
    <3> QED  BY <1>2, <2>1, <2>2, <2>4, <3>1, <3>3 DEF IInv, ChannelsTyped
  <2> QED  BY <1>1, <1>2, <1>3, <2>6, <2>7 DEF IInv
<1> QED  BY <1>4, <1>5

LEMMA ClientMessageGood ==
  ASSUME IInv, NEW ok \in BOOLEAN, on_client_message_received(ok)
  PROVE  IInv'
<1>1. Types'
  BY DEF IInv, Types, on_client_message_received, tables, consul
<1>2. UNCHANGED <<active_endpoints, inactive_endpoints, wchan, reqs, sent>>
  BY DEF on_client_message_received, tables, consul
<1> DEFINE k == handle_message(Mail, Head(inwire), active_endpoints, inactive_endpoints, ok)
<1>3. inwire # <<>> /\ inwire' = Tail(inwire) /\ Becomes(k)
  BY DEF on_client_message_received
<1>4. inwire \in Queue(sent)
  BY DEF IInv, ChannelsTyped
<1>5. Head(inwire) \in Message(sent) /\ Tail(inwire) \in Queue(sent)
  BY <1>3, <1>4 DEF Queue
<1>6. k \in Box(sent, active_endpoints, inactive_endpoints)
  <2>1. Covers(active_endpoints, inactive_endpoints, active_endpoints, inactive_endpoints)
    BY DEF Covers
  <2> QED  BY <1>5, <2>1, MailIn, HandleKeeps DEF IInv, Types, MailBox
<1> HIDE DEF k
<1>7. Parts(sent)' /\ PartsSorted'
  BY <1>2, <1>3, <1>6, Delivered
<1>8. ChannelsTyped'
  BY <1>2, <1>3, <1>5 DEF IInv, ChannelsTyped
<1> QED  BY <1>1, <1>2, <1>7, <1>8 DEF IInv, DelIsKnown, LeftIsUnrouted

\* A request is a triple of its own.
LEMMA RequestIn ==
  ASSUME NEW op \in Op, NEW b \in Local, NEW stage \in Stage
  PROVE  Req(op, b, stage) \in Op \X Local \X Stage
  BY DEF Req

LEMMA RequestIs ==
  ASSUME NEW op, NEW b, NEW stage, NEW p, NEW c, NEW t, Req(op, b, stage) = Req(p, c, t)
  PROVE  op = p /\ b = c /\ stage = t
  BY DEF Req

LEMMA DescriptorGood ==
  ASSUME IInv, NEW b \in Local, on_descriptor_change(b)
  PROVE  IInv'
<1>1. sigs' \in Seq(Signal)
  BY SignalledKeeps DEF IInv, on_descriptor_change
<1>2. \/ reqs' = [reqs EXCEPT ![Req("set", b, "sent")] = @ + 1]
      \/ active_endpoints[b] # NoHost /\ reqs' = [reqs EXCEPT ![Req("del", b, "sent")] = @ + 1]
      \/ reqs' = reqs
  BY DEF on_descriptor_change
<1>3. UNCHANGED <<desc, kv, watch, wchan, inwire, sent, active_endpoints, inactive_endpoints,
                  busid2queue, host2queue, host2endpoints, wire, rchan, dropped>>
  BY DEF on_descriptor_change, tables, queues, bounds
<1>4. reqs \in [Op \X Local \X Stage -> Nat]
  BY DEF IInv, Types
<1>5. Req("set", b, "sent") \in Op \X Local \X Stage /\ Req("del", b, "sent") \in Op \X Local \X Stage
  BY RequestIn DEF Op, Stage
<1>6. reqs' \in [Op \X Local \X Stage -> Nat]
  BY <1>2, <1>4, <1>5
<1>7. Types'
  BY <1>1, <1>3, <1>6 DEF IInv, Types
<1>8. DelIsKnown'
  <2> SUFFICES ASSUME NEW c \in Local, NEW stage \in {"sent", "ok", "failed"},
                      reqs'[Req("del", c, stage)] > 0
               PROVE  active_endpoints[c] # NoHost \/ c \in inactive_endpoints
    BY <1>3 DEF DelIsKnown
  <2>1. Req("del", c, stage) \in Op \X Local \X Stage
    BY RequestIn DEF Op, Stage
  <2>2. CASE reqs[Req("del", c, stage)] > 0
    BY <2>2 DEF IInv, DelIsKnown
  <2>3. CASE ~(reqs[Req("del", c, stage)] > 0)
    <3>1. \/ Req("del", c, stage) = Req("set", b, "sent")
          \/ active_endpoints[b] # NoHost /\ Req("del", c, stage) = Req("del", b, "sent")
      BY <1>2, <1>4, <1>5, <2>1, <2>3
    <3> QED  BY <3>1, RequestIs
  <2> QED  BY <2>2, <2>3
<1> QED  BY <1>3, <1>7, <1>8 DEF IInv, ChannelsTyped, Parts, PartsSorted, LeftIsUnrouted

\* Before its queues are handled, the mail agrees with the new routes but for them.
LEMMA AfterWatch ==
  ASSUME IInv, NEW routes \in [BusId -> Route]
  PROVE  Mail \in Box(sent, Left(routes, 0), InactiveAfter(routes))
<1>1. Mail \in MailType(sent) /\ Sorted(Mail, active_endpoints, inactive_endpoints)
  BY MailIn DEF MailBox, Box
<1>2. ASSUME NEW b \in BusId, Mail.busq[b] # <<>> PROVE Left(routes, 0)[b] = NoHost /\ b \notin InactiveAfter(routes)
  <2>1. active_endpoints[b] = NoHost /\ b \notin inactive_endpoints
    BY <1>1, <1>2 DEF Sorted
  <2>2. b \notin InactiveAfter(routes)
    BY <2>1 DEF InactiveAfter
  <2>3. \E j \in 0 + 1 .. Len(BusOrder) : BusOrder[j] = b
    BY BusOrdered
  <2> QED  BY <2>2, <2>3 DEF Left
<1>3. Sorted(Mail, Left(routes, 0), InactiveAfter(routes))
  BY <1>1, <1>2 DEF Sorted
<1> QED  BY <1>1, <1>3 DEF Box

LEMMA WatchGood ==
  ASSUME IInv, NEW ok \in BOOLEAN, on_route_watch(ok)
  PROVE  IInv'
<1>1. watch' = Armed /\ UNCHANGED <<desc, wchan, sigs, kv, reqs, inwire, sent>>
  BY DEF on_route_watch, Rearm
<1>2. watch'.kind = "armed"
  BY <1>1 DEF Armed
<1>3. ChannelsTyped'
  BY <1>1 DEF IInv, ChannelsTyped
<1>4. CASE watch.kind = "error" \/ Empty(watch.routes)
  <2>1. UNCHANGED <<active_endpoints, inactive_endpoints, rchan, busid2queue, host2queue, host2endpoints, wire, dropped>>
    BY <1>4 DEF on_route_watch, tables, queues
  <2>2. Types'
    BY <1>1, <1>2, <2>1 DEF IInv, Types
  <2> QED  BY <1>1, <1>3, <2>1, <2>2 DEF IInv, Parts, PartsSorted, DelIsKnown, LeftIsUnrouted
<1>5. CASE ~(watch.kind = "error" \/ Empty(watch.routes))
  <2> DEFINE routes == watch.routes
             inactive == InactiveAfter(routes)
             k == HandleQueues(Mail, routes, inactive, ok)
  <2>1. active_endpoints' = routes /\ inactive_endpoints' = inactive /\ Becomes(k)
    BY <1>5, Zenon DEF on_route_watch
  <2>2. routes \in [BusId -> Route]
    BY <1>5 DEF on_route_watch, IInv, Types
  <2>3. sent \in Nat /\ inactive_endpoints \in SUBSET BusId /\ active_endpoints \in [BusId -> Route]
    BY DEF IInv, Types
  <2> HIDE DEF routes
  <2>4. \A b \in BusId : b \in inactive <=>
          \/ b \in inactive_endpoints /\ routes[b] = NoHost
          \/ active_endpoints[b] # NoHost /\ routes[b] = NoHost
    BY <2>3 DEF InactiveAfter
  <2>5. inactive \in SUBSET BusId
    BY <2>3 DEF InactiveAfter
  <2>6. Mail \in Box(sent, Left(routes, 0), inactive)
    BY <2>2, <2>3, AfterWatch
  <2> HIDE DEF inactive
  <2>11. k \in Box(sent, routes, inactive)
    BY <2>2, <2>3, <2>6, QueuesKeep
  <2> HIDE DEF k
  <2>12. Parts(sent)' /\ PartsSorted'
    BY <1>1, <2>1, <2>11, Delivered
  <2>13. Types'
    BY <1>1, <1>2, <2>1, <2>2, <2>5 DEF IInv, Types
  <2>14. LeftIsUnrouted'
    BY <2>1, <2>4, <2>5 DEF LeftIsUnrouted
  <2>15. DelIsKnown'
    <3> SUFFICES ASSUME NEW b \in Local, active_endpoints[b] # NoHost \/ b \in inactive_endpoints
                 PROVE  routes[b] # NoHost \/ b \in inactive
      BY <1>1, <2>1 DEF IInv, DelIsKnown
    <3> QED  BY <2>4, Locals
  <2> QED  BY <1>3, <2>12, <2>13, <2>14, <2>15 DEF IInv
<1> QED  BY <1>4, <1>5

\* One request fewer leaves fewer to be known.
LEMMA Answered ==
  ASSUME IInv, NEW op \in Op, NEW b \in Local, NEW stage \in Stage, reqs[Req(op, b, stage)] > 0,
         reqs' = [reqs EXCEPT ![Req(op, b, stage)] = @ - 1]
  PROVE  /\ reqs' \in [Op \X Local \X Stage -> Nat]
         /\ \A r \in Op \X Local \X Stage : reqs'[r] > 0 => reqs[r] > 0
<1>1. Req(op, b, stage) \in Op \X Local \X Stage
  BY RequestIn
<1>2. reqs \in [Op \X Local \X Stage -> Nat]
  BY DEF IInv, Types
<1> QED  BY <1>1, <1>2

LEMMA RouteSetGood ==
  ASSUME IInv, NEW b \in Local, NEW ok \in BOOLEAN, on_route_set(b, ok)
  PROVE  IInv'
<1> DEFINE stage == IF ok THEN "ok" ELSE "failed"
<1>1. stage \in Stage /\ "set" \in Op /\ "del" \in Op /\ {"sent", "ok", "failed"} \subseteq Stage
  BY DEF Stage, Op
<1>2. /\ reqs' \in [Op \X Local \X Stage -> Nat]
      /\ \A r \in Op \X Local \X Stage : reqs'[r] > 0 => reqs[r] > 0
  BY <1>1, Answered DEF on_route_set
<1>3. UNCHANGED <<desc, wchan, sigs, kv, watch, inwire, sent>>
  BY DEF on_route_set, bounds
<1>4. ChannelsTyped'
  BY <1>3 DEF IInv, ChannelsTyped
<1>5. \A c \in Local : \A t \in {"sent", "ok", "failed"} :
        reqs'[Req("del", c, t)] > 0 => active_endpoints[c] # NoHost \/ c \in inactive_endpoints
  BY <1>1, <1>2, RequestIn DEF IInv, DelIsKnown
<1>6. CASE ~ok
  <2>1. UNCHANGED <<active_endpoints, inactive_endpoints, rchan, busid2queue, host2queue, host2endpoints, wire, dropped>>
    BY <1>6 DEF on_route_set, tables, queues
  <2>2. Types'
    BY <1>2, <1>3, <2>1 DEF IInv, Types
  <2>3. DelIsKnown'
    BY <1>5, <2>1 DEF DelIsKnown
  <2> QED  BY <1>3, <1>4, <2>1, <2>2, <2>3 DEF IInv, Parts, PartsSorted, LeftIsUnrouted
<1>7. CASE ok
  <2> DEFINE active == [active_endpoints EXCEPT ![b] = Here]
             inactive == inactive_endpoints \ {b}
             rest == QueueErased(b)
             s == [Mail EXCEPT !.busq = rest]
             ms == busid2queue[b]
             k == SendAllLocal(s, ms)
  <2>1. active_endpoints' = active /\ inactive_endpoints' = inactive /\ Becomes(k)
    BY <1>7 DEF on_route_set
  <2>2. sent \in Nat /\ inactive_endpoints \in SUBSET BusId /\ active_endpoints \in [BusId -> Route]
    BY DEF IInv, Types
  <2>3. b \in BusId /\ Here \in Route /\ Here # NoHost
    BY Locals
  <2>4. /\ active \in [BusId -> Route] /\ active[b] = Here
        /\ \A c \in BusId : c # b => active[c] = active_endpoints[c]
    BY <2>2, <2>3
  <2>5. busid2queue \in [BusId -> Queue(sent)] /\ <<>> \in Queue(sent)
    BY DEF IInv, Parts, Queue
  <2>6. /\ rest \in [BusId -> Queue(sent)] /\ rest[b] = <<>> /\ ms \in Queue(sent)
        /\ \A c \in BusId : c # b => rest[c] = busid2queue[c]
    BY <2>3, <2>5 DEF QueueErased
  <2> HIDE DEF active, rest, ms
  <2>7. \A c \in BusId : rest[c] # <<>> => active[c] = NoHost /\ c \notin inactive
    BY <2>4, <2>6 DEF IInv, PartsSorted
  <2>8. s \in Box(sent, active, inactive)
    <3>1. Mail \in MailType(sent) /\ Sorted(Mail, active_endpoints, inactive_endpoints)
      BY MailIn DEF MailBox, Box
    <3>2. s \in MailType(sent) /\ s.busq = rest /\ s.hostq = Mail.hostq /\ s.ep = Mail.ep /\ s.rchan = Mail.rchan
      BY <2>6, <3>1 DEF MailType
    <3> HIDE DEF s
    <3>3. Sorted(s, active, inactive)
      BY <2>7, <3>1, <3>2 DEF Sorted
    <3> QED  BY <3>2, <3>3 DEF Box
  <2> HIDE DEF s
  <2>9. k \in Box(sent, active, inactive)
    <3>1. PICK g : Goes(g, s, ms, k, Box(sent, active, inactive))
      BY <2>2, <2>6, <2>8, LocalAllRuns
    <3>2. Len(ms) \in 0 .. Len(ms)
      BY <2>6 DEF Queue
    <3> QED  BY <3>1, <3>2 DEF Goes
  <2> HIDE DEF k
  <2>10. Parts(sent)' /\ PartsSorted'
    BY <1>3, <2>1, <2>9, Delivered
  <2>11. Types'
    BY <1>2, <1>3, <2>1, <2>2, <2>4 DEF IInv, Types
  <2>12. LeftIsUnrouted'
    BY <2>1, <2>2, <2>4 DEF IInv, LeftIsUnrouted
  <2>13. DelIsKnown'
    BY <1>5, <2>1, <2>3, <2>4, Locals DEF DelIsKnown
  <2> QED  BY <1>4, <2>10, <2>11, <2>12, <2>13 DEF IInv
<1> QED  BY <1>6, <1>7

\* The bus id of a delete request has no messages waiting: DelIsKnown is what
\* makes the tables agree after it.
LEMMA RouteDelGood ==
  ASSUME IInv, NEW b \in Local, NEW ok \in BOOLEAN, on_route_del(b, ok)
  PROVE  IInv'
<1> DEFINE stage == IF ok THEN "ok" ELSE "failed"
<1>1. stage \in Stage /\ stage \in {"sent", "ok", "failed"} /\ "del" \in Op /\ {"sent", "ok", "failed"} \subseteq Stage
  BY DEF Stage, Op
<1>2. /\ reqs' \in [Op \X Local \X Stage -> Nat]
      /\ \A r \in Op \X Local \X Stage : reqs'[r] > 0 => reqs[r] > 0
      /\ reqs[Req("del", b, stage)] > 0
  BY <1>1, Answered DEF on_route_del
<1>3. UNCHANGED <<desc, wchan, rchan, sigs, kv, watch, inwire, sent, busid2queue, host2queue, host2endpoints, wire, dropped>>
  BY DEF on_route_del, shared, queues, bounds
<1>4. ChannelsTyped' /\ Parts(sent)'
  BY <1>3 DEF IInv, ChannelsTyped, Parts
<1>5. \A c \in Local : \A t \in {"sent", "ok", "failed"} :
        reqs'[Req("del", c, t)] > 0 => active_endpoints[c] # NoHost \/ c \in inactive_endpoints
  BY <1>1, <1>2, RequestIn DEF IInv, DelIsKnown
<1>6. active_endpoints[b] # NoHost \/ b \in inactive_endpoints
  BY <1>1, <1>2 DEF IInv, DelIsKnown
<1>7. CASE ~ok
  <2>1. UNCHANGED <<active_endpoints, inactive_endpoints>>
    BY <1>7 DEF on_route_del, tables
  <2>2. Types'
    BY <1>2, <1>3, <2>1 DEF IInv, Types
  <2>3. DelIsKnown'
    BY <1>5, <2>1 DEF DelIsKnown
  <2> QED  BY <1>3, <1>4, <2>1, <2>2, <2>3 DEF IInv, PartsSorted, LeftIsUnrouted
<1>8. CASE ok
  <2>1. active_endpoints' = [active_endpoints EXCEPT ![b] = NoHost] /\ inactive_endpoints' = inactive_endpoints \cup {b}
    BY <1>8 DEF on_route_del
  <2>2. b \in BusId /\ NoHost \in Route /\ active_endpoints \in [BusId -> Route] /\ inactive_endpoints \in SUBSET BusId
    BY Locals DEF IInv, Types
  <2>3. /\ active_endpoints' \in [BusId -> Route] /\ active_endpoints'[b] = NoHost
        /\ \A c \in BusId : c # b => active_endpoints'[c] = active_endpoints[c]
    BY <2>1, <2>2
  <2>4. Types'
    BY <1>2, <1>3, <2>1, <2>2, <2>3 DEF IInv, Types
  <2>5. busid2queue[b] = <<>>
    BY <1>6, <2>2 DEF IInv, PartsSorted
  <2>6. PartsSorted'
    BY <1>3, <2>1, <2>3, <2>5 DEF IInv, PartsSorted
  <2>7. LeftIsUnrouted' /\ DelIsKnown'
    <3>1. LeftIsUnrouted'
      BY <2>1, <2>2, <2>3 DEF IInv, LeftIsUnrouted
    <3>2. DelIsKnown'
      BY <1>5, <2>1, <2>3, Locals DEF DelIsKnown
    <3> QED  BY <3>1, <3>2
  <2> QED  BY <1>4, <2>4, <2>6, <2>7 DEF IInv
<1> QED  BY <1>7, <1>8

LEMMA ConnectedGood ==
  ASSUME IInv, NEW h \in Peers, on_server_connected(h)
  PROVE  IInv'
<1>1. UNCHANGED <<desc, wchan, sigs, active_endpoints, inactive_endpoints, kv, watch, reqs, inwire, sent>>
  BY DEF on_server_connected, tables, consul, bounds
<1>2. Types' /\ ChannelsTyped' /\ DelIsKnown' /\ LeftIsUnrouted'
  BY <1>1 DEF IInv, Types, ChannelsTyped, DelIsKnown, LeftIsUnrouted
<1> DEFINE e == [host2endpoints EXCEPT ![h] = "connected"]
           q == [host2queue EXCEPT ![h] = <<>>]
           s == [Mail EXCEPT !.ep[h] = "connected", !.hostq[h] = <<>>]
           k == SendAllRemote(s, h, host2queue[h])
<1>3. Becomes(k)
  BY DEF on_server_connected
<1>4. sent \in Nat /\ host2queue \in [Peers -> Queue(sent)] /\ host2endpoints \in [Peers -> Endpoint]
      /\ <<>> \in Queue(sent) /\ "connected" \in Endpoint
  BY DEF IInv, Types, Parts, Queue, Endpoint
<1>5. /\ e \in [Peers -> Endpoint] /\ q \in [Peers -> Queue(sent)] /\ e[h] = "connected" /\ q[h] = <<>>
      /\ \A g \in Peers : g # h => e[g] = host2endpoints[g] /\ q[g] = host2queue[g]
  BY <1>4
<1>6. s = [Mail EXCEPT !.ep = e, !.hostq = q]
  BY DEF Mail
<1> HIDE DEF e, q, s
<1>7. s \in Box(sent, active_endpoints, inactive_endpoints)
  <2>1. Mail \in MailType(sent) /\ Sorted(Mail, active_endpoints, inactive_endpoints)
    BY MailIn DEF MailBox, Box
  <2>2. s \in MailType(sent) /\ s.busq = Mail.busq /\ s.hostq = q /\ s.ep = e /\ s.rchan = Mail.rchan
    BY <1>5, <1>6, <2>1 DEF MailType
  <2>3. \A g \in Peers : (q[g] # <<>>) <=> (e[g] \in Waiting)
    <3>1. \A g \in Peers : (host2queue[g] # <<>>) <=> (host2endpoints[g] \in Waiting)
      BY DEF IInv, PartsSorted
    <3> QED  BY <1>5, <3>1 DEF Waiting
  <2>4. Sorted(s, active_endpoints, inactive_endpoints)
    BY <2>1, <2>2, <2>3 DEF Sorted
  <2> QED  BY <2>2, <2>4 DEF Box
<1>8. k \in Box(sent, active_endpoints, inactive_endpoints)
  <2> DEFINE ms == host2queue[h]
             K == Box(sent, active_endpoints, inactive_endpoints)
  <2>1. ms \in Queue(sent) /\ Len(ms) \in 0 .. Len(ms)
    BY <1>4 DEF Queue
  <2> HIDE DEF ms
  <2>2. PICK g : Goes(g, s, ms, SendAllRemote(s, h, ms), K)
    BY <1>4, <1>7, <2>1, RemoteAllRuns
  <2> QED  BY <2>1, <2>2 DEF Goes, ms
<1> HIDE DEF k
<1>9. Parts(sent)' /\ PartsSorted'
  BY <1>1, <1>3, <1>8, Delivered
<1> QED  BY <1>2, <1>9 DEF IInv

LEMMA ConnectErrorGood ==
  ASSUME IInv, NEW h \in Peers, ConnectError(h)
  PROVE  IInv'
<1>1. /\ host2endpoints[h] = "connecting" /\ host2endpoints' = [host2endpoints EXCEPT ![h] = "failed"]
      /\ UNCHANGED <<desc, wchan, rchan, sigs, active_endpoints, inactive_endpoints, busid2queue, host2queue,
                     wire, kv, watch, reqs, inwire, dropped, sent>>
  BY DEF ConnectError, shared, tables, consul
<1>2. Types' /\ ChannelsTyped' /\ DelIsKnown' /\ LeftIsUnrouted'
  BY <1>1 DEF IInv, Types, ChannelsTyped, DelIsKnown, LeftIsUnrouted
<1>3. host2endpoints \in [Peers -> Endpoint] /\ "failed" \in Endpoint
  BY DEF IInv, Parts, Endpoint
<1>4. Parts(sent)'
  BY <1>1, <1>3 DEF IInv, Parts
<1>5. PartsSorted'
  BY <1>1, <1>3 DEF IInv, PartsSorted, Waiting
<1> QED  BY <1>2, <1>4, <1>5 DEF IInv

LEMMA LinkBreaksGood ==
  ASSUME IInv, NEW h \in Peers, LinkBreaks(h)
  PROVE  IInv'
<1>1. Types'
  BY DEF IInv, Types, LinkBreaks, shared, tables, consul
<1> QED  BY <1>1, MailAlone DEF LinkBreaks, Else, shared, tables, consul, queues

LEMMA PeerSendsGood ==
  ASSUME IInv, NEW b \in Remote, NEW d \in BusId, PeerSends(b, d)
  PROVE  IInv'
<1> DEFINE m == [id |-> sent + 1, src |-> b, dst |-> d]
<1>1. sent \in Nat /\ sent' = sent + 1 /\ inwire' = Append(inwire, m)
  BY DEF IInv, Types, PeerSends
<1>2. m \in Message(sent + 1)
  BY <1>1 DEF Message, BusId
<1>3. UNCHANGED <<desc, wchan, rchan, sigs, active_endpoints, inactive_endpoints, busid2queue, host2queue,
                  host2endpoints, wire, kv, watch, reqs, dropped>>
  BY DEF PeerSends, shared, tables, queues, consul
<1> HIDE DEF m
<1>4. Types'
  BY <1>1, <1>3 DEF IInv, Types
<1>5. Parts(sent)'
  <2>1. MailType(sent) \subseteq MailType(sent + 1)
    BY <1>1, Grows
  <2>2. Parts(sent + 1)
    BY <2>1, PartsTyped DEF IInv
  <2> QED  BY <1>1, <1>3, <2>2 DEF Parts
<1>6. ChannelsTyped'
  <2>1. Queue(sent) \subseteq Queue(sent + 1)
    BY <1>1, Grows
  <2>2. inwire \in Queue(sent + 1) /\ wchan \in [Local -> Queue(sent + 1)]
    BY <2>1 DEF IInv, ChannelsTyped
  <2>3. Append(inwire, m) \in Queue(sent + 1)
    BY <1>2, <2>2 DEF Queue
  <2> QED  BY <1>1, <1>3, <2>2, <2>3 DEF IInv, ChannelsTyped
<1> QED  BY <1>3, <1>4, <1>5, <1>6 DEF IInv, PartsSorted, DelIsKnown, LeftIsUnrouted

LEMMA AppliedRoute ==
  ASSUME IInv, NEW op, NEW b \in Local
  PROVE  Applied(op, b) \in [BusId -> Route]
<1>1. kv \in [BusId -> Route] /\ b \in BusId /\ Here \in Route /\ NoHost \in Route
  BY Locals DEF IInv, Types
<1> QED  BY <1>1 DEF Applied

\* A request moves on from one stage to another, neither of them new to it.
LEMMA MovesOn ==
  ASSUME IInv, NEW op \in Op, NEW b \in Local, NEW stage \in {"sent", "orphan"}, NEW to \in {"ok", "failed"},
         NEW n \in {0, 1}, n = 1 => stage = "sent", reqs[Req(op, b, stage)] > 0,
         reqs' = [reqs EXCEPT ![Req(op, b, stage)] = @ - 1, ![Req(op, b, to)] = @ + n],
         UNCHANGED <<active_endpoints, inactive_endpoints>>
  PROVE  reqs' \in [Op \X Local \X Stage -> Nat] /\ DelIsKnown'
<1>1. /\ Req(op, b, stage) \in Op \X Local \X Stage /\ Req(op, b, to) \in Op \X Local \X Stage
      /\ Req(op, b, stage) # Req(op, b, to)
  BY RequestIn, RequestIs DEF Stage
<1>2. reqs \in [Op \X Local \X Stage -> Nat]
  BY DEF IInv, Types
<1>3. reqs' \in [Op \X Local \X Stage -> Nat]
  BY <1>1, <1>2
<1>4. DelIsKnown'
  <2> SUFFICES ASSUME NEW c \in Local, NEW t \in {"sent", "ok", "failed"}, reqs'[Req("del", c, t)] > 0
               PROVE  active_endpoints[c] # NoHost \/ c \in inactive_endpoints
    BY DEF DelIsKnown
  <2>1. Req("del", c, t) \in Op \X Local \X Stage
    BY RequestIn DEF Op, Stage
  <2>2. CASE reqs[Req("del", c, t)] > 0
    BY <2>2 DEF IInv, DelIsKnown
  <2>3. CASE ~(reqs[Req("del", c, t)] > 0)
    <3>1. Req("del", c, t) = Req(op, b, to) /\ n = 1
      BY <1>1, <1>2, <2>1, <2>3
    <3>2. op = "del" /\ b = c /\ stage = "sent"
      BY <3>1, RequestIs
    <3> QED  BY <3>2 DEF IInv, DelIsKnown
  <2> QED  BY <2>2, <2>3
<1> QED  BY <1>3, <1>4

\* Consul's routes and the stages of requests are all that a step of consul
\* changes.
LEMMA ConsulAlone ==
  ASSUME IInv, kv' \in [BusId -> Route], reqs' \in [Op \X Local \X Stage -> Nat], DelIsKnown',
         UNCHANGED <<desc, sigs, watch, Else>>,
         UNCHANGED <<busid2queue, host2queue, host2endpoints, wire, rchan, dropped>>
  PROVE  IInv'
<1>1. Types'
  BY DEF IInv, Types, Else
<1> QED  BY <1>1 DEF IInv, ChannelsTyped, Parts, PartsSorted, LeftIsUnrouted, Else

LEMMA ConsulAppliesGood ==
  ASSUME IInv, NEW op \in Op, NEW b \in Local, NEW stage \in {"sent", "orphan"}, ConsulApplies(op, b, stage)
  PROVE  IInv'
<1> DEFINE n == IF stage = "sent" THEN 1 ELSE 0
<1>1. /\ Req(op, b, stage) \in Op \X Local \X Stage /\ Req(op, b, "ok") \in Op \X Local \X Stage
      /\ Req(op, b, stage) # Req(op, b, "ok")
  BY RequestIn, RequestIs DEF Stage
<1>2. reqs \in [Op \X Local \X Stage -> Nat]
  BY DEF IInv, Types
<1>3. reqs[Req(op, b, stage)] > 0
      /\ reqs' = [reqs EXCEPT ![Req(op, b, stage)] = @ - 1, ![Req(op, b, "ok")] = IF stage = "sent" THEN @ + 1 ELSE @]
  BY DEF ConsulApplies
<1>4. reqs' = [reqs EXCEPT ![Req(op, b, stage)] = @ - 1, ![Req(op, b, "ok")] = @ + n]
  <2>1. reqs[Req(op, b, "ok")] \in Nat
    BY <1>1, <1>2
  <2>2. reqs[Req(op, b, "ok")] + n = IF stage = "sent" THEN reqs[Req(op, b, "ok")] + 1 ELSE reqs[Req(op, b, "ok")]
    BY <2>1
  <2> QED  BY <1>3, <2>2, Zenon
<1>5. n \in {0, 1} /\ (n = 1 => stage = "sent")
  OBVIOUS
<1>6. /\ kv' = Applied(op, b)
      /\ UNCHANGED <<desc, sigs, watch, Else>>
      /\ UNCHANGED <<busid2queue, host2queue, host2endpoints, wire, rchan, dropped>>
      /\ UNCHANGED <<active_endpoints, inactive_endpoints>>
  BY DEF ConsulApplies, shared, tables, queues, bounds, Else
<1> HIDE DEF n
<1>7. reqs' \in [Op \X Local \X Stage -> Nat] /\ DelIsKnown'
  BY <1>3, <1>4, <1>5, <1>6, MovesOn
<1> QED  BY <1>6, <1>7, AppliedRoute, ConsulAlone

LEMMA ConsulFailsGood ==
  ASSUME IInv, NEW op \in Op, NEW b \in Local, ConsulFails(op, b)
  PROVE  IInv'
<1>1. /\ kv' \in {kv, Applied(op, b)} /\ reqs[Req(op, b, "sent")] > 0
      /\ reqs' = [reqs EXCEPT ![Req(op, b, "sent")] = @ - 1, ![Req(op, b, "failed")] = @ + 1]
      /\ UNCHANGED <<desc, sigs, watch, Else>>
      /\ UNCHANGED <<busid2queue, host2queue, host2endpoints, wire, rchan, dropped>>
      /\ UNCHANGED <<active_endpoints, inactive_endpoints>>
  BY DEF ConsulFails, shared, tables, queues, Else
<1>2. reqs' \in [Op \X Local \X Stage -> Nat] /\ DelIsKnown'
  BY <1>1, MovesOn
<1>3. kv' \in [BusId -> Route]
  BY <1>1, AppliedRoute DEF IInv, Types
<1> QED  BY <1>1, <1>2, <1>3, ConsulAlone

LEMMA WatchAnswersGood ==
  ASSUME IInv, WatchAnswers
  PROVE  IInv'
<1>1. watch'.kind = "routes" /\ watch'.routes = kv
  BY DEF WatchAnswers, Answer
<1>2. Types'
  BY <1>1 DEF IInv, Types, WatchAnswers, shared, tables, bounds
<1> QED  BY <1>2, MailAlone DEF WatchAnswers, Else, shared, tables, queues, bounds

LEMMA WatchFailsGood ==
  ASSUME IInv, WatchFails
  PROVE  IInv'
<1>1. watch'.kind = "error"
  BY DEF WatchFails, Answer
<1>2. Types'
  BY <1>1 DEF IInv, Types, WatchFails, shared, tables
<1> QED  BY <1>2, MailAlone DEF WatchFails, Else, shared, tables, queues

LEMMA PeerRouteGood ==
  ASSUME IInv, NEW b \in Remote, NEW h \in Peers \cup {NoHost}, PeerRoute(b, h)
  PROVE  IInv'
<1>1. kv' \in [BusId -> Route]
  BY Locals DEF IInv, Types, PeerRoute, BusId
<1>2. Types'
  BY <1>1 DEF IInv, Types, PeerRoute, shared, tables
<1> QED  BY <1>2, MailAlone DEF PeerRoute, Else, shared, tables, queues

\* What a daemon knew dies with it; requests it had sent may still be carried
\* out, and their answers go to nobody.
LEMMA RestartGood ==
  ASSUME IInv, Restart
  PROVE  IInv'
<1>1. /\ sigs' = <<>> /\ active_endpoints' = UnknownRoutes /\ inactive_endpoints' = {}
      /\ busid2queue' = [b \in BusId |-> <<>>] /\ host2queue' = [h \in Peers |-> <<>>]
      /\ host2endpoints' = [h \in Peers |-> "none"] /\ watch' = Armed /\ inwire' = <<>>
      /\ UNCHANGED <<desc, wchan, rchan, wire, kv, sent>>
  BY DEF Restart
<1>2. /\ reqs' = [r \in DOMAIN reqs |-> IF r[3] = "orphan" THEN reqs[r] + reqs[Req(r[1], r[2], "sent")] ELSE 0]
      /\ dropped' = dropped \cup Ids(inwire) \cup (UNION {Ids(busid2queue[b]) : b \in BusId})
                            \cup (UNION {Ids(host2queue[h]) : h \in Peers})
  BY DEF Restart
<1>3. reqs \in [Op \X Local \X Stage -> Nat] /\ sent \in Nat
  BY DEF IInv, Types
<1>4. reqs' \in [Op \X Local \X Stage -> Nat]
  <2>1. \A r \in Op \X Local \X Stage : Req(r[1], r[2], "sent") \in Op \X Local \X Stage
    BY RequestIn DEF Stage
  <2>2. \A r \in Op \X Local \X Stage : reqs[r] + reqs[Req(r[1], r[2], "sent")] \in Nat
    BY <1>3, <2>1
  <2> QED  BY <1>2, <1>3, <2>2
<1>5. Types'
  <2>1. UnknownRoutes \in [BusId -> Route] /\ Armed.kind = "armed" /\ <<>> \in Seq(Signal)
    BY Locals DEF UnknownRoutes, Armed
  <2> QED  BY <1>1, <1>4, <2>1 DEF IInv, Types
<1>6. ChannelsTyped'
  BY <1>1 DEF IInv, ChannelsTyped, Queue
<1>7. Parts(sent)'
  <2>1. /\ \A b \in BusId : Ids(busid2queue[b]) \subseteq 1 .. sent
        /\ \A h \in Peers : Ids(host2queue[h]) \subseteq 1 .. sent
        /\ Ids(inwire) \subseteq 1 .. sent
    BY <1>3, IdsIn DEF IInv, Parts, ChannelsTyped
  <2>2. dropped' \in SUBSET (1 .. sent)
    BY <1>2, <2>1 DEF IInv, Parts
  <2> QED  BY <1>1, <2>2 DEF IInv, Parts, Queue, Endpoint
<1>8. PartsSorted'
  BY <1>1 DEF IInv, PartsSorted, Waiting
<1>9. DelIsKnown'
  <2> SUFFICES ASSUME NEW c \in Local, NEW t \in {"sent", "ok", "failed"} PROVE ~(reqs'[Req("del", c, t)] > 0)
    BY DEF DelIsKnown
  <2>1. Req("del", c, t) \in DOMAIN reqs
    BY <1>3, RequestIn DEF Op, Stage
  <2>2. Req("del", c, t)[3] # "orphan"
    BY DEF Req
  <2> QED  BY <1>2, <2>1, <2>2
<1>10. LeftIsUnrouted'
  BY <1>1 DEF LeftIsUnrouted
<1> QED  BY <1>5, <1>6, <1>7, <1>8, <1>9, <1>10 DEF IInv
------------------------------------------------------------------------------
LEMMA InitGood == Init => IInv
<1> SUFFICES ASSUME Init PROVE IInv
  OBVIOUS
<1>1. Up \subseteq BusId /\ <<>> \in Queue(0) /\ <<>> \in Seq(Signal) /\ Len(<<>>) = 0 /\ \A b \in Local : 0 <= ChanCap[b]
  BY Locals, RouterAssumption DEF RouterAssumption, Queue
<1>2. active_endpoints \in [BusId -> Route] /\ kv \in [BusId -> Route]
  BY Locals DEF Init
<1>3. \A r \in Op \X Local \X Stage : reqs[r] = 0
  BY DEF Init, NoReqs
<1>4. Types
  BY <1>1, <1>2 DEF Init, Types, NoReqs, Armed
<1>5. ChannelsTyped /\ Parts(sent)
  BY <1>1 DEF Init, ChannelsTyped, Parts, Endpoint
<1>6. PartsSorted
  BY <1>1 DEF Init, PartsSorted, Waiting
<1>7. DelIsKnown
  BY <1>3, RequestIn DEF DelIsKnown, Op, Stage
<1> QED  BY <1>4, <1>5, <1>6, <1>7 DEF IInv, LeftIsUnrouted, Init

LEMMA Stutters ==
  ASSUME IInv, UNCHANGED vars
  PROVE  IInv'
<1>1. Types'
  BY DEF IInv, Types, vars, shared, tables, consul, bounds
<1> QED  BY <1>1, MailAlone DEF vars, shared, tables, queues, consul, bounds, Else

LEMMA NextGood == IInv /\ [Next]_vars => IInv'
<1> SUFFICES ASSUME IInv, [Next]_vars PROVE IInv'
  OBVIOUS
<1>1. CASE Daemon
  BY <1>1, LocalMessageGood, DescriptorGood, WatchGood, RouteSetGood, RouteDelGood, ConnectedGood,
     ClientMessageGood DEF Daemon
<1>2. CASE Consul
  BY <1>2, WatchAnswersGood, ConsulAppliesGood DEF Consul
<1>3. CASE Processes
  BY <1>3, RegisterGood, DeregisterGood, RecvGood, SendGood DEF Processes
<1>4. CASE Outside
  BY <1>4, PeerSendsGood, PeerRouteGood, ConnectErrorGood, LinkBreaksGood, ConsulFailsGood, WatchFailsGood,
     RestartGood DEF Outside
<1>5. CASE UNCHANGED vars
  BY <1>5, Stutters
<1> QED  BY <1>1, <1>2, <1>3, <1>4, <1>5 DEF Next

\* The invariant: every table, queue and channel of the daemon has its type,
\* the queues agree with the routes, and a request to delete a route is about a
\* bus id that is active or known to have left.
THEOREM Invariance == Spec => []IInv
  BY InitGood, NextGood, PTL DEF Spec

\* The tables of bus_router.cpp stay consistent whatever the order in which
\* signals, answers of consul, connections and messages arrive: no bus id is
\* both active and inactive, messages wait only for a bus id that is neither,
\* and a peer has a queue exactly while its connection is not there.
THEOREM TablesAgree == Spec => []TablesConsistent
<1>1. IInv => TablesConsistent
  <2> SUFFICES ASSUME IInv PROVE TablesConsistent
    OBVIOUS
  <2>1. TypeOK
    <3>1. sent \in Nat /\ ChanCap \in [Local -> Nat \ {0}]
      BY RouterAssumption DEF IInv, Types, RouterAssumption
    <3>2. \A b \in Local : {Len(wchan[b]), Len(rchan[b])} \subseteq 0 .. ChanCap[b]
      <4> SUFFICES ASSUME NEW b \in Local PROVE {Len(wchan[b]), Len(rchan[b])} \subseteq 0 .. ChanCap[b]
        OBVIOUS
      <4>1. wchan[b] \in Seq(Message(sent)) /\ rchan[b] \in Seq(Message(sent))
        BY DEF IInv, ChannelsTyped, Parts, Queue
      <4>2. Len(wchan[b]) \in Nat /\ Len(rchan[b]) \in Nat
        BY <4>1
      <4> QED  BY <3>1, <4>2 DEF IInv, ChannelsTyped, PartsSorted
    <3>3. \A i \in DOMAIN sigs : sigs[i] \in Signal
      BY DEF IInv, Types
    <3>4. dropped \subseteq 1 .. sent /\ host2endpoints \in [Peers -> {"none", "connecting", "connected", "failed"}]
      BY DEF IInv, Parts, Endpoint
    <3> QED  BY <3>2, <3>3, <3>4 DEF IInv, Types, TypeOK, Route
  <2>2. \A h \in Peers : (host2queue[h] # <<>>) <=> (host2endpoints[h] \in {"connecting", "failed"})
    BY DEF IInv, PartsSorted, Waiting
  <2> QED  BY <2>1, <2>2 DEF IInv, PartsSorted, LeftIsUnrouted, TablesConsistent
<1> QED  BY <1>1, Invariance, PTL
------------------------------------------------------------------------------
(* Messages and the places where they are *)

\* What can be at a place.
Fits(p, m) ==
  /\ p[1] = "wchan" => m.src = p[2]
  /\ p[1] = "inwire" => m.src \in Remote
  /\ p[1] = "busq" => m.dst = p[2]

SameWay(x, y) == x.src = y.src /\ x.dst = y.dst
Before(p, i, q, j) == (p = q /\ i < j) \/ Ahead(p, q)

Typed(at, n) == at \in [Place -> Queue(n)]
AllFit(at) == \A p \in Place : \A i \in 1 .. Len(at[p]) : Fits(p, at[p][i])
NotLost(at, lost) == \A p \in Place : \A i \in 1 .. Len(at[p]) : at[p][i].id \notin lost
Accounted(at, lost, n) ==
  \A id \in 1 .. n : id \in lost \/ \E p \in Place : \E i \in 1 .. Len(at[p]) : at[p][i].id = id
Once(at) ==
  \A p, q \in Place : \A i \in 1 .. Len(at[p]), j \in 1 .. Len(at[q]) :
    at[p][i].id = at[q][j].id => p = q /\ i = j
InOrder(at) ==
  \A p, q \in Place : \A i \in 1 .. Len(at[p]), j \in 1 .. Len(at[q]) :
    SameWay(at[p][i], at[q][j]) /\ Before(p, i, q, j) => at[p][i].id < at[q][j].id

\* Each of n messages is at one place, or it is lost.
Kept(at, lost, n) ==
  /\ Typed(at, n) /\ AllFit(at)
  /\ NotLost(at, lost) /\ Accounted(at, lost, n) /\ Once(at) /\ InOrder(at)

LEMMA Farther ==
  ASSUME NEW p \in Place, NEW q \in Place, NEW r \in Place, Ahead(q, p)
  PROVE  q # p /\ (Ahead(r, q) => Ahead(r, p)) /\ ~Ahead(p, q)
  BY DEF Ahead, Place

\* The first c[p] messages of each place are lost.
Cut(at, kt, c) == \A p \in Place : c[p] <= Len(at[p]) /\ kt[p] = SubSeq(at[p], c[p] + 1, Len(at[p]))
LostToo(at, lost, c, n) ==
  lost \cup {id \in 1 .. n : \E p \in Place : \E i \in 1 .. c[p] : at[p][i].id = id}

LEMMA CutKeeps ==
  ASSUME NEW n \in Nat, NEW at, NEW lost, Kept(at, lost, n), NEW kt, Typed(kt, n),
         NEW c \in [Place -> Nat], Cut(at, kt, c)
  PROVE  Kept(kt, LostToo(at, lost, c, n), n)
<1>1. ASSUME NEW p \in Place
      PROVE  /\ Len(at[p]) \in Nat /\ c[p] \in Nat /\ c[p] <= Len(at[p])
             /\ \A i \in 1 .. Len(kt[p]) : \E k \in 1 .. Len(at[p]) : k = i + c[p] /\ kt[p][i] = at[p][k]
             /\ \A k \in 1 .. Len(at[p]) : k > c[p] => \E i \in 1 .. Len(kt[p]) : kt[p][i] = at[p][k]
             /\ \A k \in 1 .. Len(at[p]) : at[p][k].id \in 1 .. n
  <2>1. at[p] \in Seq(Message(n)) /\ Len(at[p]) \in Nat /\ c[p] \in Nat
    BY DEF Kept, Typed, Queue
  <2>2. ASSUME NEW i \in 1 .. Len(at[p]) PROVE at[p][i].id \in 1 .. n
    <3>1. at[p][i] \in Message(n)
      BY <2>1
    <3> QED  BY <3>1 DEF Message
  <2> DEFINE a == at[p]
             b == kt[p]
             d == c[p]
  <2>3. a \in Seq(Message(n)) /\ d \in Nat /\ d <= Len(a) /\ b = SubSeq(a, d + 1, Len(a))
    BY <2>1 DEF Cut
  <2> HIDE DEF a, b, d
  <2>4. Len(b) = Len(a) - d /\ \A i \in 1 .. Len(b) : i + d \in 1 .. Len(a) /\ b[i] = a[i + d]
    BY <2>3
  <2>5. Len(b) \in Nat /\ \A i \in 1 .. Len(a) : i > d => i - d \in 1 .. Len(b) /\ b[i - d] = a[i]
    BY <2>3, <2>4
  <2> QED  BY <2>1, <2>2, <2>3, <2>4, <2>5 DEF a, b, d
<1>2. AllFit(kt)
  BY <1>1 DEF Kept, AllFit
<1>3. NotLost(kt, LostToo(at, lost, c, n))
  <2> SUFFICES ASSUME NEW p \in Place, NEW i \in 1 .. Len(kt[p]), kt[p][i].id \in LostToo(at, lost, c, n) PROVE FALSE
    BY DEF NotLost
  <2>1. PICK k \in 1 .. Len(at[p]) : k = i + c[p] /\ kt[p][i] = at[p][k]
    BY <1>1
  <2>2. k > c[p]
    BY <1>1, <2>1
  <2>3. kt[p][i].id \notin lost
    BY <2>1 DEF Kept, NotLost
  <2>4. PICK q \in Place : \E j \in 1 .. c[q] : at[q][j].id = kt[p][i].id
    BY <2>3 DEF LostToo
  <2>. PICK j \in 1 .. c[q] : at[q][j].id = kt[p][i].id
    BY <2>4
  <2>5. j \in 1 .. Len(at[q]) /\ j <= c[q]
    <3>1. Len(at[q]) \in Nat /\ c[q] \in Nat /\ c[q] <= Len(at[q])
      BY <1>1
    <3> QED  BY <3>1
  <2>6. q = p /\ j = k
    BY <2>1, <2>4, <2>5 DEF Kept, Once
  <2> QED  BY <1>1, <2>2, <2>5, <2>6
<1>4. Accounted(kt, LostToo(at, lost, c, n), n)
  <2> SUFFICES ASSUME NEW id \in 1 .. n, id \notin LostToo(at, lost, c, n)
               PROVE  \E p \in Place : \E i \in 1 .. Len(kt[p]) : kt[p][i].id = id
    BY DEF Accounted
  <2>0. PICK p \in Place : \E k \in 1 .. Len(at[p]) : at[p][k].id = id
    BY DEF Kept, Accounted, LostToo
  <2>1. PICK k \in 1 .. Len(at[p]) : at[p][k].id = id
    BY <2>0
  <2>2. k \notin 1 .. c[p]
    BY <2>1 DEF LostToo
  <2>3. k > c[p]
    <3>1. Len(at[p]) \in Nat /\ c[p] \in Nat
      BY <1>1
    <3> QED  BY <2>2, <3>1
  <2> QED  BY <1>1, <2>1, <2>3
<1>5. Once(kt)
  <2> SUFFICES ASSUME NEW p \in Place, NEW q \in Place, NEW i \in 1 .. Len(kt[p]), NEW j \in 1 .. Len(kt[q]),
                      kt[p][i].id = kt[q][j].id
               PROVE  p = q /\ i = j
    BY DEF Once
  <2>1. PICK k \in 1 .. Len(at[p]) : k = i + c[p] /\ kt[p][i] = at[p][k]
    BY <1>1
  <2>2. PICK l \in 1 .. Len(at[q]) : l = j + c[q] /\ kt[q][j] = at[q][l]
    BY <1>1
  <2>3. p = q /\ k = l
    <3>1. at[p][k].id = at[q][l].id
      BY <2>1, <2>2
    <3> QED  BY <3>1 DEF Kept, Once
  <2>4. c[p] \in Nat
    BY <1>1
  <2> QED  BY <2>1, <2>2, <2>3, <2>4
<1>6. InOrder(kt)
  <2> SUFFICES ASSUME NEW p \in Place, NEW q \in Place, NEW i \in 1 .. Len(kt[p]), NEW j \in 1 .. Len(kt[q]),
                      SameWay(kt[p][i], kt[q][j]), Before(p, i, q, j)
               PROVE  kt[p][i].id < kt[q][j].id
    BY DEF InOrder
  <2>1. PICK k \in 1 .. Len(at[p]) : k = i + c[p] /\ kt[p][i] = at[p][k]
    BY <1>1
  <2>2. PICK l \in 1 .. Len(at[q]) : l = j + c[q] /\ kt[q][j] = at[q][l]
    BY <1>1
  <2>3. Before(p, k, q, l)
    <3>1. c[p] \in Nat
      BY <1>1
    <3> QED  BY <2>1, <2>2, <3>1 DEF Before
  <2> QED  BY <2>1, <2>2, <2>3 DEF Kept, InOrder
<1> QED  BY <1>2, <1>3, <1>4, <1>5, <1>6 DEF Kept

\* A message goes on: the first of p becomes the last of q, which is ahead of p.
\* Nothing on the same way stays behind between the two.
Free(at, p, q, x) ==
  \A r \in Place : r # p /\ Ahead(q, r) /\ ~Ahead(p, r) => \A j \in 1 .. Len(at[r]) : ~SameWay(x, at[r][j])

LEMMA MoveKeeps ==
  ASSUME NEW n \in Nat, NEW at, NEW lost, Kept(at, lost, n), NEW p \in Place, NEW q \in Place,
         at[p] # <<>>, Ahead(q, p), Fits(q, Head(at[p])), Free(at, p, q, Head(at[p])),
         NEW kt, Typed(kt, n), kt[p] = Tail(at[p]), kt[q] = Append(at[q], Head(at[p])),
         \A r \in Place : r # p /\ r # q => kt[r] = at[r]
  PROVE  Kept(kt, lost, n)
<1> DEFINE x == Head(at[p])
           e == Len(at[q]) + 1
           From(r, i, o, j) ==
             \/ r = p /\ o = p /\ j = i + 1
             \/ r # p /\ ~(r = q /\ i = e) /\ o = r /\ j = i
             \/ r = q /\ i = e /\ o = p /\ j = 1
<1>0. p # q /\ \A r \in Place : Ahead(r, q) => Ahead(r, p)
  BY Farther
<1>1. /\ at[p] \in Seq(Message(n)) /\ at[q] \in Seq(Message(n)) /\ Len(at[p]) \in Nat /\ Len(at[q]) \in Nat
      /\ \A r \in Place : Len(at[r]) \in Nat
  BY DEF Kept, Typed, Queue
<1>2. /\ Len(kt[p]) = Len(at[p]) - 1 /\ Len(at[p]) >= 1 /\ x = at[p][1]
      /\ \A i \in 1 .. Len(kt[p]) : i + 1 \in 1 .. Len(at[p]) /\ kt[p][i] = at[p][i + 1]
  BY <1>1
<1>3. x \in Message(n)
  BY <1>1
<1>4. /\ Len(kt[q]) = e /\ kt[q][e] = x
      /\ \A i \in 1 .. Len(at[q]) : kt[q][i] = at[q][i]
  BY <1>1, <1>3
<1>5. \A r \in Place : Len(kt[r]) \in Nat
  BY DEF Typed, Queue
<1> HIDE DEF x
\* Each message was there before, and its place is known.
<1>6. ASSUME NEW r \in Place, NEW i \in 1 .. Len(kt[r])
      PROVE  \E o \in Place : \E j \in 1 .. Len(at[o]) : From(r, i, o, j) /\ kt[r][i] = at[o][j]
  <2>1. CASE r = p
    BY <1>2, <2>1
  <2>2. CASE r = q /\ i = e
    <3>1. 1 \in 1 .. Len(at[p])
      BY <1>1, <1>2
    <3> QED  BY <1>2, <1>4, <2>2, <3>1
  <2>3. CASE r = q /\ i # e
    <3>1. i \in 1 .. Len(at[q])
      BY <1>1, <1>4, <2>3
    <3> QED  BY <1>0, <1>4, <2>3, <3>1
  <2>4. CASE r # p /\ r # q
    BY <2>4
  <2> QED  BY <2>1, <2>2, <2>3, <2>4
<1>7. ASSUME NEW o \in Place, NEW j \in 1 .. Len(at[o])
      PROVE  \E r \in Place : \E i \in 1 .. Len(kt[r]) : kt[r][i] = at[o][j]
  <2>1. CASE o = p /\ j = 1
    <3>1. e \in 1 .. Len(kt[q])
      BY <1>1, <1>4
    <3> QED  BY <1>2, <1>4, <2>1, <3>1
  <2>2. CASE o = p /\ j # 1
    <3>1. j - 1 \in 1 .. Len(kt[p]) /\ (j - 1) + 1 = j
      BY <1>1, <1>2, <2>2
    <3> QED  BY <1>2, <2>2, <3>1
  <2>3. CASE o = q
    <3>1. j \in 1 .. Len(kt[q])
      BY <1>1, <1>4, <2>3
    <3> QED  BY <1>4, <2>3, <3>1
  <2>4. CASE o # p /\ o # q
    BY <2>4
  <2> QED  BY <2>1, <2>2, <2>3, <2>4
<1>8. AllFit(kt)
  <2> SUFFICES ASSUME NEW r \in Place, NEW i \in 1 .. Len(kt[r]) PROVE Fits(r, kt[r][i])
    BY DEF AllFit
  <2>1. PICK o \in Place : \E j \in 1 .. Len(at[o]) : From(r, i, o, j) /\ kt[r][i] = at[o][j]
    BY <1>6
  <2>2. PICK j \in 1 .. Len(at[o]) : From(r, i, o, j) /\ kt[r][i] = at[o][j]
    BY <2>1
  <2>3. CASE o = r
    BY <2>2, <2>3 DEF Kept, AllFit
  <2>4. CASE o # r
    BY <1>4, <2>2, <2>4 DEF x
  <2> QED  BY <2>3, <2>4
<1>9. NotLost(kt, lost)
  <2> SUFFICES ASSUME NEW r \in Place, NEW i \in 1 .. Len(kt[r]) PROVE kt[r][i].id \notin lost
    BY DEF NotLost
  <2>1. PICK o \in Place : \E j \in 1 .. Len(at[o]) : kt[r][i] = at[o][j]
    BY <1>6
  <2> QED  BY <2>1 DEF Kept, NotLost
<1>10. Accounted(kt, lost, n)
  <2> SUFFICES ASSUME NEW id \in 1 .. n, id \notin lost
               PROVE  \E r \in Place : \E i \in 1 .. Len(kt[r]) : kt[r][i].id = id
    BY DEF Accounted
  <2>1. PICK o \in Place : \E j \in 1 .. Len(at[o]) : at[o][j].id = id
    BY DEF Kept, Accounted
  <2>2. PICK j \in 1 .. Len(at[o]) : at[o][j].id = id
    BY <2>1
  <2>3. PICK r \in Place : \E i \in 1 .. Len(kt[r]) : kt[r][i] = at[o][j]
    BY <1>7
  <2> QED  BY <2>2, <2>3
<1>11. ASSUME NEW r \in Place, NEW s \in Place, NEW i \in 1 .. Len(kt[r]), NEW j \in 1 .. Len(kt[s])
       PROVE  /\ kt[r][i].id = kt[s][j].id => r = s /\ i = j
              /\ SameWay(kt[r][i], kt[s][j]) /\ Before(r, i, s, j) => kt[r][i].id < kt[s][j].id
  <2>1. PICK o \in Place : \E k \in 1 .. Len(at[o]) : From(r, i, o, k) /\ kt[r][i] = at[o][k]
    BY <1>6
  <2>2. PICK k \in 1 .. Len(at[o]) : From(r, i, o, k) /\ kt[r][i] = at[o][k]
    BY <2>1
  <2>3. PICK t \in Place : \E l \in 1 .. Len(at[t]) : From(s, j, t, l) /\ kt[s][j] = at[t][l]
    BY <1>6
  <2>4. PICK l \in 1 .. Len(at[t]) : From(s, j, t, l) /\ kt[s][j] = at[t][l]
    BY <2>3
  <2>5. ASSUME kt[r][i].id = kt[s][j].id PROVE r = s /\ i = j
    <3>1. at[o][k].id = at[t][l].id
      BY <2>2, <2>4, <2>5
    <3>2. o = t /\ k = l
      BY <3>1 DEF Kept, Once
    <3> QED  BY <1>0, <1>1, <1>5, <2>2, <2>4, <3>2
  <2>6. ASSUME SameWay(kt[r][i], kt[s][j]), Before(r, i, s, j) PROVE kt[r][i].id < kt[s][j].id
    <3>1. SameWay(at[o][k], at[t][l])
      BY <2>2, <2>4, <2>6
    <3>2. Before(o, k, t, l)
      <4>1. CASE o = r /\ t = s
        BY <1>1, <1>5, <2>2, <2>4, <2>6, <4>1 DEF Before
      <4>2. CASE o # r /\ t = s
        <5>1. r = q /\ i = e /\ o = p /\ k = 1 /\ at[o][k] = x
          BY <1>2, <2>2, <4>2
        <5>2. CASE s = p
          <6>1. l = j + 1
            BY <1>0, <2>4, <4>2, <5>2
          <6> QED  BY <1>5, <4>2, <5>1, <5>2, <6>1 DEF Before
        <5>3. CASE s = q
          <6>1. ~Ahead(q, q)
            BY DEF Ahead, Place
          <6>2. j > e
            BY <2>6, <5>1, <5>3, <6>1 DEF Before
          <6> QED  BY <1>1, <1>4, <5>3, <6>2
        <5>4. CASE s # p /\ s # q
          <6>1. Ahead(q, s)
            BY <2>6, <5>1, <5>4 DEF Before
          <6>2. Ahead(p, s)
            BY <3>1, <4>2, <5>1, <5>4, <6>1 DEF Free, x
          <6> QED  BY <4>2, <5>1, <6>2 DEF Before
        <5> QED  BY <5>2, <5>3, <5>4
      <4>3. CASE o = r /\ t # s
        <5>1. s = q /\ j = e /\ t = p /\ l = 1
          BY <2>4, <4>3
        <5>2. CASE r = q
          BY <4>3, <5>1, <5>2 DEF Before
        <5>3. CASE r # q
          <6>1. Ahead(r, q)
            BY <2>6, <5>1, <5>3 DEF Before
          <6> QED  BY <1>0, <4>3, <5>1, <6>1 DEF Before
        <5> QED  BY <5>2, <5>3
      <4>4. CASE o # r /\ t # s
        <5>1. r = q /\ s = q /\ i = e /\ j = e
          BY <2>2, <2>4, <4>4
        <5>2. ~Ahead(q, q)
          BY DEF Ahead, Place
        <5> QED  BY <1>1, <2>6, <5>1, <5>2 DEF Before
      <4> QED  BY <4>1, <4>2, <4>3, <4>4
    <3> QED  BY <2>2, <2>4, <3>1, <3>2 DEF Kept, InOrder
  <2> QED  BY <2>5, <2>6
<1>12. Once(kt) /\ InOrder(kt)
  BY <1>11 DEF Once, InOrder
<1> QED  BY <1>8, <1>9, <1>10, <1>12 DEF Kept

LEMMA IdsBelow ==
  ASSUME NEW n \in Nat, NEW at, Typed(at, n), NEW p \in Place
  PROVE  /\ at[p] \in Seq(Message(n)) /\ Len(at[p]) \in Nat
         /\ \A i \in 1 .. Len(at[p]) : at[p][i] \in Message(n) /\ at[p][i].id \in 1 .. n
<1>1. at[p] \in Seq(Message(n)) /\ Len(at[p]) \in Nat
  BY DEF Typed, Queue
<1>2. ASSUME NEW i \in 1 .. Len(at[p]) PROVE at[p][i] \in Message(n) /\ at[p][i].id \in 1 .. n
  <2>1. at[p][i] \in Message(n)
    BY <1>1
  <2> QED  BY <2>1 DEF Message
<1> QED  BY <1>1, <1>2

\* A new message is the last of its sender's, or is given up at once.
LEMMA NewKeeps ==
  ASSUME NEW n \in Nat, NEW at, NEW lost \in SUBSET (1 .. n), Kept(at, lost, n),
         NEW p \in Place, p[1] \in {"wchan", "inwire"}, NEW m, m.id = n + 1, Fits(p, m), m \in Message(n + 1),
         NEW kt, Typed(kt, n + 1), kt[p] = Append(at[p], m), \A r \in Place : r # p => kt[r] = at[r]
  PROVE  Kept(kt, lost, n + 1)
<1> DEFINE e == Len(at[p]) + 1
<1>1. \A r \in Place : Len(at[r]) \in Nat /\ \A i \in 1 .. Len(at[r]) : at[r][i].id \in 1 .. n
  BY IdsBelow DEF Kept
<1>2. Len(kt[p]) = e /\ kt[p][e] = m /\ e \in 1 .. e /\ \A i \in 1 .. Len(at[p]) : kt[p][i] = at[p][i] /\ i \in 1 .. e
  <2>1. at[p] \in Seq(Message(n)) /\ Len(at[p]) \in Nat
    BY IdsBelow DEF Kept
  <2> QED  BY <2>1
<1>3. \A r \in Place : ~Ahead(p, r)
  BY DEF Ahead, Place
<1> HIDE DEF e
<1>4. ASSUME NEW r \in Place, NEW i \in 1 .. Len(kt[r]), ~(r = p /\ i = e)
      PROVE  i \in 1 .. Len(at[r]) /\ kt[r][i] = at[r][i]
  <2>1. CASE r = p
    <3>1. i \in 1 .. Len(at[p])
      BY <1>1, <1>2, <1>4, <2>1 DEF e
    <3> QED  BY <1>2, <2>1, <3>1
  <2>2. CASE r # p
    BY <2>2
  <2> QED  BY <2>1, <2>2
<1>5. AllFit(kt)
  <2> SUFFICES ASSUME NEW r \in Place, NEW i \in 1 .. Len(kt[r]) PROVE Fits(r, kt[r][i])
    BY DEF AllFit
  <2>1. CASE r = p /\ i = e
    BY <1>2, <2>1
  <2>2. CASE ~(r = p /\ i = e)
    BY <1>4, <2>2 DEF Kept, AllFit
  <2> QED  BY <2>1, <2>2
<1>6. NotLost(kt, lost)
  <2> SUFFICES ASSUME NEW r \in Place, NEW i \in 1 .. Len(kt[r]) PROVE kt[r][i].id \notin lost
    BY DEF NotLost
  <2>1. CASE r = p /\ i = e
    <3>1. n + 1 \notin 1 .. n
      OBVIOUS
    <3> QED  BY <1>2, <2>1, <3>1
  <2>2. CASE ~(r = p /\ i = e)
    BY <1>4, <2>2 DEF Kept, NotLost
  <2> QED  BY <2>1, <2>2
<1>7. Accounted(kt, lost, n + 1)
  <2> SUFFICES ASSUME NEW id \in 1 .. n + 1, id \notin lost
               PROVE  \E r \in Place : \E i \in 1 .. Len(kt[r]) : kt[r][i].id = id
    BY DEF Accounted
  <2>1. CASE id = n + 1
    BY <1>2, <2>1
  <2>2. CASE id # n + 1
    <3>1. id \in 1 .. n
      BY <2>2
    <3>2. PICK r \in Place : \E i \in 1 .. Len(at[r]) : at[r][i].id = id
      BY <3>1 DEF Kept, Accounted
    <3>3. CASE r = p
      BY <1>2, <3>2, <3>3
    <3>4. CASE r # p
      BY <3>2, <3>4
    <3> QED  BY <3>3, <3>4
  <2> QED  BY <2>1, <2>2
<1>8. ASSUME NEW r \in Place, NEW s \in Place, NEW i \in 1 .. Len(kt[r]), NEW j \in 1 .. Len(kt[s])
      PROVE  /\ kt[r][i].id = kt[s][j].id => r = s /\ i = j
             /\ SameWay(kt[r][i], kt[s][j]) /\ Before(r, i, s, j) => kt[r][i].id < kt[s][j].id
  <2>1. CASE ~(r = p /\ i = e) /\ ~(s = p /\ j = e)
    <3>1. i \in 1 .. Len(at[r]) /\ kt[r][i] = at[r][i] /\ j \in 1 .. Len(at[s]) /\ kt[s][j] = at[s][j]
      BY <1>4, <2>1
    <3> QED  BY <3>1 DEF Kept, Once, InOrder
  <2>2. CASE ~(r = p /\ i = e) /\ s = p /\ j = e
    <3>1. i \in 1 .. Len(at[r]) /\ kt[r][i] = at[r][i]
      BY <1>4, <2>2
    <3>2. kt[r][i].id \in 1 .. n /\ kt[s][j].id = n + 1
      BY <1>1, <1>2, <2>2, <3>1
    <3> QED  BY <3>2
  <2>3. CASE r = p /\ i = e /\ ~(s = p /\ j = e)
    <3>1. j \in 1 .. Len(at[s]) /\ kt[s][j] = at[s][j]
      BY <1>4, <2>3
    <3>2. kt[s][j].id \in 1 .. n /\ kt[r][i].id = n + 1
      BY <1>1, <1>2, <2>3, <3>1
    <3>3. kt[r][i].id # kt[s][j].id
      BY <3>2
    <3>4. ~Before(r, i, s, j)
      <4>1. ~(r = s /\ i < j)
        BY <1>1, <2>3, <3>1 DEF e
      <4> QED  BY <1>3, <2>3, <4>1 DEF Before
    <3> QED  BY <3>3, <3>4
  <2>4. CASE r = p /\ i = e /\ s = p /\ j = e
    <3>1. ~Before(r, i, s, j)
      BY <1>1, <1>3, <2>4 DEF Before, e
    <3> QED  BY <2>4, <3>1
  <2> QED  BY <2>1, <2>2, <2>3, <2>4
<1>9. Once(kt) /\ InOrder(kt)
  BY <1>8 DEF Once, InOrder
<1> QED  BY <1>5, <1>6, <1>7, <1>9 DEF Kept

LEMMA RefusedKeeps ==
  ASSUME NEW n \in Nat, NEW at, NEW lost, Kept(at, lost, n), Typed(at, n + 1)
  PROVE  Kept(at, lost \cup {n + 1}, n + 1)
<1>1. NotLost(at, lost \cup {n + 1})
  <2> SUFFICES ASSUME NEW p \in Place, NEW i \in 1 .. Len(at[p]) PROVE at[p][i].id \notin lost \cup {n + 1}
    BY DEF NotLost
  <2>1. at[p][i].id \in 1 .. n /\ n + 1 \notin 1 .. n
    BY IdsBelow DEF Kept
  <2>2. at[p][i].id \notin lost
    BY DEF Kept, NotLost
  <2> QED  BY <2>1, <2>2
<1>2. Accounted(at, lost \cup {n + 1}, n + 1)
  <2> SUFFICES ASSUME NEW id \in 1 .. n + 1, id \notin lost \cup {n + 1}
               PROVE  \E p \in Place : \E i \in 1 .. Len(at[p]) : at[p][i].id = id
    BY DEF Accounted
  <2>1. id \in 1 .. n
    OBVIOUS
  <2> QED  BY <2>1 DEF Kept, Accounted
<1> QED  BY <1>1, <1>2 DEF Kept

------------------------------------------------------------------------------
(* What the handling of a message does to the places *)

\* The places, with the mail as it is in s.
At(s) ==
  [p \in Place |->
     CASE p[1] = "wchan" -> wchan[p[2]] [] p[1] = "rchan" -> s.rchan[p[2]] [] p[1] = "got" -> got[p[2]]
       [] p[1] = "busq" -> s.busq[p[2]] [] p[1] = "hostq" -> s.hostq[p[2]]
       [] p[1] = "wire" -> s.wire[p[2]] [] OTHER -> inwire]

\* The same, where rest is what is left at p.
In(s, p, rest) == [At(s) EXCEPT ![p] = rest]

LEMMA Places ==
  ASSUME NEW p \in Place
  PROVE  \/ p[1] \in {"wchan", "rchan", "got"} /\ p[2] \in Local
         \/ p[1] = "busq" /\ p[2] \in BusId
         \/ p[1] \in {"hostq", "wire"} /\ p[2] \in Peers
         \/ p = <<"inwire", Here>> /\ p[1] = "inwire"
  BY DEF Place

LEMMA PlaceIs ==
  /\ \A b \in Local : \A k \in {"wchan", "rchan", "got"} : <<k, b>> \in Place
  /\ \A b \in BusId : <<"busq", b>> \in Place
  /\ \A h \in Peers : \A k \in {"hostq", "wire"} : <<k, h>> \in Place
  /\ <<"inwire", Here>> \in Place
  /\ \A p \in Place : p = <<p[1], p[2]>>
  BY DEF Place

LEMMA AtIs ==
  ASSUME NEW s, NEW p \in Place
  PROVE  /\ p[1] = "wchan" => At(s)[p] = wchan[p[2]]
         /\ p[1] = "rchan" => At(s)[p] = s.rchan[p[2]]
         /\ p[1] = "got" => At(s)[p] = got[p[2]]
         /\ p[1] = "busq" => At(s)[p] = s.busq[p[2]]
         /\ p[1] = "hostq" => At(s)[p] = s.hostq[p[2]]
         /\ p[1] = "wire" => At(s)[p] = s.wire[p[2]]
         /\ p[1] = "inwire" => At(s)[p] = inwire
  BY DEF At

Gone(s, k, m) == k.lost = s.lost \cup {m.id} /\ \A r \in Place : At(k)[r] = At(s)[r]
Put(s, k, q, m) ==
  k.lost = s.lost /\ At(k)[q] = Append(At(s)[q], m) /\ \A r \in Place : r # q => At(k)[r] = At(s)[r]

LEMMA DropPuts ==
  ASSUME NEW n, NEW s \in MailType(n), NEW m
  PROVE  Gone(s, Drop(s, m), m)
<1> DEFINE k == Drop(s, m)
<1>1. /\ k.lost = s.lost \cup {m.id} /\ k.rchan = s.rchan /\ k.busq = s.busq /\ k.hostq = s.hostq /\ k.wire = s.wire
  BY DEF Drop, MailType
<1> HIDE DEF k
<1>2. \A r \in Place : At(k)[r] = At(s)[r]
  BY <1>1, AtIs, Places
<1> QED  BY <1>1, <1>2 DEF Gone, k

LEMMA LocalPuts ==
  ASSUME NEW n, NEW s \in MailType(n), NEW m
  PROVE  \/ Gone(s, send_local_message(s, m), m)
         \/ m.dst \in Local /\ Put(s, send_local_message(s, m), <<"rchan", m.dst>>, m)
<1>1. CASE ~(m.dst \in Local /\ desc[m.dst] = "open" /\ Len(s.rchan[m.dst]) < ChanCap[m.dst])
  BY <1>1, DropPuts DEF send_local_message
<1>2. CASE m.dst \in Local /\ desc[m.dst] = "open" /\ Len(s.rchan[m.dst]) < ChanCap[m.dst]
  <2> DEFINE d == m.dst
             x == Append(s.rchan[d], m)
             k == [s EXCEPT !.rchan = [@ EXCEPT ![d] = x]]
             q == <<"rchan", d>>
  <2>1. send_local_message(s, m) = k
    BY <1>2, Zenon DEF send_local_message
  <2> HIDE DEF x
  <2>2. /\ k.lost = s.lost /\ k.busq = s.busq /\ k.hostq = s.hostq /\ k.wire = s.wire
        /\ k.rchan[d] = x /\ \A c \in Local : c # d => k.rchan[c] = s.rchan[c]
    BY <1>2 DEF MailType
  <2> HIDE DEF k
  <2>3. q \in Place /\ q[1] = "rchan" /\ q[2] = d
    BY <1>2, PlaceIs
  <2>4. At(k)[q] = Append(At(s)[q], m)
    BY <2>2, <2>3, AtIs DEF x
  <2>5. ASSUME NEW r \in Place, r # q PROVE At(k)[r] = At(s)[r]
    <3>1. r[1] = "rchan" => r[2] # d /\ r[2] \in Local
      BY <2>5, PlaceIs, Places
    <3> QED  BY <2>2, <3>1, AtIs, Places
  <2> QED  BY <1>2, <2>1, <2>2, <2>4, <2>5 DEF Put
<1> QED  BY <1>1, <1>2

LEMMA RemotePuts ==
  ASSUME NEW n, NEW s \in MailType(n), NEW m, NEW h \in Peers
  PROVE  \/ Gone(s, SendRemote(s, h, m), m)
         \/ Put(s, SendRemote(s, h, m), <<"wire", h>>, m)
<1>1. CASE ~link[h]
  BY <1>1, DropPuts DEF SendRemote
<1>2. CASE link[h]
  <2> DEFINE x == Append(s.wire[h], m)
             k == [s EXCEPT !.wire = [@ EXCEPT ![h] = x]]
             q == <<"wire", h>>
  <2>1. SendRemote(s, h, m) = k
    BY <1>2, Zenon DEF SendRemote
  <2> HIDE DEF x
  <2>2. /\ k.lost = s.lost /\ k.busq = s.busq /\ k.hostq = s.hostq /\ k.rchan = s.rchan
        /\ k.wire[h] = x /\ \A c \in Peers : c # h => k.wire[c] = s.wire[c]
    BY DEF MailType
  <2> HIDE DEF k
  <2>3. q \in Place /\ q[1] = "wire" /\ q[2] = h
    BY PlaceIs
  <2>4. At(k)[q] = Append(At(s)[q], m)
    BY <2>2, <2>3, AtIs DEF x
  <2>5. ASSUME NEW r \in Place, r # q PROVE At(k)[r] = At(s)[r]
    <3>1. r[1] = "wire" => r[2] # h /\ r[2] \in Peers
      BY <2>5, PlaceIs, Places
    <3> QED  BY <2>2, <3>1, AtIs, Places
  <2> QED  BY <2>1, <2>2, <2>4, <2>5 DEF Put
<1> QED  BY <1>1, <1>2

LEMMA EnqueuePuts ==
  ASSUME NEW n, NEW s \in MailType(n), NEW m, NEW h \in Peers
  PROVE  Put(s, Enqueue([s EXCEPT !.ep[h] = IF @ = "none" THEN "connecting" ELSE @], h, m), <<"hostq", h>>, m)
<1> DEFINE e == IF s.ep[h] = "none" THEN "connecting" ELSE s.ep[h]
           x == Append(s.hostq[h], m)
           k == [s EXCEPT !.ep = [@ EXCEPT ![h] = e], !.hostq = [@ EXCEPT ![h] = x]]
           q == <<"hostq", h>>
<1>1. Enqueue([s EXCEPT !.ep[h] = IF @ = "none" THEN "connecting" ELSE @], h, m) = k
  BY DEF Enqueue, MailType
<1> HIDE DEF x, e
<1>2. /\ k.lost = s.lost /\ k.busq = s.busq /\ k.wire = s.wire /\ k.rchan = s.rchan
      /\ k.hostq[h] = x /\ \A c \in Peers : c # h => k.hostq[c] = s.hostq[c]
  BY DEF MailType
<1> HIDE DEF k
<1>3. q \in Place /\ q[1] = "hostq" /\ q[2] = h
  BY PlaceIs
<1>4. At(k)[q] = Append(At(s)[q], m)
  BY <1>2, <1>3, AtIs DEF x
<1>5. ASSUME NEW r \in Place, r # q PROVE At(k)[r] = At(s)[r]
  <2>1. r[1] = "hostq" => r[2] # h /\ r[2] \in Peers
    BY <1>5, PlaceIs, Places
  <2> QED  BY <1>2, <2>1, AtIs, Places
<1> QED  BY <1>1, <1>2, <1>4, <1>5 DEF Put

LEMMA WaitPuts ==
  ASSUME NEW n, NEW s \in MailType(n), NEW m, m.dst \in BusId
  PROVE  Put(s, [s EXCEPT !.busq[m.dst] = Append(@, m)], <<"busq", m.dst>>, m)
<1> DEFINE d == m.dst
           x == Append(s.busq[d], m)
           k == [s EXCEPT !.busq = [@ EXCEPT ![d] = x]]
           q == <<"busq", d>>
<1>1. [s EXCEPT !.busq[m.dst] = Append(@, m)] = k
  BY Zenon
<1> HIDE DEF x
<1>2. /\ k.lost = s.lost /\ k.hostq = s.hostq /\ k.wire = s.wire /\ k.rchan = s.rchan
      /\ k.busq[d] = x /\ \A c \in BusId : c # d => k.busq[c] = s.busq[c]
  BY DEF MailType
<1> HIDE DEF k
<1>3. q \in Place /\ q[1] = "busq" /\ q[2] = d
  BY PlaceIs
<1>4. At(k)[q] = Append(At(s)[q], m)
  BY <1>2, <1>3, AtIs DEF x
<1>5. ASSUME NEW r \in Place, r # q PROVE At(k)[r] = At(s)[r]
  <2>1. r[1] = "busq" => r[2] # d /\ r[2] \in BusId
    BY <1>5, PlaceIs, Places
  <2> QED  BY <1>2, <2>1, AtIs, Places
<1> QED  BY <1>1, <1>2, <1>4, <1>5 DEF Put

------------------------------------------------------------------------------
(* One message after the other leaves a place *)

LEMMA InIs ==
  ASSUME NEW s, NEW p \in Place, NEW rest
  PROVE  In(s, p, rest)[p] = rest /\ \A r \in Place : r # p => In(s, p, rest)[r] = At(s)[r]
<1>1. At(s) \in [Place -> {At(s)[r] : r \in Place}]
  BY DEF At
<1> QED  BY <1>1 DEF In

\* What the daemon does not write.
Rest(n) == wchan \in [Local -> Queue(n)] /\ got \in [Local -> Queue(n)] /\ inwire \in Queue(n)

LEMMA InTyped ==
  ASSUME NEW n \in Nat, Rest(n), NEW s \in MailType(n), NEW p \in Place, NEW rest \in Queue(n)
  PROVE  Typed(At(s), n) /\ Typed(In(s, p, rest), n)
<1>1. ASSUME NEW r \in Place PROVE At(s)[r] \in Queue(n)
  <2>1. /\ s.rchan \in [Local -> Queue(n)] /\ s.busq \in [BusId -> Queue(n)]
        /\ s.hostq \in [Peers -> Queue(n)] /\ s.wire \in [Peers -> Queue(n)]
    BY DEF MailType
  <2> QED  BY <2>1, AtIs, Places DEF Rest
<1>2. At(s) \in [Place -> Queue(n)]
  <2>1. At(s) = [r \in Place |-> At(s)[r]]
    BY DEF At
  <2> QED  BY <1>1, <2>1
<1>3. In(s, p, rest) \in [Place -> Queue(n)]
  BY <1>2 DEF In
<1> QED  BY <1>2, <1>3 DEF Typed

\* m, the first of what is left at p, is taken from there: s becomes k.
Passes(s, k, p, m, n) ==
  /\ At(k)[p] = At(s)[p]
  /\ \A rest \in Queue(n) : rest # <<>> /\ Head(rest) = m /\ Kept(In(s, p, rest), s.lost, n)
                            => Kept(In(k, p, Tail(rest)), k.lost, n)

LEMMA GonePasses ==
  ASSUME NEW n \in Nat, Rest(n), NEW s \in MailType(n), NEW k \in MailType(n), NEW p \in Place, NEW m,
         Gone(s, k, m)
  PROVE  Passes(s, k, p, m, n)
<1> SUFFICES ASSUME NEW rest \in Queue(n), rest # <<>>, Head(rest) = m, Kept(In(s, p, rest), s.lost, n)
             PROVE  Kept(In(k, p, Tail(rest)), k.lost, n)
  BY DEF Passes, Gone
<1> DEFINE at == In(s, p, rest)
           kt == In(k, p, Tail(rest))
           c == [r \in Place |-> IF r = p THEN 1 ELSE 0]
<1>1. rest \in Seq(Message(n)) /\ Tail(rest) \in Queue(n) /\ Len(rest) \in Nat /\ Len(rest) >= 1 /\ m = rest[1]
      /\ Tail(rest) = SubSeq(rest, 2, Len(rest))
  BY DEF Queue
<1>2. m.id \in 1 .. n
  <2>1. m \in Message(n)
    BY <1>1
  <2> QED  BY <2>1 DEF Message
<1>3. Typed(kt, n) /\ Typed(at, n)
  BY <1>1, InTyped
<1>4. at[p] = rest /\ kt[p] = Tail(rest) /\ \A r \in Place : r # p => at[r] = kt[r]
  <2>1. at[p] = rest /\ \A r \in Place : r # p => at[r] = At(s)[r]
    BY InIs, SMT
  <2>2. kt[p] = Tail(rest) /\ \A r \in Place : r # p => kt[r] = At(k)[r]
    <3> DEFINE x == Tail(rest)
    <3> HIDE DEF x
    <3>1. In(k, p, x)[p] = x /\ \A r \in Place : r # p => In(k, p, x)[r] = At(k)[r]
      BY InIs, SMT
    <3> QED  BY <3>1 DEF x
  <2> HIDE DEF at, kt
  <2> QED  BY <2>1, <2>2 DEF Gone
<1>5. c \in [Place -> Nat] /\ c[p] = 1 /\ \A r \in Place : r # p => c[r] = 0
  OBVIOUS
<1>6. Kept(at, s.lost, n)
  OBVIOUS
<1> HIDE DEF at, kt, c
<1>7. Cut(at, kt, c)
  <2>1. ASSUME NEW r \in Place, r # p PROVE c[r] <= Len(at[r]) /\ kt[r] = SubSeq(at[r], c[r] + 1, Len(at[r]))
    <3>1. at[r] \in Seq(Message(n)) /\ Len(at[r]) \in Nat
      BY <1>3, IdsBelow
    <3>2. at[r] = SubSeq(at[r], 1, Len(at[r]))
      BY <3>1
    <3>3. c[r] = 0 /\ c[r] + 1 = 1 /\ kt[r] = at[r]
      BY <1>4, <1>5, <2>1
    <3> QED  BY <3>1, <3>2, <3>3
  <2>2. c[p] <= Len(at[p]) /\ kt[p] = SubSeq(at[p], c[p] + 1, Len(at[p]))
    <3>1. c[p] + 1 = 2
      BY <1>5
    <3> QED  BY <1>1, <1>4, <1>5, <3>1
  <2> QED  BY <2>1, <2>2 DEF Cut
<1>8. Kept(kt, LostToo(at, s.lost, c, n), n)
  BY <1>3, <1>5, <1>6, <1>7, CutKeeps
<1>9. LostToo(at, s.lost, c, n) = k.lost
  <2>1. k.lost = s.lost \cup {m.id}
    BY DEF Gone
  <2>2. ASSUME NEW id \in 1 .. n PROVE (\E r \in Place : \E i \in 1 .. c[r] : at[r][i].id = id) <=> id = m.id
    <3>1. ASSUME NEW r \in Place, NEW i \in 1 .. c[r], at[r][i].id = id PROVE id = m.id
      <4>1. r = p /\ i = 1
        BY <1>5
      <4> QED  BY <1>1, <1>4, <3>1, <4>1
    <3>2. 1 \in 1 .. c[p] /\ at[p][1].id = m.id
      BY <1>1, <1>4, <1>5
    <3> QED  BY <3>1, <3>2
  <2> QED  BY <1>2, <2>1, <2>2 DEF LostToo
<1> QED  BY <1>8, <1>9 DEF kt

\* The way from p to q is free for m, whatever is left at p.
Open(s, p, q, m) ==
  \A at : AllFit(at) /\ Fits(p, m) /\ (\A r \in Place : r # p => at[r] = At(s)[r]) => Free(at, p, q, m)

LEMMA PutPasses ==
  ASSUME NEW n \in Nat, Rest(n), NEW s \in MailType(n), NEW k \in MailType(n), NEW p \in Place, NEW q \in Place,
         NEW m, Put(s, k, q, m), Ahead(q, p), Fits(q, m), Open(s, p, q, m)
  PROVE  Passes(s, k, p, m, n)
<1> SUFFICES ASSUME NEW rest \in Queue(n), rest # <<>>, Head(rest) = m, Kept(In(s, p, rest), s.lost, n)
             PROVE  Kept(In(k, p, Tail(rest)), k.lost, n)
  <2>1. At(k)[p] = At(s)[p]
    BY Farther DEF Put
  <2> QED  BY <2>1 DEF Passes
<1> DEFINE at == In(s, p, rest)
           kt == In(k, p, Tail(rest))
<1>1. Tail(rest) \in Queue(n) /\ 1 \in 1 .. Len(rest) /\ m = rest[1]
  BY DEF Queue
<1>2. Typed(kt, n)
  BY <1>1, InTyped
<1>3. q # p
  BY Farther
<1>4. /\ at[p] = rest /\ kt[p] = Tail(rest) /\ kt[q] = Append(at[q], m)
      /\ \A r \in Place : r # p => at[r] = At(s)[r]
      /\ \A r \in Place : r # p /\ r # q => kt[r] = at[r]
  <2>1. at[p] = rest /\ \A r \in Place : r # p => at[r] = At(s)[r]
    BY InIs, SMT
  <2>2. kt[p] = Tail(rest) /\ \A r \in Place : r # p => kt[r] = At(k)[r]
    <3> DEFINE x == Tail(rest)
    <3> HIDE DEF x
    <3>1. In(k, p, x)[p] = x /\ \A r \in Place : r # p => In(k, p, x)[r] = At(k)[r]
      BY InIs, SMT
    <3> QED  BY <3>1 DEF x
  <2> HIDE DEF at, kt
  <2> QED  BY <1>3, <2>1, <2>2 DEF Put
<1>5. Kept(at, s.lost, n) /\ k.lost = s.lost
  BY DEF Put
<1> HIDE DEF at, kt
<1>6. Free(at, p, q, m)
  <2>1. AllFit(at)
    BY <1>5 DEF Kept
  <2>2. Fits(p, m)
    BY <1>1, <1>4, <2>1 DEF AllFit
  <2> QED  BY <1>4, <2>1, <2>2 DEF Open
<1>7. /\ at[p] # <<>> /\ kt[p] = Tail(at[p]) /\ kt[q] = Append(at[q], Head(at[p]))
      /\ Fits(q, Head(at[p])) /\ Free(at, p, q, Head(at[p]))
      /\ \A r \in Place : r # p /\ r # q => kt[r] = at[r]
  BY <1>4, <1>6
<1>8. Kept(kt, s.lost, n)
  BY <1>2, <1>5, <1>7, MoveKeeps
<1> QED  BY <1>5, <1>8 DEF kt

LEMMA Rests ==
  ASSUME NEW n, NEW full \in Queue(n), NEW i \in 1 .. Len(full)
  PROVE  /\ SubSeq(full, i, Len(full)) \in Queue(n) /\ SubSeq(full, i, Len(full)) # <<>>
         /\ Head(SubSeq(full, i, Len(full))) = full[i]
         /\ Tail(SubSeq(full, i, Len(full))) = SubSeq(full, i + 1, Len(full))
<1> DEFINE r == SubSeq(full, i, Len(full))
           t == SubSeq(full, i + 1, Len(full))
<1>1. full \in Seq(Message(n)) /\ Len(full) \in Nat
  BY DEF Queue
<1>2. r \in Seq(Message(n)) /\ Len(r) = Len(full) - i + 1 /\ \A j \in 1 .. Len(r) : r[j] = full[i + j - 1]
  BY <1>1
<1>3. t \in Seq(Message(n)) /\ Len(t) = Len(full) - i /\ \A j \in 1 .. Len(t) : t[j] = full[i + j]
  BY <1>1
<1> HIDE DEF r, t
<1>4. r # <<>> /\ Head(r) = full[i]
  BY <1>1, <1>2
<1>5. Tail(r) = t
  <2>1. Tail(r) \in Seq(Message(n)) /\ Len(Tail(r)) = Len(t) /\ \A j \in 1 .. Len(t) : Tail(r)[j] = r[j + 1]
    <3>1. Len(t) = Len(r) - 1 /\ Len(r) \in Nat /\ Len(t) \in Nat
      BY <1>1, <1>2, <1>3
    <3> QED  BY <1>2, <1>4, <3>1
  <2>2. ASSUME NEW j \in 1 .. Len(t) PROVE Tail(r)[j] = t[j]
    <3>1. j + 1 \in 1 .. Len(r) /\ i + (j + 1) - 1 = i + j
      BY <1>1, <1>2, <1>3
    <3>2. r[j + 1] = full[i + (j + 1) - 1]
      BY <1>2, <3>1
    <3> QED  BY <1>3, <2>1, <3>1, <3>2
  <2> DEFINE u == Tail(r)
  <2>3. u \in Seq(Message(n)) /\ Len(u) = Len(t) /\ \A j \in 1 .. Len(t) : u[j] = t[j]
    BY <2>1, <2>2
  <2> HIDE DEF u
  <2>4. u = t
    BY <1>3, <2>3
  <2> QED  BY <2>4 DEF u
<1> QED  BY <1>2, <1>4, <1>5 DEF r, t, Queue

\* The first j messages of p leave it.
LEMMA Leaves ==
  ASSUME NEW n \in Nat, NEW p \in Place, NEW full \in Queue(n), NEW j \in 0 .. Len(full), NEW g,
         Kept(In(g[0], p, full), g[0].lost, n),
         \A i \in 1 .. j : Passes(g[i - 1], g[i], p, full[i], n)
  PROVE  Kept(In(g[j], p, SubSeq(full, j + 1, Len(full))), g[j].lost, n) /\ At(g[j])[p] = At(g[0])[p]
<1> DEFINE D(i) == Kept(In(g[i], p, SubSeq(full, i + 1, Len(full))), g[i].lost, n)
           S == {i \in 0 .. j : D(i) /\ At(g[i])[p] = At(g[0])[p]}
<1>1. full \in Seq(Message(n)) /\ Len(full) \in Nat /\ j \in Nat
  BY DEF Queue
<1>2. D(0)
  <2>1. SubSeq(full, 0 + 1, Len(full)) = full
    BY <1>1
  <2> QED  BY <2>1
<1>3. ASSUME NEW i \in 1 .. j, i - 1 \in S PROVE i \in S
  <2> DEFINE rest == SubSeq(full, i, Len(full))
  <2>1. i \in 1 .. Len(full) /\ i \in 0 .. j /\ (i - 1) + 1 = i
    BY <1>1
  <2>2. rest \in Queue(n) /\ rest # <<>> /\ Head(rest) = full[i] /\ Tail(rest) = SubSeq(full, i + 1, Len(full))
    BY <2>1, Rests
  <2>3. Kept(In(g[i - 1], p, rest), g[i - 1].lost, n)
    BY <1>3, <2>1
  <2> HIDE DEF rest
  <2>4. Kept(In(g[i], p, Tail(rest)), g[i].lost, n) /\ At(g[i])[p] = At(g[i - 1])[p]
    BY <2>2, <2>3 DEF Passes
  <2> QED  BY <1>3, <2>1, <2>2, <2>4
<1>4. 0 \in S
  BY <1>1, <1>2
<1> HIDE DEF S
<1>5. \A i \in 0 .. j : i \in S
  BY <1>1, <1>3, <1>4, Steps
<1> QED  BY <1>1, <1>5 DEF S

\* All messages of p leave it.
LEMMA Emptied ==
  ASSUME NEW n \in Nat, NEW p \in Place, NEW full \in Queue(n), NEW g, At(g[0])[p] = <<>>,
         Kept(In(g[0], p, full), g[0].lost, n),
         \A i \in 1 .. Len(full) : Passes(g[i - 1], g[i], p, full[i], n)
  PROVE  Kept(At(g[Len(full)]), g[Len(full)].lost, n)
<1> DEFINE l == Len(full)
           k == g[l]
<1>1. full \in Seq(Message(n)) /\ l \in 0 .. Len(full) /\ l \in Nat
  BY DEF Queue
<1>2. SubSeq(full, l + 1, Len(full)) = <<>>
  BY <1>1
<1>3. Kept(In(k, p, <<>>), k.lost, n) /\ At(k)[p] = <<>>
  BY <1>1, <1>2, Leaves
<1>4. In(k, p, <<>>) = At(k)
  <2> HIDE DEF k
  <2> QED  BY <1>3 DEF In, At
<1> QED  BY <1>3, <1>4

------------------------------------------------------------------------------
(* Nothing on the same way is overtaken *)

LEMMA WayOpen ==
  ASSUME NEW s, NEW p \in Place, NEW q \in Place, NEW m, m.dst \in BusId,
         p[1] \in {"wchan", "inwire", "busq"}, q[1] \in {"busq", "rchan", "hostq", "wire"},
         q[1] = "busq" => p[1] # "busq",
         p[1] = "busq" \/ q[1] = "busq" \/ s.busq[m.dst] = <<>>,
         q[1] = "wire" => s.hostq[q[2]] = <<>>
  PROVE  Open(s, p, q, m)
<1> SUFFICES ASSUME NEW at, AllFit(at), Fits(p, m), \A r \in Place : r # p => at[r] = At(s)[r],
                    NEW r \in Place, r # p, Ahead(q, r), ~Ahead(p, r), NEW j \in 1 .. Len(at[r]), SameWay(m, at[r][j])
             PROVE  FALSE
  BY DEF Open, Free
<1> DEFINE x == at[r][j]
<1>1. Fits(r, x) /\ m.src = x.src /\ m.dst = x.dst
  BY DEF AllFit, SameWay
<1>2. at[r] = At(s)[r] /\ (at[r] = <<>> => FALSE)
  BY SMT
<1> HIDE DEF x
<1>3. Local \cap Remote = {}
  BY RouterAssumption DEF RouterAssumption
<1>4. CASE r[1] = "hostq"
  <2>1. q[1] = "wire" /\ r[2] = q[2]
    BY <1>4 DEF Ahead
  <2> QED  BY <1>2, <1>4, <2>1, AtIs
<1>5. CASE r[1] = "busq"
  <2>1. r[2] = m.dst /\ q[1] # "busq" /\ At(s)[r] = s.busq[m.dst]
    BY <1>1, <1>5, AtIs DEF Ahead, Fits
  <2>2. CASE p[1] = "busq"
    <3>1. p[2] = m.dst
      BY <2>2 DEF Fits
    <3> QED  BY <1>5, <2>1, <2>2, <3>1, PlaceIs
  <2>3. CASE p[1] # "busq"
    BY <1>2, <2>1, <2>3
  <2> QED  BY <2>2, <2>3
<1>6. CASE r[1] = "wchan"
  <2>1. m.src = r[2] /\ r[2] \in Local
    BY <1>1, <1>6, Places DEF Fits
  <2>2. p[1] # "busq"
    BY <1>6 DEF Ahead
  <2>3. CASE p[1] = "wchan"
    <3>1. p[2] = m.src
      BY <2>3 DEF Fits
    <3> QED  BY <1>6, <2>1, <2>3, <3>1, PlaceIs
  <2>4. CASE p[1] = "inwire"
    <3>1. m.src \in Remote
      BY <2>4 DEF Fits
    <3> QED  BY <1>3, <2>1, <3>1
  <2> QED  BY <2>2, <2>3, <2>4
<1>7. CASE r[1] = "inwire"
  <2>1. m.src \in Remote /\ r = <<"inwire", Here>>
    BY <1>1, <1>7, Places DEF Fits
  <2>2. p[1] # "busq"
    BY <1>7 DEF Ahead
  <2>3. CASE p[1] = "wchan"
    <3>1. m.src \in Local
      BY <2>3, Places DEF Fits
    <3> QED  BY <1>3, <2>1, <3>1
  <2>4. CASE p[1] = "inwire"
    BY <2>1, <2>4, Places
  <2> QED  BY <2>2, <2>3, <2>4
<1>8. r[1] \in {"hostq", "busq", "wchan", "inwire"}
  BY DEF Ahead
<1> QED  BY <1>4, <1>5, <1>6, <1>7, <1>8

\* From a queue for a peer to the peer there is nothing in between.
LEMMA PeerOpen ==
  ASSUME NEW s, NEW h \in Peers, NEW m
  PROVE  /\ Open(s, <<"hostq", h>>, <<"wire", h>>, m)
         /\ Ahead(<<"wire", h>>, <<"hostq", h>>) /\ Fits(<<"wire", h>>, m)
<1> DEFINE p == <<"hostq", h>>
           q == <<"wire", h>>
<1>1. ASSUME NEW r \in Place, Ahead(q, r), ~Ahead(p, r) PROVE r = p
  BY <1>1 DEF Ahead
<1>2. Ahead(q, p) /\ Fits(q, m)
  BY DEF Ahead, Fits
<1> HIDE DEF p, q
<1>3. Open(s, p, q, m)
  BY <1>1 DEF Open, Free
<1> QED  BY <1>2, <1>3 DEF p, q

\* So it is from a place that messages are taken from to where they go.
LEMMA GoesAhead ==
  ASSUME NEW p \in Place, NEW q \in Place, p[1] \in {"wchan", "inwire", "busq"},
         q[1] \in {"busq", "rchan", "hostq", "wire"}, q[1] = "busq" => p[1] # "busq"
  PROVE  Ahead(q, p)
  BY DEF Ahead

\* A message of a channel, of a peer or of a queue whose bus id has a route.
Ready(s, p, m, a) ==
  /\ p[1] \in {"wchan", "inwire", "busq"}
  /\ p[1] = "busq" => a[m.dst] # NoHost
  /\ p[1] # "busq" /\ a[m.dst] # NoHost => s.busq[m.dst] = <<>>

LEMMA LocalPasses ==
  ASSUME NEW n \in Nat, Rest(n), NEW A, NEW B, NEW s \in Box(n, A, B), NEW m \in Message(n), NEW p \in Place,
         p[1] \in {"wchan", "inwire", "busq"}, p[1] = "busq" \/ s.busq[m.dst] = <<>>
  PROVE  Passes(s, send_local_message(s, m), p, m, n)
<1> DEFINE k == send_local_message(s, m)
           q == <<"rchan", m.dst>>
<1>1. s \in MailType(n) /\ k \in MailType(n) /\ m.dst \in BusId
  BY LocalKeeps DEF Box, Message
<1>2. CASE Gone(s, k, m)
  BY <1>1, <1>2, GonePasses
<1>3. CASE m.dst \in Local /\ Put(s, k, q, m)
  <2>1. q \in Place /\ q[1] = "rchan" /\ Fits(q, m)
    BY <1>3, PlaceIs DEF Fits
  <2> HIDE DEF q, k
  <2>2. Ahead(q, p) /\ Open(s, p, q, m)
    BY <1>1, <2>1, GoesAhead, WayOpen
  <2>3. Passes(s, k, p, m, n)
    BY <1>1, <1>3, <2>1, <2>2, PutPasses
  <2> QED  BY <2>3 DEF k
<1> QED  BY <1>1, <1>2, <1>3, LocalPuts

LEMMA ToPeerPasses ==
  ASSUME NEW n \in Nat, Rest(n), NEW A, NEW B, NEW s \in Box(n, A, B), NEW m \in Message(n), NEW p \in Place,
         p[1] \in {"wchan", "inwire", "busq"}, p[1] = "busq" \/ s.busq[m.dst] = <<>>,
         NEW h \in Peers, NEW ok
  PROVE  Passes(s, ToPeer(s, h, m, ok), p, m, n)
<1> DEFINE k == ToPeer(s, h, m, ok)
<1>1. s \in MailType(n) /\ k \in MailType(n) /\ m.dst \in BusId
  BY ToPeerKeeps DEF Box, Message
<1>2. CASE s.ep[h] = "connected"
  <2> DEFINE q == <<"wire", h>>
  <2>1. k = SendRemote(s, h, m)
    BY <1>2 DEF ToPeer
  <2>2. Gone(s, k, m) \/ Put(s, k, q, m)
    BY <1>1, <2>1, RemotePuts
  <2>3. s.hostq[h] = <<>>
    BY <1>2 DEF Box, Sorted, Waiting
  <2>4. q \in Place /\ q[1] = "wire" /\ q[2] = h /\ Fits(q, m)
    BY PlaceIs DEF Fits
  <2> HIDE DEF q, k
  <2>5. Ahead(q, p) /\ Open(s, p, q, m)
    BY <1>1, <2>3, <2>4, GoesAhead, WayOpen
  <2>6. Passes(s, k, p, m, n)
    <3>1. CASE Gone(s, k, m)
      BY <1>1, <3>1, GonePasses
    <3>2. CASE Put(s, k, q, m)
      BY <1>1, <2>4, <2>5, <3>2, PutPasses
    <3> QED  BY <2>2, <3>1, <3>2
  <2> QED  BY <2>6 DEF k
<1>3. CASE s.ep[h] = "none" /\ ~ok
  <2>1. k = Drop(s, m)
    BY <1>3 DEF ToPeer
  <2>2. Gone(s, k, m)
    BY <1>1, <2>1, DropPuts
  <2> HIDE DEF k
  <2>3. Passes(s, k, p, m, n)
    BY <1>1, <2>2, GonePasses
  <2> QED  BY <2>3 DEF k
<1>4. CASE s.ep[h] # "connected" /\ ~(s.ep[h] = "none" /\ ~ok)
  <2> DEFINE q == <<"hostq", h>>
             e == Enqueue([s EXCEPT !.ep[h] = IF @ = "none" THEN "connecting" ELSE @], h, m)
  <2>1. k = e
    BY <1>4, Zenon DEF ToPeer
  <2>2. Put(s, e, q, m)
    BY <1>1, EnqueuePuts
  <2>3. q \in Place /\ q[1] = "hostq" /\ Fits(q, m)
    BY PlaceIs DEF Fits
  <2> HIDE DEF q, k, e
  <2>4. Ahead(q, p) /\ Open(s, p, q, m)
    BY <1>1, <2>3, GoesAhead, WayOpen
  <2>5. Passes(s, k, p, m, n)
    BY <1>1, <2>1, <2>2, <2>3, <2>4, PutPasses
  <2> QED  BY <2>5 DEF k
<1> QED  BY <1>2, <1>3, <1>4

LEMMA HandlePasses ==
  ASSUME NEW n \in Nat, Rest(n), NEW a \in [BusId -> Route], NEW ina, NEW A, NEW B, Covers(a, ina, A, B),
         NEW s \in Box(n, A, B), NEW m \in Message(n), NEW ok, NEW p \in Place, Ready(s, p, m, a)
  PROVE  Passes(s, handle_message(s, m, a, ina, ok), p, m, n)
<1> DEFINE k == handle_message(s, m, a, ina, ok)
<1>1. s \in MailType(n) /\ k \in MailType(n) /\ m.dst \in BusId /\ Here # NoHost
  BY HandleKeeps, Locals DEF Box, Message
<1>2. CASE m.dst \in ina
  <2>1. k = Drop(s, m)
    BY <1>2 DEF handle_message
  <2>2. Gone(s, k, m)
    BY <1>1, <2>1, DropPuts
  <2> HIDE DEF k
  <2>3. Passes(s, k, p, m, n)
    BY <1>1, <2>2, GonePasses
  <2> QED  BY <2>3 DEF k
<1>3. CASE m.dst \notin ina /\ a[m.dst] = NoHost
  <2> DEFINE q == <<"busq", m.dst>>
             e == [s EXCEPT !.busq[m.dst] = Append(@, m)]
  <2>1. k = e
    <3>1. a[m.dst] # Here
      BY <1>1, <1>3
    <3> QED  BY <1>3, <3>1, Zenon DEF handle_message
  <2>2. Put(s, e, q, m)
    BY <1>1, WaitPuts
  <2>3. q \in Place /\ q[1] = "busq" /\ Fits(q, m) /\ p[1] # "busq"
    BY <1>1, <1>3, PlaceIs DEF Fits, Ready
  <2> HIDE DEF q, k, e
  <2>4. Ahead(q, p) /\ Open(s, p, q, m)
    BY <1>1, <2>3, GoesAhead, WayOpen DEF Ready
  <2>5. Passes(s, k, p, m, n)
    BY <1>1, <2>1, <2>2, <2>3, <2>4, PutPasses
  <2> QED  BY <2>5 DEF k
<1>4. CASE m.dst \notin ina /\ a[m.dst] = Here
  <2>1. k = send_local_message(s, m)
    BY <1>1, <1>4, Zenon DEF handle_message
  <2>2. p[1] \in {"wchan", "inwire", "busq"} /\ (p[1] = "busq" \/ s.busq[m.dst] = <<>>)
    BY <1>1, <1>4 DEF Ready
  <2>3. Passes(s, send_local_message(s, m), p, m, n)
    BY <2>2, LocalPasses
  <2> QED  BY <2>1, <2>3
<1>5. CASE m.dst \notin ina /\ a[m.dst] # NoHost /\ a[m.dst] # Here
  <2>1. k = ToPeer(s, a[m.dst], m, ok)
    BY <1>5, Zenon DEF handle_message
  <2>2. a[m.dst] \in Peers
    BY <1>1, <1>5 DEF Route, Host
  <2>3. p[1] \in {"wchan", "inwire", "busq"} /\ (p[1] = "busq" \/ s.busq[m.dst] = <<>>)
    BY <1>5 DEF Ready
  <2>4. Passes(s, ToPeer(s, a[m.dst], m, ok), p, m, n)
    BY <2>2, <2>3, ToPeerPasses
  <2> QED  BY <2>1, <2>4
<1> QED  BY <1>2, <1>3, <1>4, <1>5

------------------------------------------------------------------------------
(* The messages of a signal, and the queues *)

LEMMA BatchKept ==
  ASSUME NEW n \in Nat, Rest(n), NEW a \in [BusId -> Route], NEW ina, NEW s \in Box(n, a, ina), NEW ok,
         NEW p \in Place, p[1] \in {"wchan", "inwire"}, NEW full \in Queue(n), NEW j \in 0 .. Len(full),
         Kept(In(s, p, full), s.lost, n), NEW ms \in Queue(n), Len(ms) = j, \A i \in 1 .. j : ms[i] = full[i]
  PROVE  Kept(In(HandleAll(s, ms, a, ina, ok), p, SubSeq(full, j + 1, Len(full))),
              HandleAll(s, ms, a, ina, ok).lost, n)
<1> DEFINE k == HandleAll(s, ms, a, ina, ok)
<1>1. Covers(a, ina, a, ina)
  BY DEF Covers
<1>2. PICK g : Goes(g, s, ms, k, Box(n, a, ina))
               /\ \A i \in 1 .. Len(ms) : g[i] = handle_message(g[i - 1], ms[i], a, ina, ok)
  BY <1>1, HandleAllRuns
<1> HIDE DEF k
<1>3. full \in Seq(Message(n)) /\ Len(full) \in Nat /\ j \in Nat
  BY DEF Queue
<1>4. Len(ms) = j /\ \A i \in 1 .. j : ms[i] = full[i] /\ full[i] \in Message(n)
  BY <1>3
<1>5. ASSUME NEW i \in 1 .. j PROVE Passes(g[i - 1], g[i], p, full[i], n)
  <2>1. full[i] \in Message(n) /\ ms[i] = full[i] /\ full[i].dst \in BusId
    BY <1>4 DEF Message
  <2>2. g[i - 1] \in Box(n, a, ina)
    <3>1. i - 1 \in 0 .. Len(ms)
      BY <1>3, <1>4
    <3> QED  BY <1>2, <3>1 DEF Goes
  <2>3. g[i] = handle_message(g[i - 1], full[i], a, ina, ok)
    BY <1>2, <1>4, <2>1
  <2>4. Ready(g[i - 1], p, full[i], a)
    BY <2>1, <2>2 DEF Ready, Box, Sorted
  <2>5. Passes(g[i - 1], handle_message(g[i - 1], full[i], a, ina, ok), p, full[i], n)
    BY <1>1, <2>1, <2>2, <2>4, HandlePasses
  <2> QED  BY <2>3, <2>5
<1>6. Kept(In(g[0], p, full), g[0].lost, n) /\ g[j] = k
  BY <1>2, <1>4 DEF Goes
<1>7. Kept(In(g[j], p, SubSeq(full, j + 1, Len(full))), g[j].lost, n)
  BY <1>5, <1>6, Leaves
<1> QED  BY <1>6, <1>7 DEF k

\* A queue without its messages, and the messages back in their place.
LEMMA TakenOut ==
  ASSUME NEW n, NEW s \in MailType(n), NEW b \in BusId
  PROVE  LET e == [s EXCEPT !.busq[b] = <<>>] IN
         /\ At(e)[<<"busq", b>>] = <<>> /\ e.lost = s.lost
         /\ In(e, <<"busq", b>>, s.busq[b]) = At(s)
<1> DEFINE p == <<"busq", b>>
           x == s.busq[b]
           q == [s.busq EXCEPT ![b] = <<>>]
           e == [s EXCEPT !.busq = q]
<1>1. [s EXCEPT !.busq[b] = <<>>] = e
  BY DEF MailType
<1>2. q[b] = <<>> /\ \A d \in BusId : d # b => q[d] = s.busq[d]
  BY DEF MailType
<1> HIDE DEF q
<1>3. e.lost = s.lost /\ e.rchan = s.rchan /\ e.hostq = s.hostq /\ e.wire = s.wire /\ e.busq = q
  BY DEF MailType
<1> HIDE DEF e, x
<1>4. p \in Place /\ p[1] = "busq" /\ p[2] = b
  BY PlaceIs
<1> HIDE DEF p
<1>5. At(e)[p] = <<>> /\ At(s)[p] = x
  BY <1>2, <1>3, <1>4, AtIs DEF x
<1>6. ASSUME NEW r \in Place, r # p PROVE At(e)[r] = At(s)[r]
  <2>1. r[1] = "busq" => r[2] # b /\ r[2] \in BusId
    BY <1>4, <1>6, PlaceIs, Places
  <2> QED  BY <1>2, <1>3, <2>1, AtIs, Places
<1>7. In(e, p, x) = At(s)
  <2>1. In(e, p, x)[p] = x /\ \A r \in Place : r # p => In(e, p, x)[r] = At(e)[r]
    BY <1>4, InIs, SMT
  <2>2. \A r \in Place : In(e, p, x)[r] = At(s)[r]
    BY <1>5, <1>6, <2>1
  <2>3. In(e, p, x) = [r \in Place |-> In(e, p, x)[r]] /\ At(s) = [r \in Place |-> At(s)[r]]
    BY DEF In, At
  <2> QED  BY <2>2, <2>3
<1> QED  BY <1>1, <1>3, <1>5, <1>7 DEF p, x

LEMMA QueueKept ==
  ASSUME NEW n \in Nat, Rest(n), NEW a \in [BusId -> Route], NEW ina, NEW A, NEW B, Covers(a, ina, A, B),
         NEW s \in Box(n, A, B), NEW b \in BusId, a[b] # NoHost, NEW ok, Kept(At(s), s.lost, n)
  PROVE  Kept(At(HandleQueue(s, b, a, ina, ok)), HandleQueue(s, b, a, ina, ok).lost, n)
<1> DEFINE p == <<"busq", b>>
           e == [s EXCEPT !.busq[b] = <<>>]
           ms == s.busq[b]
           k == HandleAll(e, ms, a, ina, ok)
<1>1. s \in MailType(n) /\ e \in Box(n, A, B) /\ ms \in Queue(n)
  BY ErasedKeeps DEF Box
<1>2. HandleQueue(s, b, a, ina, ok) = k
  BY DEF HandleQueue
<1>3. At(e)[p] = <<>> /\ Kept(In(e, p, ms), e.lost, n)
  BY <1>1, TakenOut
<1>4. p \in Place /\ p[1] = "busq" /\ p[2] = b
  BY PlaceIs
<1>5. At(s)[p] = ms
  BY <1>4, AtIs
<1> HIDE DEF p, e, ms
<1>6. PICK g : Goes(g, e, ms, k, Box(n, A, B))
               /\ \A i \in 1 .. Len(ms) : g[i] = handle_message(g[i - 1], ms[i], a, ina, ok)
  BY <1>1, HandleAllRuns
<1>7. ms \in Seq(Message(n)) /\ Len(ms) \in Nat
  BY <1>1 DEF Queue
<1>8. ASSUME NEW i \in 1 .. Len(ms) PROVE Passes(g[i - 1], g[i], p, ms[i], n)
  <2>1. ms[i] \in Message(n)
    BY <1>7
  <2>2. ms[i].dst = b
    <3>1. Fits(p, ms[i])
      BY <1>4, <1>5 DEF Kept, AllFit
    <3> QED  BY <1>4, <3>1 DEF Fits
  <2>3. g[i - 1] \in Box(n, A, B)
    <3>1. i - 1 \in 0 .. Len(ms)
      BY <1>7
    <3> QED  BY <1>6, <3>1 DEF Goes
  <2>4. g[i] = handle_message(g[i - 1], ms[i], a, ina, ok)
    BY <1>6
  <2>5. Ready(g[i - 1], p, ms[i], a)
    BY <1>4, <2>2 DEF Ready
  <2>6. Passes(g[i - 1], handle_message(g[i - 1], ms[i], a, ina, ok), p, ms[i], n)
    BY <1>4, <2>1, <2>3, <2>5, HandlePasses
  <2> QED  BY <2>4, <2>6
<1>9. g[0] = e /\ g[Len(ms)] = k
  BY <1>6 DEF Goes
<1>10. Kept(At(g[Len(ms)]), g[Len(ms)].lost, n)
  BY <1>1, <1>3, <1>4, <1>8, <1>9, Emptied
<1> QED  BY <1>2, <1>9, <1>10

LEMMA QueuesKept ==
  ASSUME NEW n \in Nat, Rest(n), NEW a \in [BusId -> Route], NEW ina, NEW s \in Box(n, Left(a, 0), ina), NEW ok,
         Kept(At(s), s.lost, n)
  PROVE  Kept(At(HandleQueues(s, a, ina, ok)), HandleQueues(s, a, ina, ok).lost, n)
<1> DEFINE N == Len(BusOrder)
           k == HandleQueues(s, a, ina, ok)
<1>1. N \in Nat /\ \A i \in 1 .. N : BusOrder[i] \in BusId
  BY BusOrdered
<1>2. PICK g : /\ Goes(g, s, BusOrder, k, Box(n, UnknownRoutes, {}))
               /\ \A i \in 1 .. N : g[i] = NextQueue(g[i - 1], BusOrder[i], a, ina, ok)
               /\ \A i \in 0 .. N : g[i] \in Box(n, Left(a, i), ina)
  BY QueuesKeep
<1> HIDE DEF k
<1>3. g[0] = s /\ g[N] = k
  BY <1>2 DEF Goes
<1> DEFINE S == {i \in 0 .. N : Kept(At(g[i]), g[i].lost, n)}
<1>4. 0 \in S
  BY <1>1, <1>3
<1>5. ASSUME NEW i \in 1 .. N, i - 1 \in S PROVE i \in S
  <2> DEFINE A == Left(a, i - 1)
             b == BusOrder[i]
             t == g[i - 1]
  <2>1. t \in Box(n, A, ina) /\ b \in BusId /\ i \in 0 .. N /\ Kept(At(t), t.lost, n)
    BY <1>1, <1>2, <1>5
  <2>2. Covers(a, ina, A, ina)
    BY DEF Covers, Left
  <2>3. g[i] = NextQueue(t, b, a, ina, ok)
    BY <1>2
  <2> HIDE DEF A, b, t
  <2>4. CASE a[b] = NoHost
    <3>1. g[i] = t
      BY <2>3, <2>4 DEF NextQueue
    <3> QED  BY <2>1, <3>1
  <2>5. CASE a[b] # NoHost
    <3>1. g[i] = HandleQueue(t, b, a, ina, ok)
      BY <2>3, <2>5 DEF NextQueue
    <3>2. Kept(At(HandleQueue(t, b, a, ina, ok)), HandleQueue(t, b, a, ina, ok).lost, n)
      BY <2>1, <2>2, <2>5, QueueKept
    <3> QED  BY <2>1, <3>1, <3>2
  <2> QED  BY <2>4, <2>5
<1> HIDE DEF S
<1>6. \A i \in 0 .. N : i \in S
  BY <1>1, <1>4, <1>5, Steps
<1>7. N \in S
  BY <1>1, <1>6
<1> QED  BY <1>3, <1>7 DEF S, k

\* A queue that is sent to a process of this host.
LEMMA LocalKept ==
  ASSUME NEW n \in Nat, Rest(n), NEW A, NEW B, NEW s \in MailType(n), NEW b \in BusId, NEW e \in Box(n, A, B),
         e = [s EXCEPT !.busq[b] = <<>>], Kept(At(s), s.lost, n)
  PROVE  Kept(At(SendAllLocal(e, s.busq[b])), SendAllLocal(e, s.busq[b]).lost, n)
<1> DEFINE p == <<"busq", b>>
           ms == s.busq[b]
           k == SendAllLocal(e, ms)
<1>1. At(e)[p] = <<>> /\ Kept(In(e, p, ms), e.lost, n)
  BY TakenOut
<1>2. p \in Place /\ p[1] = "busq" /\ ms \in Queue(n)
  BY PlaceIs DEF MailType
<1> HIDE DEF p, ms
<1>3. PICK g : Goes(g, e, ms, k, Box(n, A, B))
               /\ \A i \in 1 .. Len(ms) : g[i] = send_local_message(g[i - 1], ms[i])
  BY <1>2, LocalAllRuns
<1>4. ms \in Seq(Message(n)) /\ Len(ms) \in Nat
  BY <1>2 DEF Queue
<1>5. ASSUME NEW i \in 1 .. Len(ms) PROVE Passes(g[i - 1], g[i], p, ms[i], n)
  <2>1. ms[i] \in Message(n) /\ i - 1 \in 0 .. Len(ms)
    BY <1>4
  <2>2. g[i - 1] \in Box(n, A, B) /\ g[i] = send_local_message(g[i - 1], ms[i])
    BY <1>3, <2>1 DEF Goes
  <2>3. Passes(g[i - 1], send_local_message(g[i - 1], ms[i]), p, ms[i], n)
    BY <1>2, <2>1, <2>2, LocalPasses
  <2> QED  BY <2>2, <2>3
<1>6. g[0] = e /\ g[Len(ms)] = k
  BY <1>3 DEF Goes
<1>7. Kept(At(g[Len(ms)]), g[Len(ms)].lost, n)
  BY <1>1, <1>2, <1>5, <1>6, Emptied
<1> QED  BY <1>6, <1>7 DEF ms

\* The queue of a peer, sent once the connection is there.
LEMMA RemoteKept ==
  ASSUME NEW n \in Nat, Rest(n), NEW A, NEW B, NEW s \in MailType(n), NEW h \in Peers, NEW e \in Box(n, A, B),
         e.lost = s.lost, e.rchan = s.rchan, e.wire = s.wire, e.busq = s.busq,
         e.hostq[h] = <<>>, \A c \in Peers : c # h => e.hostq[c] = s.hostq[c], Kept(At(s), s.lost, n)
  PROVE  Kept(At(SendAllRemote(e, h, s.hostq[h])), SendAllRemote(e, h, s.hostq[h]).lost, n)
<1> DEFINE p == <<"hostq", h>>
           q == <<"wire", h>>
           ms == s.hostq[h]
           k == SendAllRemote(e, h, ms)
<1>1. p \in Place /\ q \in Place /\ p[1] = "hostq" /\ p[2] = h /\ ms \in Queue(n)
  BY PlaceIs DEF MailType
<1>2. \A t, m : Open(t, p, q, m) /\ Ahead(q, p) /\ Fits(q, m)
  BY PeerOpen
<1>3. \A m : \A t \in MailType(n) : Gone(t, SendRemote(t, h, m), m) \/ Put(t, SendRemote(t, h, m), q, m)
  BY RemotePuts
<1> HIDE DEF p, q, ms
<1>4. At(e)[p] = <<>> /\ At(s)[p] = ms
  BY <1>1, AtIs DEF ms
<1>5. ASSUME NEW r \in Place, r # p PROVE At(e)[r] = At(s)[r]
  <2>1. r[1] = "hostq" => r[2] # h /\ r[2] \in Peers
    BY <1>1, <1>5, PlaceIs, Places
  <2> QED  BY <2>1, AtIs, Places
<1>6. In(e, p, ms) = At(s)
  <2>1. In(e, p, ms)[p] = ms /\ \A r \in Place : r # p => In(e, p, ms)[r] = At(e)[r]
    BY <1>1, InIs, SMT
  <2>2. \A r \in Place : In(e, p, ms)[r] = At(s)[r]
    BY <1>4, <1>5, <2>1
  <2>3. In(e, p, ms) = [r \in Place |-> In(e, p, ms)[r]] /\ At(s) = [r \in Place |-> At(s)[r]]
    BY DEF In, At
  <2> QED  BY <2>2, <2>3
<1>7. PICK g : Goes(g, e, ms, k, Box(n, A, B))
               /\ \A i \in 1 .. Len(ms) : g[i] = SendRemote(g[i - 1], h, ms[i])
  BY <1>1, RemoteAllRuns
<1>8. ms \in Seq(Message(n)) /\ Len(ms) \in Nat
  BY <1>1 DEF Queue
<1>9. ASSUME NEW i \in 1 .. Len(ms) PROVE Passes(g[i - 1], g[i], p, ms[i], n)
  <2> DEFINE t == g[i - 1]
             m == ms[i]
             u == g[i]
  <2>1. m \in Message(n) /\ i - 1 \in 0 .. Len(ms) /\ i \in 0 .. Len(ms)
    BY <1>8
  <2>2. t \in MailType(n) /\ u \in MailType(n) /\ u = SendRemote(t, h, m)
    BY <1>7, <2>1 DEF Goes, Box
  <2> HIDE DEF t, m, u
  <2>3. CASE Gone(t, u, m)
    BY <1>1, <2>2, <2>3, GonePasses DEF t, u, m
  <2>4. CASE Put(t, u, q, m)
    <3>1. Open(t, p, q, m) /\ Ahead(q, p) /\ Fits(q, m)
      BY <1>2
    <3>2. Passes(t, u, p, m, n)
      BY <1>1, <2>2, <2>4, <3>1, PutPasses
    <3> QED  BY <3>2 DEF t, u, m
  <2> QED  BY <1>3, <2>2, <2>3, <2>4
<1>10. g[0] = e /\ g[Len(ms)] = k
  BY <1>7 DEF Goes
<1>11. Kept(In(e, p, ms), e.lost, n)
  BY <1>6
<1>12. Kept(At(g[Len(ms)]), g[Len(ms)].lost, n)
  BY <1>1, <1>4, <1>9, <1>10, <1>11, Emptied
<1> QED  BY <1>10, <1>12 DEF ms

------------------------------------------------------------------------------
(* The steps keep the messages *)

HeldKept == got \in [Local -> Queue(sent)] /\ Kept(Held, dropped, sent)

LEMMA HeldIs ==
  ASSUME NEW p \in Place
  PROVE  /\ p[1] = "wchan" => Held[p] = wchan[p[2]] /\ Held'[p] = wchan'[p[2]]
         /\ p[1] = "rchan" => Held[p] = rchan[p[2]] /\ Held'[p] = rchan'[p[2]]
         /\ p[1] = "got" => Held[p] = got[p[2]] /\ Held'[p] = got'[p[2]]
         /\ p[1] = "busq" => Held[p] = busid2queue[p[2]] /\ Held'[p] = busid2queue'[p[2]]
         /\ p[1] = "hostq" => Held[p] = host2queue[p[2]] /\ Held'[p] = host2queue'[p[2]]
         /\ p[1] = "wire" => Held[p] = wire[p[2]] /\ Held'[p] = wire'[p[2]]
         /\ p[1] = "inwire" => Held[p] = inwire /\ Held'[p] = inwire'
  BY DEF Held

LEMMA HeldAll == Held = [p \in Place |-> Held[p]] /\ Held' = [p \in Place |-> Held'[p]]
  BY DEF Held

LEMMA HeldAt == Held = At(Mail)
<1>1. \A p \in Place : Held[p] = At(Mail)[p]
  BY HeldIs, AtIs, MailParts, Places
<1>2. At(Mail) = [p \in Place |-> At(Mail)[p]]
  BY DEF At
<1> QED  BY <1>1, <1>2, HeldAll

LEMMA NextTyped ==
  ASSUME IInv', got' \in [Local -> Queue(sent')]
  PROVE  Typed(Held', sent')
<1>1. /\ wchan' \in [Local -> Queue(sent')] /\ rchan' \in [Local -> Queue(sent')] /\ inwire' \in Queue(sent')
      /\ busid2queue' \in [BusId -> Queue(sent')] /\ host2queue' \in [Peers -> Queue(sent')]
      /\ wire' \in [Peers -> Queue(sent')]
  BY DEF IInv, ChannelsTyped, Parts
<1>2. \A p \in Place : Held'[p] \in Queue(sent')
  BY <1>1, HeldIs, Places
<1> QED  BY <1>2, HeldAll DEF Typed

LEMMA StillKept ==
  ASSUME got' \in [Local -> Queue(sent')], Kept(Held', dropped', sent')
  PROVE  HeldKept'
  BY DEF HeldKept

\* Nothing moves.
LEMMA NothingMoves ==
  ASSUME HeldKept, UNCHANGED <<wchan, rchan, got, busid2queue, host2queue, wire, inwire, dropped, sent>>
  PROVE  HeldKept'
<1>1. Held' = Held
  BY DEF Held
<1> QED  BY <1>1, StillKept DEF HeldKept

\* Places are cleared, and what was there is lost.
LEMMA Cleared ==
  ASSUME NEW n \in Nat, NEW at, NEW lost, Kept(at, lost, n), NEW kt, Typed(kt, n), NEW C \in SUBSET Place,
         \A p \in C : kt[p] = <<>>, \A p \in Place : p \notin C => kt[p] = at[p], NEW all,
         \A id : id \in all <=> id \in lost \/ \E p \in C : id \in Ids(at[p])
  PROVE  Kept(kt, all, n)
<1> DEFINE c == [p \in Place |-> IF p \in C THEN Len(at[p]) ELSE 0]
<1>1. ASSUME NEW p \in Place
      PROVE  /\ at[p] \in Seq(Message(n)) /\ Len(at[p]) \in Nat /\ DOMAIN at[p] = 1 .. Len(at[p])
             /\ \A i \in 1 .. Len(at[p]) : at[p][i].id \in 1 .. n
  <2>1. at[p] \in Seq(Message(n)) /\ Len(at[p]) \in Nat /\ \A i \in 1 .. Len(at[p]) : at[p][i].id \in 1 .. n
    BY IdsBelow DEF Kept
  <2> QED  BY <2>1
<1>2. c \in [Place -> Nat]
  BY <1>1
<1>3. \A p \in Place : (p \in C => c[p] = Len(at[p])) /\ (p \notin C => c[p] = 0)
  OBVIOUS
<1> HIDE DEF c
<1>4. Cut(at, kt, c)
  <2> SUFFICES ASSUME NEW p \in Place PROVE c[p] <= Len(at[p]) /\ kt[p] = SubSeq(at[p], c[p] + 1, Len(at[p]))
    BY DEF Cut
  <2> DEFINE x == at[p]
             y == kt[p]
             d == c[p]
  <2>1. x \in Seq(Message(n)) /\ Len(x) \in Nat /\ ((d = Len(x) /\ y = <<>>) \/ (d = 0 /\ y = x))
    BY <1>1, <1>3
  <2> HIDE DEF x, y, d
  <2>2. d <= Len(x) /\ y = SubSeq(x, d + 1, Len(x))
    <3>1. CASE d = Len(x) /\ y = <<>>
      BY <2>1, <3>1
    <3>2. CASE d = 0 /\ y = x
      <4>1. d + 1 = 1 /\ x = SubSeq(x, 1, Len(x))
        BY <2>1, <3>2
      <4> QED  BY <2>1, <3>2, <4>1
    <3> QED  BY <2>1, <3>1, <3>2
  <2> QED  BY <2>2 DEF x, y, d
<1>5. Kept(kt, LostToo(at, lost, c, n), n)
  BY <1>2, <1>4, CutKeeps
<1>6. LostToo(at, lost, c, n) = all
  <2>1. ASSUME NEW id PROVE (\E p \in C : id \in Ids(at[p])) <=> (id \in 1 .. n /\ \E p \in Place : \E i \in 1 .. c[p] : at[p][i].id = id)
    <3>1. ASSUME NEW p \in C, id \in Ids(at[p]) PROVE id \in 1 .. n /\ \E i \in 1 .. c[p] : at[p][i].id = id
      BY <1>1, <1>3, <3>1 DEF Ids
    <3>2. ASSUME NEW p \in Place, NEW i \in 1 .. c[p], at[p][i].id = id PROVE p \in C /\ id \in Ids(at[p])
      <4>1. p \in C
        BY <1>3
      <4> QED  BY <1>1, <1>3, <3>2, <4>1 DEF Ids
    <3> QED  BY <3>1, <3>2
  <2> QED  BY <2>1 DEF LostToo
<1> QED  BY <1>5, <1>6

LEMMA RegisterKept ==
  ASSUME IInv, HeldKept, IInv', NEW b \in Local, Register(b)
  PROVE  HeldKept'
<1> DEFINE C == {<<"wchan", b>>, <<"rchan", b>>}
<1>1. /\ rchan' = [rchan EXCEPT ![b] = <<>>] /\ wchan' = [wchan EXCEPT ![b] = <<>>]
      /\ dropped' = dropped \cup Ids(rchan[b]) \cup Ids(wchan[b])
      /\ UNCHANGED <<got, busid2queue, host2queue, wire, inwire, sent>>
  BY DEF Register, queues
<1>2. sent \in Nat /\ wchan \in [Local -> Queue(sent)] /\ rchan \in [Local -> Queue(sent)]
  BY DEF IInv, Types, ChannelsTyped, Parts
<1>3. /\ rchan'[b] = <<>> /\ wchan'[b] = <<>>
      /\ \A d \in Local : d # b => rchan'[d] = rchan[d] /\ wchan'[d] = wchan[d]
  BY <1>1, <1>2
<1>4. C \in SUBSET Place
  BY PlaceIs
<1>5. \A p \in C : Held'[p] = <<>>
  BY <1>3, <1>4, HeldIs
<1>6. ASSUME NEW p \in Place, p \notin C PROVE Held'[p] = Held[p]
  <2>1. p[1] \in {"wchan", "rchan"} => p[2] # b /\ p[2] \in Local
    BY <1>6, PlaceIs, Places
  <2> QED  BY <1>1, <1>3, <2>1, HeldIs, Places
<1>7. Held[<<"wchan", b>>] = wchan[b] /\ Held[<<"rchan", b>>] = rchan[b]
  BY <1>4, HeldIs
<1>8. \A id : id \in dropped' <=> id \in dropped \/ \E p \in C : id \in Ids(Held[p])
  BY <1>1, <1>7
<1>9. Typed(Held', sent) /\ Kept(Held, dropped, sent) /\ got' \in [Local -> Queue(sent')]
  BY <1>1, NextTyped DEF HeldKept
<1> HIDE DEF C
<1>10. Kept(Held', dropped', sent)
  BY <1>2, <1>4, <1>5, <1>6, <1>8, <1>9, Cleared
<1> QED  BY <1>1, <1>9, <1>10, StillKept

LEMMA RestartKept ==
  ASSUME IInv, HeldKept, IInv', Restart
  PROVE  HeldKept'
<1> DEFINE C == {p \in Place : p[1] \in {"inwire", "busq", "hostq"}}
<1>1. /\ busid2queue' = [b \in BusId |-> <<>>] /\ host2queue' = [h \in Peers |-> <<>>] /\ inwire' = <<>>
      /\ UNCHANGED <<got, wchan, rchan, wire, sent>>
  BY DEF Restart
<1>2. dropped' = dropped \cup Ids(inwire) \cup (UNION {Ids(busid2queue[b]) : b \in BusId})
                         \cup (UNION {Ids(host2queue[h]) : h \in Peers})
  BY DEF Restart
<1>3. sent \in Nat
  BY DEF IInv, Types
<1>4. \A p \in C : Held'[p] = <<>>
  BY <1>1, HeldIs, Places
<1>5. \A p \in Place : p \notin C => Held'[p] = Held[p]
  BY <1>1, HeldIs, Places
<1>6. ASSUME NEW id PROVE id \in dropped' <=> id \in dropped \/ \E p \in C : id \in Ids(Held[p])
  <2>1. /\ <<"inwire", Here>> \in C /\ Held[<<"inwire", Here>>] = inwire
        /\ \A b \in BusId : <<"busq", b>> \in C /\ Held[<<"busq", b>>] = busid2queue[b]
        /\ \A h \in Peers : <<"hostq", h>> \in C /\ Held[<<"hostq", h>>] = host2queue[h]
    BY PlaceIs, HeldIs
  <2>2. ASSUME NEW p \in C PROVE \/ Held[p] = inwire
                                 \/ \E b \in BusId : Held[p] = busid2queue[b]
                                 \/ \E h \in Peers : Held[p] = host2queue[h]
    BY HeldIs, Places
  <2>3. id \in dropped' <=> \/ id \in dropped \/ id \in Ids(inwire)
                            \/ \E b \in BusId : id \in Ids(busid2queue[b])
                            \/ \E h \in Peers : id \in Ids(host2queue[h])
    BY <1>2
  <2> HIDE DEF C
  <2> QED  BY <2>1, <2>2, <2>3
<1>7. Typed(Held', sent) /\ Kept(Held, dropped, sent) /\ got' \in [Local -> Queue(sent')]
  BY <1>1, NextTyped DEF HeldKept
<1>8. C \in SUBSET Place
  OBVIOUS
<1> HIDE DEF C
<1>9. Kept(Held', dropped', sent)
  BY <1>3, <1>4, <1>5, <1>6, <1>7, <1>8, Cleared
<1> QED  BY <1>1, <1>7, <1>9, StillKept

LEMMA RecvKept ==
  ASSUME IInv, HeldKept, IInv', NEW b \in Local, Recv(b)
  PROVE  HeldKept'
<1> DEFINE p == <<"rchan", b>>
           q == <<"got", b>>
           m == Head(rchan[b])
<1>1. /\ rchan[b] # <<>> /\ got' = [got EXCEPT ![b] = Append(got[b], m)]
      /\ rchan' = [rchan EXCEPT ![b] = Tail(rchan[b])]
      /\ UNCHANGED <<wchan, busid2queue, host2queue, wire, inwire, dropped, sent>>
  BY DEF Recv, queues, bounds
<1>2. sent \in Nat /\ rchan \in [Local -> Queue(sent)] /\ got \in [Local -> Queue(sent)]
  BY DEF IInv, Types, Parts, HeldKept
<1>3. m \in Message(sent) /\ Append(got[b], m) \in Queue(sent)
  BY <1>1, <1>2 DEF Queue
<1>4. got' \in [Local -> Queue(sent')]
  BY <1>1, <1>2, <1>3
<1>5. /\ rchan'[b] = Tail(rchan[b]) /\ got'[b] = Append(got[b], m)
      /\ \A d \in Local : d # b => rchan'[d] = rchan[d] /\ got'[d] = got[d]
  BY <1>1, <1>2
<1>6. p \in Place /\ q \in Place /\ p[1] = "rchan" /\ p[2] = b /\ q[1] = "got" /\ q[2] = b
  BY PlaceIs
<1>7. Ahead(q, p) /\ Fits(q, m) /\ \A r \in Place : Ahead(q, r) /\ ~Ahead(p, r) => r = p
  BY DEF Ahead, Fits
<1> HIDE DEF p, q
<1>8. Held[p] = rchan[b] /\ Held'[p] = Tail(rchan[b]) /\ Held[q] = got[b] /\ Held'[q] = Append(got[b], m)
  BY <1>5, <1>6, HeldIs
<1>9. ASSUME NEW r \in Place, r # p, r # q PROVE Held'[r] = Held[r]
  <2>1. r[1] \in {"got", "rchan"} => r[2] # b /\ r[2] \in Local
    BY <1>6, <1>9, PlaceIs, Places
  <2> QED  BY <1>1, <1>5, <2>1, HeldIs, Places
<1>10. /\ Held[p] # <<>> /\ Held'[p] = Tail(Held[p]) /\ Held'[q] = Append(Held[q], Head(Held[p]))
       /\ Fits(q, Head(Held[p])) /\ Free(Held, p, q, Head(Held[p]))
  BY <1>1, <1>7, <1>8 DEF Free
<1>11. Typed(Held', sent) /\ Kept(Held, dropped, sent)
  BY <1>1, <1>4, NextTyped DEF HeldKept
<1>12. Kept(Held', dropped, sent)
  BY <1>2, <1>6, <1>7, <1>9, <1>10, <1>11, MoveKeeps
<1> QED  BY <1>1, <1>4, <1>12, StillKept

LEMMA GotGrows ==
  ASSUME IInv, HeldKept, UNCHANGED got, sent' = sent + 1
  PROVE  sent \in Nat /\ got' \in [Local -> Queue(sent')]
<1>1. sent \in Nat /\ got \in [Local -> Queue(sent)]
  BY DEF IInv, Types, HeldKept
<1>2. Queue(sent) \subseteq Queue(sent + 1)
  BY <1>1, Grows
<1> QED  BY <1>1, <1>2

LEMMA SendKept ==
  ASSUME IInv, HeldKept, IInv', NEW b \in Local, NEW d \in BusId, Send(b, d)
  PROVE  HeldKept'
<1> DEFINE m == [id |-> sent + 1, src |-> b, dst |-> d]
           p == <<"wchan", b>>
<1>1. /\ sent' = sent + 1 /\ UNCHANGED <<rchan, got, busid2queue, host2queue, wire, inwire>>
      /\ \/ wchan' = [wchan EXCEPT ![b] = Append(wchan[b], m)] /\ dropped' = dropped
         \/ wchan' = wchan /\ dropped' = dropped \cup {sent + 1}
  BY DEF Send, queues
<1>2. sent \in Nat /\ wchan \in [Local -> Queue(sent)] /\ dropped \in SUBSET (1 .. sent)
  BY DEF IInv, Types, ChannelsTyped, Parts
<1>3. got' \in [Local -> Queue(sent')]
  BY <1>1, GotGrows
<1>4. m \in Message(sent + 1) /\ m.id = sent + 1 /\ m.src = b
  BY <1>2, Locals DEF Message
<1>5. p \in Place /\ p[1] = "wchan" /\ p[2] = b
  BY PlaceIs
<1> HIDE DEF m, p
<1>6. Fits(p, m)
  BY <1>4, <1>5 DEF Fits
<1>7. Typed(Held', sent + 1) /\ Kept(Held, dropped, sent)
  BY <1>1, <1>3, NextTyped DEF HeldKept
<1>8. CASE wchan' = [wchan EXCEPT ![b] = Append(wchan[b], m)] /\ dropped' = dropped
  <2>1. wchan'[b] = Append(wchan[b], m) /\ \A c \in Local : c # b => wchan'[c] = wchan[c]
    BY <1>2, <1>8
  <2>2. Held'[p] = Append(Held[p], m)
    BY <1>5, <2>1, HeldIs
  <2>3. ASSUME NEW r \in Place, r # p PROVE Held'[r] = Held[r]
    <3>1. r[1] = "wchan" => r[2] # b /\ r[2] \in Local
      BY <1>5, <2>3, PlaceIs, Places
    <3> QED  BY <1>1, <2>1, <3>1, HeldIs, Places
  <2>4. Kept(Held', dropped, sent + 1)
    BY <1>2, <1>4, <1>5, <1>6, <1>7, <2>2, <2>3, NewKeeps
  <2> QED  BY <1>1, <1>3, <1>8, <2>4, StillKept
<1>9. CASE wchan' = wchan /\ dropped' = dropped \cup {sent + 1}
  <2>1. Held' = Held
    BY <1>1, <1>9 DEF Held
  <2>2. Kept(Held', dropped', sent + 1)
    BY <1>2, <1>7, <1>9, <2>1, RefusedKeeps
  <2> QED  BY <1>1, <1>3, <2>2, StillKept
<1> QED  BY <1>1, <1>8, <1>9

LEMMA PeerSendsKept ==
  ASSUME IInv, HeldKept, IInv', NEW b \in Remote, NEW d \in BusId, PeerSends(b, d)
  PROVE  HeldKept'
<1> DEFINE m == [id |-> sent + 1, src |-> b, dst |-> d]
           p == <<"inwire", Here>>
<1>1. /\ sent' = sent + 1 /\ inwire' = Append(inwire, m)
      /\ UNCHANGED <<wchan, rchan, got, busid2queue, host2queue, wire, dropped>>
  BY DEF PeerSends, queues, shared
<1>2. sent \in Nat /\ dropped \in SUBSET (1 .. sent)
  BY DEF IInv, Types, Parts
<1>3. got' \in [Local -> Queue(sent')]
  BY <1>1, GotGrows
<1>4. m \in Message(sent + 1) /\ m.id = sent + 1 /\ m.src = b
  BY <1>2 DEF Message, BusId
<1>5. p \in Place /\ p[1] = "inwire"
  BY PlaceIs
<1> HIDE DEF m
<1>6. Fits(p, m)
  BY <1>4, <1>5 DEF Fits
<1>7. Typed(Held', sent + 1) /\ Kept(Held, dropped, sent)
  BY <1>1, <1>3, NextTyped DEF HeldKept
<1>8. Held'[p] = Append(Held[p], m)
  BY <1>1, <1>5, HeldIs
<1>9. \A r \in Place : r # p => Held'[r] = Held[r]
  BY <1>1, HeldIs, Places
<1> HIDE DEF p
<1>10. Kept(Held', dropped, sent + 1)
  BY <1>2, <1>4, <1>5, <1>6, <1>7, <1>8, <1>9, NewKeeps
<1> QED  BY <1>1, <1>3, <1>10, StillKept

\* What a callback starts from.
LEMMA Starts ==
  ASSUME IInv, HeldKept
  PROVE  /\ sent \in Nat /\ Rest(sent) /\ Mail \in MailType(sent) /\ Kept(At(Mail), Mail.lost, sent)
         /\ Mail \in Box(sent, active_endpoints, inactive_endpoints) /\ active_endpoints \in [BusId -> Route]
<1>1. sent \in Nat /\ Rest(sent) /\ active_endpoints \in [BusId -> Route]
  BY DEF IInv, Types, ChannelsTyped, HeldKept, Rest
<1>2. Kept(At(Mail), Mail.lost, sent)
  <2>1. Mail.lost = dropped
    BY MailParts
  <2> QED  BY <2>1, HeldAt DEF HeldKept
<1>3. Mail \in Box(sent, active_endpoints, inactive_endpoints)
  BY MailIn DEF MailBox
<1>4. Mail \in MailType(sent)
  BY <1>3 DEF Box
<1> QED  BY <1>1, <1>2, <1>3, <1>4

\* What it ends in.
LEMMA Ends ==
  ASSUME HeldKept, NEW k, Becomes(k), UNCHANGED <<wchan, got, inwire, sent>>, Kept(At(k), k.lost, sent)
  PROVE  HeldKept'
<1>1. \A p \in Place : Held'[p] = At(k)[p]
  BY HeldIs, AtIs, Places DEF Becomes
<1>2. At(k) = [p \in Place |-> At(k)[p]]
  BY DEF At
<1>3. Held' = At(k)
  BY <1>1, <1>2, HeldAll
<1>4. dropped' = k.lost
  BY DEF Becomes
<1>5. got' \in [Local -> Queue(sent')]
  BY DEF HeldKept
<1> QED  BY <1>3, <1>4, <1>5, StillKept

\* The same when messages were taken from p.
LEMMA EndsWith ==
  ASSUME HeldKept, NEW k, Becomes(k), UNCHANGED <<got, sent>>, NEW p \in Place, NEW rest,
         Kept(In(k, p, rest), k.lost, sent), p[1] \in {"wchan", "inwire"}, Held'[p] = rest,
         \A r \in Place : r # p /\ r[1] \in {"wchan", "inwire"} => Held'[r] = Held[r]
  PROVE  HeldKept'
<1>1. In(k, p, rest)[p] = rest /\ \A r \in Place : r # p => In(k, p, rest)[r] = At(k)[r]
  BY InIs, SMT
<1>2. ASSUME NEW r \in Place, r # p PROVE Held'[r] = At(k)[r]
  <2>1. CASE r[1] \in {"wchan", "inwire"}
    <3>1. Held'[r] = Held[r]
      BY <1>2, <2>1
    <3> QED  BY <2>1, <3>1, HeldIs, AtIs
  <2>2. CASE r[1] \notin {"wchan", "inwire"}
    BY <2>2, HeldIs, AtIs, Places DEF Becomes
  <2> QED  BY <2>1, <2>2
<1>3. In(k, p, rest) = [r \in Place |-> In(k, p, rest)[r]]
  BY DEF In, At
<1>4. Held' = In(k, p, rest)
  BY <1>1, <1>2, <1>3, HeldAll
<1>5. dropped' = k.lost
  BY DEF Becomes
<1>6. got' \in [Local -> Queue(sent')]
  BY DEF HeldKept
<1> QED  BY <1>4, <1>5, <1>6, StillKept

LEMMA Batched ==
  ASSUME IInv, NEW b \in Local
  PROVE  \E j \in 0 .. Len(wchan[b]) :
           Batch(b) \in Queue(sent) /\ Len(Batch(b)) = j /\ \A i \in 1 .. j : Batch(b)[i] = wchan[b][i]
<1> DEFINE w == wchan[b]
           l == Min({loop_rate, Len(w)})
<1>1. w \in Seq(Message(sent)) /\ Len(w) \in Nat
  BY DEF IInv, ChannelsTyped, Queue
<1>2. Batch(b) = SubSeq(w, 1, l)
  BY DEF Batch
<1> HIDE DEF w
<1>3. l \in 0 .. Len(w)
  <2>1. \E x \in {loop_rate, Len(w)} : \A y \in {loop_rate, Len(w)} : x <= y
    BY <1>1, RouterAssumption DEF RouterAssumption
  <2>2. l \in {loop_rate, Len(w)} /\ l <= Len(w)
    BY <2>1 DEF Min
  <2> QED  BY <1>1, <2>2, RouterAssumption DEF RouterAssumption
<1> HIDE DEF l
<1>4. SubSeq(w, 1, l) \in Seq(Message(sent)) /\ Len(SubSeq(w, 1, l)) = l /\ \A i \in 1 .. l : SubSeq(w, 1, l)[i] = w[i]
  BY <1>1, <1>3
<1> QED  BY <1>2, <1>3, <1>4 DEF w, Queue

LEMMA LocalMessageKept ==
  ASSUME IInv, HeldKept, NEW b \in Local, NEW ok \in BOOLEAN, on_local_message(b, ok)
  PROVE  HeldKept'
<1>1. UNCHANGED <<inwire, got, sent>>
  BY DEF on_local_message
<1>2. CASE desc[b] # "open"
  <2>1. UNCHANGED <<wchan, rchan, busid2queue, host2queue, wire, dropped>>
    BY <1>2 DEF on_local_message, queues
  <2> QED  BY <1>1, <2>1, NothingMoves
<1>3. CASE desc[b] = "open"
  <2> DEFINE p == <<"wchan", b>>
             ms == Batch(b)
             full == wchan[b]
             rest == SubSeq(full, Len(ms) + 1, Len(full))
             k == HandleAll(Mail, ms, active_endpoints, inactive_endpoints, ok)
  <2>1. wchan' = [wchan EXCEPT ![b] = rest] /\ Becomes(k)
    BY <1>3, Zenon DEF on_local_message
  <2>2. wchan \in [Local -> Queue(sent)] /\ full \in Queue(sent)
    BY DEF IInv, ChannelsTyped
  <2>3. p \in Place /\ p[1] = "wchan" /\ p[2] = b
    BY PlaceIs
  <2>4. PICK j \in 0 .. Len(full) : ms \in Queue(sent) /\ Len(ms) = j /\ \A i \in 1 .. j : ms[i] = full[i]
    BY Batched
  <2> HIDE DEF p, ms, rest
  <2>5. wchan'[b] = rest /\ \A c \in Local : c # b => wchan'[c] = wchan[c]
    BY <2>1, <2>2
  <2>6. Held'[p] = rest
    BY <2>3, <2>5, HeldIs
  <2>7. ASSUME NEW r \in Place, r # p, r[1] \in {"wchan", "inwire"} PROVE Held'[r] = Held[r]
    <3>1. r[1] = "wchan" => r[2] # b /\ r[2] \in Local
      BY <2>3, <2>7, PlaceIs, Places
    <3> QED  BY <1>1, <2>5, <2>7, <3>1, HeldIs
  <2>8. In(Mail, p, full) = At(Mail)
    <3>1. At(Mail)[p] = full
      BY <2>3, AtIs
    <3> QED  BY <3>1 DEF In, At
  <2> HIDE DEF full
  <2>9. Kept(In(k, p, SubSeq(full, j + 1, Len(full))), k.lost, sent)
    <3>1. Kept(In(Mail, p, full), Mail.lost, sent)
      BY <2>8, Starts
    <3> QED  BY <2>2, <2>3, <2>4, <3>1, Starts, BatchKept
  <2>10. Kept(In(k, p, rest), k.lost, sent)
    BY <2>4, <2>9 DEF rest
  <2> HIDE DEF k
  <2> QED  BY <1>1, <2>1, <2>3, <2>6, <2>7, <2>10, EndsWith
<1> QED  BY <1>2, <1>3

LEMMA ClientMessageKept ==
  ASSUME IInv, HeldKept, NEW ok \in BOOLEAN, on_client_message_received(ok)
  PROVE  HeldKept'
<1> DEFINE p == <<"inwire", Here>>
           m == Head(inwire)
           k == handle_message(Mail, m, active_endpoints, inactive_endpoints, ok)
<1>1. inwire # <<>> /\ inwire' = Tail(inwire) /\ Becomes(k) /\ UNCHANGED <<wchan, got, sent>>
  BY DEF on_client_message_received
<1>2. p \in Place /\ p[1] = "inwire"
  BY PlaceIs
<1>3. inwire \in Queue(sent) /\ m \in Message(sent) /\ m.dst \in BusId
  <2>1. inwire \in Queue(sent)
    BY DEF IInv, ChannelsTyped
  <2>2. m \in Message(sent)
    BY <1>1, <2>1 DEF Queue
  <2> QED  BY <2>1, <2>2 DEF Message
<1>4. Held'[p] = Tail(inwire) /\ \A r \in Place : r # p /\ r[1] \in {"wchan", "inwire"} => Held'[r] = Held[r]
  BY <1>1, <1>2, HeldIs, Places
<1>5. In(Mail, p, inwire) = At(Mail)
  <2>1. At(Mail)[p] = inwire
    BY <1>2, AtIs
  <2> QED  BY <2>1 DEF In, At
<1> HIDE DEF p, m
<1>6. Passes(Mail, k, p, m, sent)
  <2>1. Covers(active_endpoints, inactive_endpoints, active_endpoints, inactive_endpoints)
    BY DEF Covers
  <2>2. Ready(Mail, p, m, active_endpoints)
    <3>1. Sorted(Mail, active_endpoints, inactive_endpoints)
      BY Starts DEF Box
    <3> QED  BY <1>2, <1>3, <3>1 DEF Ready, Sorted
  <2> QED  BY <1>2, <1>3, <2>1, <2>2, Starts, HandlePasses
<1> HIDE DEF k
<1>7. Kept(In(k, p, Tail(inwire)), k.lost, sent)
  <2>1. Kept(In(Mail, p, inwire), Mail.lost, sent)
    BY <1>5, Starts
  <2> QED  BY <1>1, <1>3, <1>6, <2>1 DEF Passes, m
<1> QED  BY <1>1, <1>2, <1>4, <1>7, EndsWith

LEMMA WatchKept ==
  ASSUME IInv, HeldKept, NEW ok \in BOOLEAN, on_route_watch(ok)
  PROVE  HeldKept'
<1>1. UNCHANGED <<wchan, inwire, got, sent>>
  BY DEF on_route_watch
<1>2. CASE watch.kind = "error" \/ Empty(watch.routes)
  <2>1. UNCHANGED <<rchan, busid2queue, host2queue, wire, dropped>>
    BY <1>2 DEF on_route_watch, queues
  <2> QED  BY <1>1, <2>1, NothingMoves
<1>3. CASE ~(watch.kind = "error" \/ Empty(watch.routes))
  <2> DEFINE routes == watch.routes
             inactive == InactiveAfter(routes)
             k == HandleQueues(Mail, routes, inactive, ok)
  <2>1. Becomes(k)
    BY <1>3, Zenon DEF on_route_watch
  <2>2. routes \in [BusId -> Route]
    BY <1>3 DEF on_route_watch, IInv, Types
  <2> HIDE DEF routes
  <2>3. Mail \in Box(sent, Left(routes, 0), inactive)
    BY <2>2, AfterWatch
  <2> HIDE DEF inactive
  <2>4. Kept(At(k), k.lost, sent)
    BY <2>2, <2>3, Starts, QueuesKept
  <2> HIDE DEF k
  <2> QED  BY <1>1, <2>1, <2>4, Ends
<1> QED  BY <1>2, <1>3

LEMMA RouteSetKept ==
  ASSUME IInv, HeldKept, NEW b \in Local, NEW ok \in BOOLEAN, on_route_set(b, ok)
  PROVE  HeldKept'
<1>1. UNCHANGED <<wchan, inwire, got, sent>>
  BY DEF on_route_set, bounds
<1>2. CASE ~ok
  <2>1. UNCHANGED <<rchan, busid2queue, host2queue, wire, dropped>>
    BY <1>2 DEF on_route_set, queues
  <2> QED  BY <1>1, <2>1, NothingMoves
<1>3. CASE ok
  <2> DEFINE s == Mail
             e == [Mail EXCEPT !.busq = QueueErased(b)]
             k == SendAllLocal(e, busid2queue[b])
  <2>1. Becomes(k)
    BY <1>3 DEF on_route_set
  <2>2. b \in BusId /\ s.busq[b] = busid2queue[b]
    BY Locals, MailParts
  <2>3. e = [s EXCEPT !.busq[b] = <<>>]
    BY Starts DEF QueueErased, Mail
  <2>4. e \in Box(sent, active_endpoints, inactive_endpoints)
    BY <2>2, <2>3, Starts, ErasedKeeps
  <2> HIDE DEF e, s
  <2>5. Kept(At(SendAllLocal(e, s.busq[b])), SendAllLocal(e, s.busq[b]).lost, sent)
    BY <2>2, <2>3, <2>4, Starts, LocalKept DEF s
  <2>6. Kept(At(k), k.lost, sent)
    BY <2>2, <2>5
  <2> HIDE DEF k
  <2> QED  BY <1>1, <2>1, <2>6, Ends
<1> QED  BY <1>2, <1>3

LEMMA ConnectedKept ==
  ASSUME IInv, HeldKept, NEW h \in Peers, on_server_connected(h)
  PROVE  HeldKept'
<1> DEFINE q == [host2queue EXCEPT ![h] = <<>>]
           t == [host2endpoints EXCEPT ![h] = "connected"]
           s == Mail
           e == [Mail EXCEPT !.ep[h] = "connected", !.hostq[h] = <<>>]
           k == SendAllRemote(e, h, host2queue[h])
<1>1. Becomes(k) /\ UNCHANGED <<wchan, inwire, got, sent>>
  BY DEF on_server_connected, bounds
<1>2. /\ host2queue \in [Peers -> Queue(sent)] /\ host2endpoints \in [Peers -> Endpoint]
      /\ <<>> \in Queue(sent) /\ "connected" \in Endpoint
  BY DEF IInv, Parts, Queue, Endpoint
<1>3. /\ q \in [Peers -> Queue(sent)] /\ t \in [Peers -> Endpoint] /\ t[h] = "connected" /\ q[h] = <<>>
      /\ \A g \in Peers : g # h => t[g] = host2endpoints[g] /\ q[g] = host2queue[g]
  BY <1>2
<1>4. e = [Mail EXCEPT !.ep = t, !.hostq = q]
  BY DEF Mail
<1> HIDE DEF e, q, t, s
<1>5. s \in MailType(sent) /\ s.hostq = host2queue /\ s.ep = host2endpoints
  BY Starts, MailParts DEF s
<1>6. /\ e \in MailType(sent) /\ e.lost = s.lost /\ e.rchan = s.rchan /\ e.wire = s.wire /\ e.busq = s.busq
      /\ e.hostq = q /\ e.ep = t
  BY <1>3, <1>4, <1>5 DEF MailType, s
<1>7. e \in Box(sent, active_endpoints, inactive_endpoints)
  <2>1. Sorted(s, active_endpoints, inactive_endpoints)
    BY Starts DEF Box, s
  <2>2. \A g \in Peers : (q[g] # <<>>) <=> (t[g] \in Waiting)
    <3>1. \A g \in Peers : (host2queue[g] # <<>>) <=> (host2endpoints[g] \in Waiting)
      BY DEF IInv, PartsSorted
    <3> QED  BY <1>3, <3>1 DEF Waiting
  <2>3. Sorted(e, active_endpoints, inactive_endpoints)
    BY <1>6, <2>1, <2>2 DEF Sorted
  <2> QED  BY <1>6, <2>3 DEF Box
<1>8. e.hostq[h] = <<>> /\ \A g \in Peers : g # h => e.hostq[g] = s.hostq[g]
  BY <1>3, <1>5, <1>6
<1>9. Rest(sent) /\ sent \in Nat /\ Kept(At(s), s.lost, sent)
  BY Starts DEF s
<1>10. Kept(At(SendAllRemote(e, h, s.hostq[h])), SendAllRemote(e, h, s.hostq[h]).lost, sent)
  BY <1>5, <1>6, <1>7, <1>8, <1>9, RemoteKept
<1>11. Kept(At(k), k.lost, sent)
  BY <1>5, <1>10
<1> HIDE DEF k
<1> QED  BY <1>1, <1>11, Ends
------------------------------------------------------------------------------
LEMMA InitKept == Init => HeldKept
<1> SUFFICES ASSUME Init PROVE HeldKept
  OBVIOUS
<1>1. sent = 0 /\ dropped = {} /\ <<>> \in Queue(0) /\ got \in [Local -> Queue(0)]
  BY DEF Init, Queue
<1>2. \A p \in Place : Held[p] = <<>>
  BY HeldIs, Places DEF Init
<1>3. Typed(Held, 0)
  BY <1>1, <1>2, HeldAll DEF Typed
<1>4. \A p \in Place : Len(Held[p]) = 0 /\ 1 .. Len(Held[p]) = {}
  BY <1>2
<1>5. AllFit(Held) /\ NotLost(Held, {}) /\ Once(Held) /\ InOrder(Held)
  BY <1>4 DEF AllFit, NotLost, Once, InOrder
<1>6. Accounted(Held, {}, 0)
  BY DEF Accounted
<1> QED  BY <1>1, <1>3, <1>5, <1>6 DEF HeldKept, Kept

LEMMA NextKept == IInv /\ HeldKept /\ IInv' /\ [Next]_vars => HeldKept'
<1> SUFFICES ASSUME IInv, HeldKept, IInv', [Next]_vars PROVE HeldKept'
  OBVIOUS
<1> DEFINE Still == UNCHANGED <<wchan, rchan, got, busid2queue, host2queue, wire, inwire, dropped, sent>>
<1>1. CASE Daemon
  <2>1. ASSUME NEW b \in Local, on_descriptor_change(b) PROVE Still
    BY <2>1 DEF on_descriptor_change, queues, bounds
  <2>2. ASSUME NEW b \in Local, NEW ok \in BOOLEAN, on_route_del(b, ok) PROVE Still
    BY <2>2 DEF on_route_del, queues, bounds, shared
  <2> HIDE DEF Still
  <2>3. Still => HeldKept'
    BY NothingMoves DEF Still
  <2> QED  BY <1>1, <2>1, <2>2, <2>3, LocalMessageKept, WatchKept, RouteSetKept, ConnectedKept, ClientMessageKept DEF Daemon
<1>2. CASE Consul
  <2>1. CASE WatchAnswers
    BY <2>1, NothingMoves DEF WatchAnswers, queues, bounds, shared
  <2>2. ASSUME NEW op \in Op, NEW b \in Local, NEW s \in {"sent", "orphan"}, ConsulApplies(op, b, s) PROVE Still
    BY <2>2 DEF ConsulApplies, queues, bounds, shared
  <2> HIDE DEF Still
  <2>3. Still => HeldKept'
    BY NothingMoves DEF Still
  <2> QED  BY <1>2, <2>1, <2>2, <2>3 DEF Consul
<1>3. CASE Processes
  <2>1. ASSUME NEW b \in Local, Deregister(b) PROVE Still
    BY <2>1 DEF Deregister, queues
  <2> HIDE DEF Still
  <2>2. Still => HeldKept'
    BY NothingMoves DEF Still
  <2> QED  BY <1>3, <2>1, <2>2, RegisterKept, RecvKept, SendKept DEF Processes
<1>4. CASE Outside
  <2>1. ASSUME NEW b \in Remote, NEW h \in Peers \cup {NoHost}, PeerRoute(b, h) PROVE Still
    BY <2>1 DEF PeerRoute, queues, shared
  <2>2. ASSUME NEW h \in Peers, ConnectError(h) PROVE Still
    BY <2>2 DEF ConnectError, shared
  <2>3. ASSUME NEW h \in Peers, LinkBreaks(h) PROVE Still
    BY <2>3 DEF LinkBreaks, queues, shared
  <2>4. ASSUME NEW op \in Op, NEW b \in Local, ConsulFails(op, b) PROVE Still
    BY <2>4 DEF ConsulFails, queues, shared
  <2>5. ASSUME WatchFails PROVE Still
    BY <2>5 DEF WatchFails, queues, shared
  <2> HIDE DEF Still
  <2>6. Still => HeldKept'
    BY NothingMoves DEF Still
  <2> QED  BY <1>4, <2>1, <2>2, <2>3, <2>4, <2>5, <2>6, PeerSendsKept, RestartKept DEF Outside
<1>5. CASE UNCHANGED vars
  BY <1>5, NothingMoves DEF vars, shared, queues, bounds
<1> QED  BY <1>1, <1>2, <1>3, <1>4, <1>5 DEF Next

\* Every message handed to the bus is in exactly one place, in one copy, or is
\* known to be lost, whatever the daemon, consul, the connections and the
\* processes do and in whatever order; and messages of one process to another
\* never overtake each other on the way to a process of this host or to one
\* peer, although bus_router queues some for a route or a connection.
THEOREM MessagesStay == Spec => []MessagesKept
<1>1. IInv /\ HeldKept => MessagesKept
  <2> SUFFICES ASSUME IInv, HeldKept PROVE MessagesKept
    OBVIOUS
  <2> DEFINE at == Held
             all == UNION {{[place |-> p, pos |-> i, msg |-> at[p][i]] : i \in 1 .. Len(at[p])} : p \in Place}
  <2>1. Kept(at, dropped, sent)
    BY DEF HeldKept
  <2> HIDE DEF at
  <2>2. ASSUME NEW x \in all
        PROVE  x.place \in Place /\ x.pos \in 1 .. Len(at[x.place]) /\ x.msg = at[x.place][x.pos]
               /\ x = [place |-> x.place, pos |-> x.pos, msg |-> x.msg]
    <3>1. PICK p \in Place : x \in {[place |-> p, pos |-> i, msg |-> at[p][i]] : i \in 1 .. Len(at[p])}
      BY Zenon
    <3>2. PICK i \in 1 .. Len(at[p]) : x = [place |-> p, pos |-> i, msg |-> at[p][i]]
      BY <3>1
    <3> QED  BY <3>2
  <2>3. ASSUME NEW p \in Place, NEW i \in 1 .. Len(at[p]) PROVE \E x \in all : x.msg = at[p][i]
    <3> DEFINE x == [place |-> p, pos |-> i, msg |-> at[p][i]]
    <3>1. x.msg = at[p][i]
      OBVIOUS
    <3>2. x \in {[place |-> p, pos |-> j, msg |-> at[p][j]] : j \in 1 .. Len(at[p])}
      OBVIOUS
    <3> HIDE DEF x
    <3>3. x \in all
      BY <3>2, Zenon
    <3> QED  BY <3>1, <3>3
  <2> HIDE DEF all
  <2>4. \A id \in 1 .. sent : id \in dropped <=> \A x \in all : x.msg.id # id
    <3> SUFFICES ASSUME NEW id \in 1 .. sent PROVE id \in dropped <=> \A x \in all : x.msg.id # id
      OBVIOUS
    <3>1. ASSUME id \in dropped, NEW x \in all, x.msg.id = id PROVE FALSE
      BY <2>1, <2>2, <3>1 DEF Kept, NotLost
    <3>2. ASSUME id \notin dropped PROVE \E x \in all : x.msg.id = id
      <4>1. PICK p \in Place : \E i \in 1 .. Len(at[p]) : at[p][i].id = id
        BY <2>1, <3>2 DEF Kept, Accounted
      <4>2. PICK i \in 1 .. Len(at[p]) : at[p][i].id = id
        BY <4>1
      <4>3. PICK x \in all : x.msg = at[p][i]
        BY <2>3
      <4> QED  BY <4>2, <4>3
    <3> QED  BY <3>1, <3>2
  <2>5. \A x, y \in all : x.msg.id = y.msg.id => x = y
    <3> SUFFICES ASSUME NEW x \in all, NEW y \in all, x.msg.id = y.msg.id PROVE x = y
      OBVIOUS
    <3>1. x.place = y.place /\ x.pos = y.pos
      BY <2>1, <2>2 DEF Kept, Once
    <3>2. x.msg = y.msg
      BY <2>2, <3>1
    <3> QED  BY <2>2, <3>1, <3>2
  <2>6. \A x, y \in all :
          /\ x.msg.src = y.msg.src /\ x.msg.dst = y.msg.dst
          /\ (x.place = y.place /\ x.pos < y.pos) \/ Ahead(x.place, y.place)
          => x.msg.id < y.msg.id
    BY <2>1, <2>2 DEF Kept, InOrder, SameWay, Before
  <2> QED  BY <2>4, <2>5, <2>6, Zenon DEF MessagesKept, all, at
<1>2. Init => IInv /\ HeldKept
  BY InitGood, InitKept
<1>3. (IInv /\ HeldKept) /\ [Next]_vars => (IInv /\ HeldKept)'
  BY NextGood, NextKept
<1> QED  BY <1>1, <1>2, <1>3, PTL DEF Spec
=============================================================================
