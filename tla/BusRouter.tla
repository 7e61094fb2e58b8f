------------------------------ MODULE BusRouter ------------------------------
(***************************************************************************)
(* The bus daemon of one host (bus/bus_router) with what surrounds it: the *)
(* local processes and their descriptors in shared memory, the signals     *)
(* they queue for it, the consul key-value store that holds the routes of  *)
(* all hosts, and the daemons of other hosts.                              *)
(*                                                                         *)
(* One action is one callback of the daemon's event loop, run to the end.  *)
(* Everything else interleaves with it: processes register, leave and send *)
(* at any time; consul carries out requests in any order (each is its own  *)
(* HTTP transfer) and its answers wait, growing stale, until the loop gets *)
(* to them; connections come up late, fail or break.  Channels are bounded *)
(* queues here (module Channel has their inside).                          *)
(*                                                                         *)
(* `got', `sent' and `dropped' are history.                                *)
(***************************************************************************)
EXTENDS Integers, Sequences, SequencesExt, FiniteSets

CONSTANTS
  Local,      \* bus ids of processes of this host
  Remote,     \* bus ids of processes of other hosts
  Here,       \* localhost_
  Peers,      \* the other hosts
  Up,         \* local processes registered throughout; the others come and go
  Talks,      \* who sends to whom: pairs of bus ids
  NoHost,     \* not registered in consul
  ChanCap,    \* per local process: messages each of its channels holds
  loop_rate,  \* messages taken from one channel per signal
  MaxMsg,     \* bound: messages sent in a behaviour
  MaxReg,     \* bound: registrations and deregistrations, local and remote
  MaxFault    \* bound: failures of any kind

BusId == Local \cup Remote
Host == Peers \cup {Here}

ASSUME RouterAssumption ==
  /\ Local \cap Remote = {} /\ Up \subseteq Local /\ Here \notin Peers /\ NoHost \notin Host
  /\ Talks \subseteq BusId \X BusId
  /\ IsFiniteSet(BusId)
  /\ ChanCap \in [Local -> Nat \ {0}] /\ loop_rate \in Nat \ {0}

VARIABLES
  desc,               \* per local process: its descriptor
  wchan, rchan,       \* per local process: messages to and from the daemon
  sigs,               \* signals queued for the daemon
  active_endpoints,   \* route table: host of each bus id, or NoHost
  inactive_endpoints, \* bus ids known to have left
  busid2queue,        \* messages waiting for a route
  host2queue,         \* messages waiting for a connection
  host2endpoints,     \* per peer: state of the outgoing connection
  kv,                 \* consul: the routes
  watch,              \* the watch: pending, or its answer not yet handled
  reqs,               \* set and del requests on their way, by stage
  link,               \* per peer: whether its connection still carries data
  wire, inwire,       \* messages sent to each peer, messages from peers
  got, sent, dropped, regs, faults

shared == <<desc, wchan, rchan, sigs>>
tables == <<active_endpoints, inactive_endpoints>>
queues == <<busid2queue, host2queue, host2endpoints, wire>>
consul == <<kv, watch, reqs>>
bounds == <<sent, regs, faults>>
vars == <<shared, tables, queues, consul, link, inwire, got, dropped, bounds>>
------------------------------------------------------------------------------
Signal == [kind : {"outgoing", "registration"}, fd : Local]

Armed == [kind |-> "armed", routes |-> <<>>]
Answer(k, m) == [kind |-> k, routes |-> m]
Empty(table) == \A b \in DOMAIN table : table[b] = NoHost

Op == {"set", "del"}
Stage == {"sent", "orphan", "ok", "failed"}
Req(op, b, stage) == <<op, b, stage>>
NoReqs == [r \in Op \X Local \X Stage |-> 0]
Applied(op, b) == [kv EXCEPT ![b] = IF op = "set" THEN Here ELSE NoHost]

Ids(s) == {s[i].id : i \in DOMAIN s}
UnknownRoutes == [b \in BusId |-> NoHost]

\* std::map iterates in the order of its keys: any fixed order will do.
BusOrder == SetToSeq(BusId)

Init ==
  /\ desc = [b \in Local |-> IF b \in Up THEN "open" ELSE "none"]
  /\ wchan = [b \in Local |-> <<>>] /\ rchan = [b \in Local |-> <<>>]
  /\ sigs = <<>>
  /\ active_endpoints = [b \in BusId |-> IF b \in Up THEN Here ELSE NoHost]
  /\ inactive_endpoints = {}
  /\ busid2queue = [b \in BusId |-> <<>>] /\ host2queue = [h \in Peers |-> <<>>]
  /\ host2endpoints = [h \in Peers |-> "none"]
  /\ kv = active_endpoints /\ watch = Armed /\ reqs = NoReqs
  /\ link = [h \in Peers |-> TRUE]
  /\ wire = [h \in Peers |-> <<>>] /\ inwire = <<>>
  /\ got = [b \in Local |-> <<>>]
  /\ sent = 0 /\ dropped = {} /\ regs = 0 /\ faults = 0
------------------------------------------------------------------------------
(* Local processes *)

\* sigqueue() may fail: the signal is then lost.
Notify(kind, b) ==
  \/ sigs' = Append(sigs, [kind |-> kind, fd |-> b]) /\ UNCHANGED faults
  \/ faults < MaxFault /\ faults' = faults + 1 /\ UNCHANGED sigs

\* register_channel: a new descriptor, or a closed one whose channels are cleared.
Register(b) ==
  /\ regs < MaxReg /\ desc[b] # "open"
  /\ desc' = [desc EXCEPT ![b] = "open"]
  /\ dropped' = dropped \cup Ids(rchan[b]) \cup Ids(wchan[b])
  /\ rchan' = [rchan EXCEPT ![b] = <<>>] /\ wchan' = [wchan EXCEPT ![b] = <<>>]
  /\ Notify("registration", b)
  /\ regs' = regs + 1
  /\ UNCHANGED <<tables, queues, consul, link, inwire, got, sent>>

\* deregister_channel
Deregister(b) ==
  /\ regs < MaxReg /\ b \notin Up /\ desc[b] = "open"
  /\ desc' = [desc EXCEPT ![b] = "closed"]
  /\ Notify("registration", b)
  /\ regs' = regs + 1
  /\ UNCHANGED <<wchan, rchan, tables, queues, consul, link, inwire, got, sent, dropped>>

\* Mutant: the daemon is signalled only for the first message of a batch.
SendSignalsFirst(b, d) ==
  /\ sent < MaxMsg /\ <<b, d>> \in Talks /\ desc[b] = "open" /\ Len(wchan[b]) < ChanCap[b]
  /\ sent' = sent + 1
  /\ wchan' = [wchan EXCEPT ![b] = Append(@, [id |-> sent + 1, src |-> b, dst |-> d])]
  /\ IF wchan[b] = <<>> THEN Notify("outgoing", b) ELSE UNCHANGED <<sigs, faults>>
  /\ UNCHANGED <<desc, rchan, tables, queues, consul, link, inwire, got, dropped, regs>>

\* bus::send: a full channel loses the message; the signal goes out anyway.
Send(b, d) ==
  /\ sent < MaxMsg /\ <<b, d>> \in Talks /\ desc[b] = "open"
  /\ sent' = sent + 1
  /\ LET m == [id |-> sent + 1, src |-> b, dst |-> d] IN
     IF Len(wchan[b]) < ChanCap[b]
     THEN wchan' = [wchan EXCEPT ![b] = Append(@, m)] /\ UNCHANGED dropped
     ELSE dropped' = dropped \cup {m.id} /\ UNCHANGED wchan
  /\ Notify("outgoing", b)
  /\ UNCHANGED <<desc, rchan, tables, queues, consul, link, inwire, got, regs>>

\* bus::recv
Recv(b) ==
  /\ desc[b] = "open" /\ rchan[b] # <<>>
  /\ got' = [got EXCEPT ![b] = Append(@, Head(rchan[b]))]
  /\ rchan' = [rchan EXCEPT ![b] = Tail(@)]
  /\ UNCHANGED <<desc, wchan, sigs, tables, queues, consul, link, inwire, dropped, bounds>>
------------------------------------------------------------------------------
(* Messages through the daemon: what a message changes, as a record *)

Mail == [busq |-> busid2queue, hostq |-> host2queue, ep |-> host2endpoints,
         wire |-> wire, rchan |-> rchan, lost |-> dropped]

Becomes(s) ==
  /\ busid2queue' = s.busq /\ host2queue' = s.hostq /\ host2endpoints' = s.ep
  /\ wire' = s.wire /\ rchan' = s.rchan /\ dropped' = s.lost

Drop(s, m) == [s EXCEPT !.lost = @ \cup {m.id}]

\* find_read_channel fails unless the descriptor is open; push fails when full.
send_local_message(s, m) ==
  IF m.dst \in Local /\ desc[m.dst] = "open" /\ Len(s.rchan[m.dst]) < ChanCap[m.dst]
  THEN [s EXCEPT !.rchan[m.dst] = Append(@, m)]
  ELSE Drop(s, m)

\* endpoint::send: a connection that broke is not noticed.
SendRemote(s, h, m) ==
  IF link[h] THEN [s EXCEPT !.wire[h] = Append(@, m)] ELSE Drop(s, m)

\* Mutant: a message for a host is queued in front of the older ones.
EnqueueFront(s, h, m) == [s EXCEPT !.hostq[h] = <<m>> \o @]

\* enqueue(host, msg)
Enqueue(s, h, m) == [s EXCEPT !.hostq[h] = Append(@, m)]

\* fetch_endpoint, then send or queue; connecting says whether a new
\* connection can be started at all.
ToPeer(s, h, m, connecting) ==
  CASE s.ep[h] = "connected" -> SendRemote(s, h, m)
    [] s.ep[h] = "none" /\ ~connecting -> Drop(s, m)
    [] OTHER -> Enqueue([s EXCEPT !.ep[h] = IF @ = "none" THEN "connecting" ELSE @], h, m)

\* Mutant: messages for a bus id that has left are kept for its return.
HandleUnlessActive(s, m, active, inactive, connecting) ==
  CASE active[m.dst] = NoHost -> [s EXCEPT !.busq[m.dst] = Append(@, m)]
    [] active[m.dst] = Here -> send_local_message(s, m)
    [] OTHER -> ToPeer(s, active[m.dst], m, connecting)

handle_message(s, m, active, inactive, connecting) ==
  CASE m.dst \in inactive -> Drop(s, m)
    [] m.dst \notin inactive /\ active[m.dst] = NoHost ->
         [s EXCEPT !.busq[m.dst] = Append(@, m)]
    [] m.dst \notin inactive /\ active[m.dst] = Here -> send_local_message(s, m)
    [] OTHER -> ToPeer(s, active[m.dst], m, connecting)

\* One message after the other.
HandleAll(s, ms, active, inactive, connecting) ==
  LET after[i \in 0 .. Len(ms)] ==
        IF i = 0 THEN s ELSE handle_message(after[i - 1], ms[i], active, inactive, connecting)
  IN  after[Len(ms)]

\* The queue of a bus id is handled and erased.
HandleQueue(s, b, active, inactive, connecting) ==
  HandleAll([s EXCEPT !.busq[b] = <<>>], s.busq[b], active, inactive, connecting)

\* So is the queue of each bus id that has a route.
HandleQueues(s, active, inactive, connecting) ==
  LET after[i \in 0 .. Len(BusOrder)] ==
        IF i = 0 THEN s
        ELSE IF active[BusOrder[i]] = NoHost THEN after[i - 1]
        ELSE HandleQueue(after[i - 1], BusOrder[i], active, inactive, connecting)
  IN  after[Len(BusOrder)]

SendAllLocal(s, ms) ==
  LET after[i \in 0 .. Len(ms)] == IF i = 0 THEN s ELSE send_local_message(after[i - 1], ms[i])
  IN  after[Len(ms)]

SendAllRemote(s, h, ms) ==
  LET after[i \in 0 .. Len(ms)] == IF i = 0 THEN s ELSE SendRemote(after[i - 1], h, ms[i])
  IN  after[Len(ms)]

\* uv_tcp_connect may fail at once: a fault that costs a message.
Connecting(ok) ==
  IF ok THEN UNCHANGED faults
  ELSE faults < MaxFault /\ faults' = faults + 1 /\ dropped' # dropped
------------------------------------------------------------------------------
(* Signals: those of one number come in order, and outgoing messages *)
(* (the lower number) may overtake registrations but never the reverse. *)

Deliverable(i) ==
  \A j \in 1 .. i - 1 : sigs[j].kind = "registration" /\ sigs[i].kind = "outgoing"

Signalled(kind, b) ==
  \E i \in DOMAIN sigs :
    /\ Deliverable(i) /\ sigs[i] = [kind |-> kind, fd |-> b]
    /\ sigs' = RemoveAt(sigs, i)

\* The messages one signal takes from a channel.
Batch(b) == SubSeq(wchan[b], 1, Min({loop_rate, Len(wchan[b])}))

on_local_message(b, ok) ==
  /\ Signalled("outgoing", b)
  /\ IF desc[b] = "open"
     THEN LET batch == Batch(b) IN
          /\ wchan' = [wchan EXCEPT ![b] = SubSeq(@, Len(batch) + 1, Len(@))]
          /\ Becomes(HandleAll(Mail, batch, active_endpoints, inactive_endpoints, ok))
     ELSE UNCHANGED <<wchan, rchan, queues, dropped>>
  /\ Connecting(ok)
  /\ UNCHANGED <<desc, tables, consul, link, inwire, got, sent, regs>>

\* The handler sees the descriptor as it is now, not as it was when signalled.
on_descriptor_change(b) ==
  /\ Signalled("registration", b)
  /\ LET add(op) == reqs' = [reqs EXCEPT ![Req(op, b, "sent")] = @ + 1] IN
     CASE active_endpoints[b] = NoHost /\ desc[b] = "open" -> add("set")
       [] active_endpoints[b] # NoHost /\ desc[b] = "closed" -> add("del")
       [] OTHER -> UNCHANGED reqs
  /\ UNCHANGED <<desc, wchan, rchan, tables, queues, kv, watch, link, inwire, got,
                 dropped, bounds>>
------------------------------------------------------------------------------
(* Answers of consul *)

\* on_route_watch: routes listed are no longer inactive, active ones not listed are.
InactiveAfter(routes) ==
  (inactive_endpoints \ {b \in BusId : routes[b] # NoHost})
    \cup {b \in BusId : active_endpoints[b] # NoHost /\ routes[b] = NoHost}

\* Every path of on_route_watch ends in a new watch.
Rearm == watch' = Armed

\* An error, or 404 when no key is left, changes no route.
on_route_watch(ok) ==
  /\ watch.kind \in {"error", "routes"}
  /\ Rearm
  /\ IF watch.kind = "error" \/ Empty(watch.routes)
     THEN UNCHANGED <<tables, queues, rchan, dropped>>
     ELSE LET routes == watch.routes
              inactive == InactiveAfter(routes)
          IN  /\ active_endpoints' = routes /\ inactive_endpoints' = inactive
              /\ Becomes(HandleQueues(Mail, routes, inactive, ok))
  /\ Connecting(ok)
  /\ UNCHANGED <<desc, wchan, sigs, kv, reqs, link, inwire, got, sent, regs>>

\* The queue of a bus id is erased once it has been sent.
QueueErased(b) == [busid2queue EXCEPT ![b] = <<>>]

on_route_set(b, ok) ==
  /\ LET r == Req("set", b, IF ok THEN "ok" ELSE "failed") IN
     reqs[r] > 0 /\ reqs' = [reqs EXCEPT ![r] = @ - 1]
  /\ IF ok
     THEN /\ active_endpoints' = [active_endpoints EXCEPT ![b] = Here]
          /\ inactive_endpoints' = inactive_endpoints \ {b}
          /\ Becomes(SendAllLocal([Mail EXCEPT !.busq = QueueErased(b)], busid2queue[b]))
     ELSE UNCHANGED <<tables, queues, rchan, dropped>>
  /\ UNCHANGED <<desc, wchan, sigs, kv, watch, link, inwire, got, bounds>>

on_route_del(b, ok) ==
  /\ LET r == Req("del", b, IF ok THEN "ok" ELSE "failed") IN
     reqs[r] > 0 /\ reqs' = [reqs EXCEPT ![r] = @ - 1]
  /\ IF ok
     THEN /\ active_endpoints' = [active_endpoints EXCEPT ![b] = NoHost]
          /\ inactive_endpoints' = inactive_endpoints \cup {b}
     ELSE UNCHANGED tables
  /\ UNCHANGED <<shared, queues, kv, watch, link, inwire, got, dropped, bounds>>
------------------------------------------------------------------------------
(* Connections to and from other hosts *)

on_server_connected(h) ==
  /\ host2endpoints[h] = "connecting"
  /\ Becomes(SendAllRemote([Mail EXCEPT !.ep[h] = "connected", !.hostq[h] = <<>>], h, host2queue[h]))
  /\ UNCHANGED <<desc, wchan, sigs, tables, consul, link, inwire, got, bounds>>

\* The connection cannot be made: no retry, the endpoint stays.
ConnectError(h) ==
  /\ host2endpoints[h] = "connecting" /\ faults < MaxFault
  /\ host2endpoints' = [host2endpoints EXCEPT ![h] = "failed"]
  /\ faults' = faults + 1
  /\ UNCHANGED <<shared, tables, busid2queue, host2queue, wire, consul, link, inwire,
                 got, dropped, sent, regs>>

\* A connection breaks; nothing in the daemon changes.
LinkBreaks(h) ==
  /\ host2endpoints[h] = "connected" /\ link[h] /\ faults < MaxFault
  /\ link' = [link EXCEPT ![h] = FALSE]
  /\ faults' = faults + 1
  /\ UNCHANGED <<shared, tables, queues, consul, inwire, got, dropped, sent, regs>>

\* A peer forwards a message it believes to be for this host.
PeerSends(b, d) ==
  /\ sent < MaxMsg /\ <<b, d>> \in Talks
  /\ sent' = sent + 1
  /\ inwire' = Append(inwire, [id |-> sent + 1, src |-> b, dst |-> d])
  /\ UNCHANGED <<shared, tables, queues, consul, link, got, dropped, regs, faults>>

on_client_message_received(ok) ==
  /\ inwire # <<>>
  /\ inwire' = Tail(inwire)
  /\ Becomes(handle_message(Mail, Head(inwire), active_endpoints, inactive_endpoints, ok))
  /\ Connecting(ok)
  /\ UNCHANGED <<desc, wchan, sigs, tables, consul, link, got, sent, regs>>
------------------------------------------------------------------------------
(* consul, and the other hosts that write to it *)

ConsulApplies(op, b, stage) ==
  /\ reqs[Req(op, b, stage)] > 0
  /\ kv' = Applied(op, b)
  /\ reqs' = [reqs EXCEPT ![Req(op, b, stage)] = @ - 1,
                          ![Req(op, b, "ok")] = IF stage = "sent" THEN @ + 1 ELSE @]
  /\ UNCHANGED <<shared, tables, queues, watch, link, inwire, got, dropped, bounds>>

\* A transfer fails, before or after consul has carried it out.
ConsulFails(op, b) ==
  /\ reqs[Req(op, b, "sent")] > 0 /\ faults < MaxFault
  /\ kv' \in {kv, Applied(op, b)}
  /\ reqs' = [reqs EXCEPT ![Req(op, b, "sent")] = @ - 1, ![Req(op, b, "failed")] = @ + 1]
  /\ faults' = faults + 1
  /\ UNCHANGED <<shared, tables, queues, watch, link, inwire, got, dropped, sent, regs>>

\* The watch answers with the routes of this moment: at a change, or after ten minutes.
WatchAnswers ==
  /\ watch = Armed
  /\ watch' = Answer("routes", kv)
  /\ UNCHANGED <<shared, tables, queues, kv, reqs, link, inwire, got, dropped, bounds>>

WatchFails ==
  /\ watch = Armed /\ faults < MaxFault
  /\ watch' = Answer("error", <<>>)
  /\ faults' = faults + 1
  /\ UNCHANGED <<shared, tables, queues, kv, reqs, link, inwire, got, dropped, sent, regs>>

\* A process of another host comes or goes.
PeerRoute(b, h) ==
  /\ regs < MaxReg /\ kv[b] # h
  /\ kv' = [kv EXCEPT ![b] = h]
  /\ regs' = regs + 1
  /\ UNCHANGED <<shared, tables, queues, watch, reqs, link, inwire, got, dropped, sent, faults>>

\* The daemon dies and is started again in resume mode: shared memory and
\* consul outlive it, everything else is lost, signals included.
Restart ==
  /\ faults < MaxFault
  /\ faults' = faults + 1
  /\ sigs' = <<>>
  /\ active_endpoints' = UnknownRoutes /\ inactive_endpoints' = {}
  /\ busid2queue' = [b \in BusId |-> <<>>] /\ host2queue' = [h \in Peers |-> <<>>]
  /\ host2endpoints' = [h \in Peers |-> "none"]
  /\ watch' = Armed
  /\ reqs' = [r \in DOMAIN reqs |->
                IF r[3] = "orphan" THEN reqs[r] + reqs[Req(r[1], r[2], "sent")] ELSE 0]
  /\ link' = [h \in Peers |-> TRUE]
  /\ inwire' = <<>>
  /\ dropped' = dropped \cup Ids(inwire) \cup (UNION {Ids(busid2queue[b]) : b \in BusId})
                        \cup (UNION {Ids(host2queue[h]) : h \in Peers})
  /\ UNCHANGED <<desc, wchan, rchan, wire, kv, got, sent, regs>>
------------------------------------------------------------------------------
\* The callbacks of the daemon
Daemon ==
  \/ \E b \in Local, ok \in BOOLEAN : on_local_message(b, ok)
  \/ \E b \in Local : on_descriptor_change(b)
  \/ \E ok \in BOOLEAN : on_route_watch(ok)
  \/ \E b \in Local, ok \in BOOLEAN : on_route_set(b, ok) \/ on_route_del(b, ok)
  \/ \E h \in Peers : on_server_connected(h)
  \/ \E ok \in BOOLEAN : on_client_message_received(ok)

Consul == WatchAnswers \/ \E op \in Op, b \in Local, s \in {"sent", "orphan"} : ConsulApplies(op, b, s)

Processes ==
  \E b \in Local : Register(b) \/ Deregister(b) \/ Recv(b) \/ \E d \in BusId : Send(b, d)

Outside ==
  \/ \E b \in Remote, d \in BusId : PeerSends(b, d)
  \/ \E b \in Remote, h \in Peers \cup {NoHost} : PeerRoute(b, h)
  \/ \E h \in Peers : ConnectError(h) \/ LinkBreaks(h)
  \/ \E op \in Op, b \in Local : ConsulFails(op, b)
  \/ WatchFails
  \/ Restart

Next == Daemon \/ Consul \/ Processes \/ Outside

Spec == Init /\ [][Next]_vars

\* The loop serves every pending event, consul answers, and connections are
\* made.  The watch goes round for ever and has its own fairness; the other
\* events are finitely many.
Served ==
  \/ \E b \in Local : on_local_message(b, TRUE) \/ on_descriptor_change(b)
  \/ \E b \in Local, ok \in BOOLEAN : on_route_set(b, ok) \/ on_route_del(b, ok)
  \/ \E h \in Peers : on_server_connected(h)
  \/ on_client_message_received(TRUE)
  \/ \E op \in Op, b \in Local, s \in {"sent", "orphan"} : ConsulApplies(op, b, s)

FairSpec ==
  /\ Spec
  /\ WF_vars(Served)
  /\ WF_vars(WatchAnswers)
  /\ WF_vars(on_route_watch(TRUE))
------------------------------------------------------------------------------
\* Types of the shared memory, the tables of bus_router and consul's state.
TypeOK ==
  /\ desc \in [Local -> {"none", "open", "closed"}]
  /\ \A b \in Local : {Len(wchan[b]), Len(rchan[b])} \subseteq 0 .. ChanCap[b]
  /\ \A i \in DOMAIN sigs : sigs[i] \in Signal
  /\ active_endpoints \in [BusId -> Host \cup {NoHost}]
  /\ inactive_endpoints \subseteq BusId
  /\ host2endpoints \in [Peers -> {"none", "connecting", "connected", "failed"}]
  /\ kv \in [BusId -> Host \cup {NoHost}]
  /\ watch.kind \in {"armed", "error", "routes"}
  /\ reqs \in [Op \X Local \X Stage -> Nat]
  /\ dropped \subseteq 1 .. sent

\* What the assertions of bus_router rely on, whatever the order in which
\* stale answers arrive: no bus id is both active and inactive, messages wait
\* only for a bus id that is neither, and a peer has a queue exactly while its
\* connection is not there; and every table has its type.
TablesConsistent ==
  /\ TypeOK
  /\ \A b \in inactive_endpoints : active_endpoints[b] = NoHost
  /\ \A b \in BusId : busid2queue[b] # <<>> =>
       active_endpoints[b] = NoHost /\ b \notin inactive_endpoints
  /\ \A h \in Peers : (host2queue[h] # <<>>) <=> (host2endpoints[h] \in {"connecting", "failed"})

\* Where a message can be, and what is there.
Place ==
  ({"wchan", "rchan", "got"} \X Local) \cup ({"busq"} \X BusId) \cup ({"hostq", "wire"} \X Peers)
    \cup {<<"inwire", Here>>}

Held ==
  [p \in Place |->
     CASE p[1] = "wchan" -> wchan[p[2]] [] p[1] = "rchan" -> rchan[p[2]] [] p[1] = "got" -> got[p[2]]
       [] p[1] = "busq" -> busid2queue[p[2]] [] p[1] = "hostq" -> host2queue[p[2]]
       [] p[1] = "wire" -> wire[p[2]] [] OTHER -> inwire]

\* What is in p has come farther on its way than what is in q.
Ahead(p, q) ==
  \/ p[1] = "got" /\ q = <<"rchan", p[2]>>
  \/ p[1] = "wire" /\ q = <<"hostq", p[2]>>
  \/ p[1] \in {"got", "rchan", "wire", "hostq"} /\ q[1] \in {"busq", "wchan", "inwire"}
  \/ p[1] = "busq" /\ q[1] \in {"wchan", "inwire"}

\* A message handed to the bus is in exactly one place, in one copy, or has
\* been given up: queues are emptied as they are sent.  Messages from one
\* process to another never overtake each other on the way to a process of
\* this host or to one peer, although some wait for a route or a connection
\* and later ones need not.
MessagesKept ==
  LET held == Held
      all == UNION {{[place |-> p, pos |-> i, msg |-> held[p][i]] : i \in 1 .. Len(held[p])} : p \in Place}
  IN  /\ \A id \in 1 .. sent : id \in dropped <=> \A x \in all : x.msg.id # id
      /\ \A x, y \in all : x.msg.id = y.msg.id => x = y
      /\ \A x, y \in all :
           /\ x.msg.src = y.msg.src /\ x.msg.dst = y.msg.dst
           /\ (x.place = y.place /\ x.pos < y.pos) \/ Ahead(x.place, y.place)
           => x.msg.id < y.msg.id

\* Nothing is held up for ever.  A queued message goes out once consul knows
\* its destination, and once the connection it waits for is made: the watch
\* never lapses, whatever fails.  While no signal is lost, what a process has
\* sent is taken from its channel, although one signal takes loop_rate_
\* messages at most.
NothingIsHeldUp ==
  []<>(/\ \A b \in BusId : busid2queue[b] # <<>> => kv[b] = NoHost
       /\ \A h \in Peers : host2queue[h] # <<>> => host2endpoints[h] = "failed"
       /\ \A b \in Local : wchan[b] # <<>> => desc[b] # "open" \/ faults > 0)

\* A process that left has its route removed, unless it comes back.
ClosedIsUnrouted ==
  \A b \in Local : (desc[b] = "closed") ~> (kv[b] = NoHost \/ desc[b] = "open")
==============================================================================
