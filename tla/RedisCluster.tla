---------------------------- MODULE RedisCluster ----------------------------
(***************************************************************************)
(* The client of a redis cluster (redis/redis_cluster.cpp,                 *)
(* redis_connection.cpp, redis_command.cpp).  Which node has which slot is *)
(* learnt with CLUSTER SLOTS, from the first of the known nodes; commands  *)
(* wait in pending_commands_ until it is known, and follow the MOVED and   *)
(* ASK redirections they get.  hiredis answers the commands of a           *)
(* connection in their order, and all that are left with a null reply when *)
(* the connection breaks.                                                  *)
(*                                                                         *)
(* A handler is an operator on the whole client r, for it runs to its end  *)
(* in one callback; an operator that may fail returns [client, ok].        *)
(***************************************************************************)
EXTENDS Integers, Sequences, SequencesExt, FiniteSets

CONSTANTS
  Nodes,            \* nodes of the cluster, in the order of their ids
  Hosts,            \* the ones create() is given
  Unresolvable,     \* nodes redisAsyncConnect() refuses at once
  Commands,         \* commands the user has
  SlotOf,           \* the slot of each command's key
  Layouts,          \* what CLUSTER SLOTS may return: a node for some slots
  MAX_REQUEST_TTL

ASSUME RedisAssumption ==
  /\ Nodes \subseteq Nat \ {0} /\ Hosts \subseteq Nodes /\ Hosts # {} /\ Unresolvable \subseteq Nodes
  /\ \A layout \in Layouts : Range(layout) \subseteq Nodes
  /\ 0 \notin Commands /\ MAX_REQUEST_TTL \in Nat \ {0}

VARIABLES
  cluster,   \* the client
  fate,      \* per command: "new", "accepted", "answered" or "lost"
  phase      \* "running", "stopped", or "ended" in undefined behaviour

vars == <<cluster, fate, phase>>

Slots == {SlotOf[u] : u \in Commands}
NoNode == 0

\* No entry in connections_, and a new one.  state is the client's; ctx and
\* closing are hiredis's: a context is opening, open or freed, and takes no
\* more commands once it is closing.
NoConn == [state |-> "none", queue |-> <<>>, ctx |-> "freed", closing |-> FALSE]
NewConn == [state |-> "connecting", queue |-> <<>>, ctx |-> "opening", closing |-> FALSE]

\* What is sent: a user's command, CLUSTER SLOTS, or ASKING ahead of a command.
UserCmd(u) == [type |-> "user", of |-> u]
SlotsCmd == [type |-> "slots", of |-> NoNode]
AskCmd(u) == [type |-> "ask", of |-> u]

Done(r) == [client |-> r, ok |-> TRUE]
Failed(r) == [client |-> r, ok |-> FALSE]

Init ==
  /\ cluster = [state |-> "invalid", nodes |-> Hosts, slots |-> [s \in Slots |-> NoNode],
                conns |-> [n \in Nodes |-> NoConn], pending |-> <<>>,
                ttl |-> [u \in Commands |-> MAX_REQUEST_TTL]]
  /\ fate = [u \in Commands |-> "new"]
  /\ phase = "running"
------------------------------------------------------------------------------
\* fetch_connection
Fetch(r, n) ==
  IF r.conns[n] = NoConn THEN [r EXCEPT !.conns[n] = NewConn] ELSE r

release_connection(r, n) == [r EXCEPT !.conns[n] = NoConn]

\* Mutant: the time to live is not used up.
SendForever(r, cmd, n) == [r EXCEPT !.conns[n].queue = Append(@, cmd)]

\* redis_command::dec_ttl(); ASKING and CLUSTER SLOTS are made for one sending.
dec_ttl(r, cmd) == IF cmd.type = "user" THEN [r EXCEPT !.ttl[cmd.of] = @ - 1] ELSE r

Send(r, cmd, n) == dec_ttl([r EXCEPT !.conns[n].queue = Append(@, cmd)], cmd)

\* exec() on a node; a connection that is closing or breaking takes nothing.
ExecOn(r, cmd, n) ==
  IF r.conns[n] = NoConn /\ n \in Unresolvable THEN Failed(r)
  ELSE LET f == Fetch(r, n) IN
       IF \/ cmd.type = "user" /\ r.ttl[cmd.of] <= 0
          \/ f.conns[n].state = "disconnecting" \/ f.conns[n].closing
       THEN Failed(f) ELSE Done(Send(f, cmd, n))

\* Nothing happens while an answer is awaited, without nodes, or when the
\* first node cannot be asked.
reload_slot_cache(r) ==
  IF r.state = "updating" \/ r.nodes = {} THEN r
  ELSE LET x == ExecOn(r, SlotsCmd, Min(r.nodes)) IN
       IF x.ok THEN [x.client EXCEPT !.state = "updating"] ELSE x.client

\* select_node: the one that has the slot, or any.
select_node(r, u) ==
  IF r.slots[SlotOf[u]] # NoNode THEN {r.slots[SlotOf[u]]} ELSE r.nodes

\* exec() of a user's command: the possible outcomes.
Exec(r, u) ==
  IF r.state # "updated"
  THEN {Done([(IF r.state = "invalid" THEN reload_slot_cache(r) ELSE r) EXCEPT !.pending = Append(@, u)])}
  ELSE IF select_node(r, u) = {} THEN {Failed(r)}
  ELSE {ExecOn(r, UserCmd(u), n) : n \in select_node(r, u)}

\* One round of the loop over pending_commands_: the outcomes [client, lost]
\* of sending the first of them, lost being the commands that could not be sent.
DrainOne(o) ==
  LET u == Head(o.client.pending) IN
  {[client |-> x.client, lost |-> IF x.ok THEN o.lost ELSE o.lost \cup {u}] :
     x \in Exec([o.client EXCEPT !.pending = Tail(@)], u)}

\* The loop; with the slots known none is added to pending_commands_ by it.
Drain(r) ==
  LET after[k \in 0 .. Len(r.pending)] ==
        IF k = 0 THEN {[client |-> r, lost |-> {}]} ELSE UNION {DrainOne(o) : o \in after[k - 1]}
  IN  after[Len(r.pending)]

\* Mutant: the state is left alone when CLUSTER SLOTS fails.
SlotsFailedUpdating(r) == reload_slot_cache([r EXCEPT !.nodes = @ \ {Min(@)}])

\* on_cluster_slot_reply, when there is no usable answer: the next node is asked.
SlotsFailed(r) == reload_slot_cache([r EXCEPT !.nodes = @ \ {Min(@)}, !.state = "invalid"])

\* on_cluster_slot_reply with an answer: a node for each of some slots.
SlotsKnown(r, layout) ==
  Drain([r EXCEPT !.nodes = @ \cup Range(layout), !.state = "updated",
                  !.slots = [s \in Slots |-> IF s \in DOMAIN layout THEN layout[s] ELSE NoNode]])

\* Mutant: the command is also queued for when the slots are known.
on_moved_received_twice(r, u, n) ==
  ExecOn([reload_slot_cache(r) EXCEPT !.slots[SlotOf[u]] = n, !.pending = Append(@, u)], UserCmd(u), n)

\* on_moved_received: the slots are asked for again, the command goes on.
on_moved_received(r, u, n) ==
  ExecOn([reload_slot_cache(r) EXCEPT !.slots[SlotOf[u]] = n], UserCmd(u), n)

\* on_ask_received: the command is kept until ASKING has been answered.
on_ask_received(r, u, n) == ExecOn(r, AskCmd(u), n)
------------------------------------------------------------------------------
(* The steps *)

\* redis_command::create()
NewCommand(r, u) == [r EXCEPT !.ttl[u] = MAX_REQUEST_TTL]

\* exec(), called by the user; a refused command may be tried again.
exec(u) ==
  /\ phase = "running"
  /\ fate[u] # "accepted"
  /\ \E x \in Exec(NewCommand(cluster, u), u) :
       /\ cluster' = x.client
       /\ fate' = [fate EXCEPT ![u] = IF x.ok THEN "accepted" ELSE "new"]
  /\ UNCHANGED phase

\* A connection that was to be closed ends with its last answer.
Finish(r, n) ==
  IF r.conns[n].closing /\ r.conns[n].queue = <<>> THEN release_connection(r, n) ELSE r

\* The next command of a connection has got its answer.
Answerable(n, type) ==
  /\ cluster.conns[n].ctx = "open"
  /\ cluster.conns[n].queue # <<>>
  /\ Head(cluster.conns[n].queue).type = type

Answered(n) == [cluster EXCEPT !.conns[n].queue = Tail(@)]
Asked(n) == Head(cluster.conns[n].queue).of

Result(n, client, u, to) ==
  cluster' = Finish(client, n) /\ fate' = [fate EXCEPT ![u] = to] /\ UNCHANGED phase

\* An answer, or an error that is no redirection: the callback is called.
on_reply(n) == Answerable(n, "user") /\ Result(n, Answered(n), Asked(n), "answered")

\* A redirection to a node; if it cannot be followed nobody is told.
on_redirect(n, to, moved) ==
  /\ Answerable(n, "user")
  /\ \E x \in {IF moved THEN on_moved_received(Answered(n), Asked(n), to)
                ELSE on_ask_received(Answered(n), Asked(n), to)} :
       Result(n, x.client, Asked(n), IF x.ok THEN "accepted" ELSE "lost")

\* A redirection that cannot be parsed; MOVED has the slots reloaded all the same.
on_bad_redirect(n, moved) ==
  /\ Answerable(n, "user")
  /\ Result(n, IF moved THEN reload_slot_cache(Answered(n)) ELSE Answered(n), Asked(n), "lost")

on_ask_reply(n, ok) ==
  /\ Answerable(n, "ask")
  /\ \E x \in {IF ok THEN ExecOn(Answered(n), UserCmd(Asked(n)), n) ELSE Failed(Answered(n))} :
       Result(n, x.client, Asked(n), IF x.ok THEN "accepted" ELSE "lost")

on_cluster_slot_reply(n) ==
  /\ Answerable(n, "slots")
  /\ \/ cluster' = Finish(SlotsFailed(Answered(n)), n) /\ UNCHANGED fate
     \/ \E layout \in Layouts : \E x \in SlotsKnown(Answered(n), layout) :
          /\ cluster' = Finish(x.client, n)
          /\ fate' = [u \in Commands |-> IF u \in x.lost THEN "lost" ELSE fate[u]]
  /\ UNCHANGED phase

on_connected(n) ==
  /\ cluster.conns[n].ctx = "opening"
  /\ cluster' = [cluster EXCEPT !.conns[n].state = "connected", !.conns[n].ctx = "open"]
  /\ UNCHANGED <<fate, phase>>

\* on_connected with an error: the connection is released, and with it its
\* commands; then hiredis calls on_reply() for them, with what was released.
on_connect_error(n) ==
  /\ cluster.conns[n].ctx = "opening"
  /\ cluster' = release_connection(cluster, n)
  /\ phase' = IF cluster.conns[n].queue = <<>> THEN phase ELSE "ended"
  /\ UNCHANGED fate

\* The commands of a broken connection, answered one by one with an error.
Break(r, queue) ==
  LET after[k \in 0 .. Len(queue)] ==
        IF k = 0 THEN r ELSE IF queue[k].type = "slots" THEN SlotsFailed(after[k - 1]) ELSE after[k - 1]
  IN  after[Len(queue)]

\* A connection breaks; a command kept behind ASKING is not told.
on_disconnected(n) ==
  /\ cluster.conns[n].ctx = "open"
  /\ \E queue \in {cluster.conns[n].queue} :
       /\ cluster' = release_connection(Break([cluster EXCEPT !.conns[n].closing = TRUE], queue), n)
       /\ fate' = [u \in Commands |-> CASE UserCmd(u) \in ToSet(queue) -> "answered"
                                        [] AskCmd(u) \in ToSet(queue) -> "lost"
                                        [] OTHER -> fate[u]]
  /\ UNCHANGED phase

\* redisAsyncDisconnect(): at once when nothing is awaited, and on_disconnected()
\* is called then only for a connection that was made.
Close(conn) ==
  IF conn.state \in {"none", "disconnecting"} THEN conn
  ELSE IF conn.queue # <<>> THEN [conn EXCEPT !.state = "disconnecting", !.closing = TRUE]
  ELSE IF conn.ctx = "open" THEN NoConn
  ELSE [conn EXCEPT !.state = "disconnecting", !.ctx = "freed"]

\* stop(): connections with commands under way close when these are answered.
stop ==
  /\ phase = "running" /\ phase' = "stopped"
  /\ cluster' = [cluster EXCEPT !.conns = [n \in Nodes |-> Close(@[n])]]
  /\ UNCHANGED fate

Callback(n) ==
  \/ on_reply(n)
  \/ \E to \in Nodes, moved \in BOOLEAN : on_redirect(n, to, moved)
  \/ \E b \in BOOLEAN : on_bad_redirect(n, b) \/ on_ask_reply(n, b)
  \/ on_cluster_slot_reply(n)
  \/ on_connected(n)
  \/ on_connect_error(n)
  \/ on_disconnected(n)

Next ==
  /\ phase # "ended"
  /\ (\E u \in Commands : exec(u)) \/ stop \/ (\E n \in Nodes : Callback(n))

\* The event loop runs, and every connection attempt and every command ends:
\* with an answer or with an error.
Spec == Init /\ [][Next]_vars /\ \A n \in Nodes : WF_vars(phase # "ended" /\ Callback(n))
------------------------------------------------------------------------------
\* Where a command is: its places in pending_commands_, and in what has been
\* sent on the connections, be it itself or the ASKING it is kept behind.
Places(u) ==
  {<<NoNode, k>> : k \in {j \in DOMAIN cluster.pending : cluster.pending[j] = u}} \cup
  UNION {{<<n, k>> : k \in {j \in DOMAIN cluster.conns[n].queue :
                               cluster.conns[n].queue[j] \in {UserCmd(u), AskCmd(u)}}} : n \in Nodes}

\* Each accepted command is in one place: waiting for the slots, sent on one
\* connection or kept behind one ASKING.  So its callback is called once at
\* most, and exec() never finds it among the running commands, as it asserts.
HeldOnce ==
  phase # "ended" =>
    \A u \in Commands : Cardinality(Places(u)) = IF fate[u] = "accepted" THEN 1 ELSE 0

\* While the slots are being updated, and only then, there is one CLUSTER
\* SLOTS request, at the first of the nodes: the one that is dropped if it
\* fails, and the assertion in its callback holds.
OneSlotsRequest ==
  phase # "ended" =>
    LET asked == {n \in Nodes : SlotsCmd \in ToSet(cluster.conns[n].queue)} IN
    /\ asked = IF cluster.state = "updating" THEN {Min(cluster.nodes)} ELSE {}
    /\ \A n \in asked :
         Cardinality({k \in DOMAIN cluster.conns[n].queue : cluster.conns[n].queue[k] = SlotsCmd}) = 1

\* Every accepted command ends, however often it is redirected, unless no
\* node is left that could be asked for the slots or the client is stopped.
CommandsEnd ==
  \A u \in Commands :
    fate[u] = "accepted" ~> \/ fate[u] # "accepted"
                            \/ cluster.nodes = {} \/ Min(cluster.nodes) \in Unresolvable
                            \/ phase # "running"
=============================================================================
