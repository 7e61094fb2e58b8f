------------------------------- MODULE BusLink -------------------------------
(***************************************************************************)
(* The link from one daemon to another: the sending endpoint and the       *)
(* receiving callbacks (bus/bus_router.cpp) over the TCP classes           *)
(* (core/tcp_client.cpp, tcp_server.cpp, tcp_connection.cpp, buffer.cpp).  *)
(* A message is a header and a body; a read brings any number of units of  *)
(* what is in the pipe.  The sending daemon may be restarted: its pipe     *)
(* ends, and the new process connects again.  The receiving daemon is in a *)
(* debug build, which ends with the first assertion that fails.            *)
(***************************************************************************)
EXTENDS Integers, Sequences, SequencesExt

CONSTANTS
  HeadUnits,   \* sizeof(bus_message)
  Messages,    \* messages to send: the length of the body, and whether it is for a third host
  ReadUnits,   \* size_hint, what a read asks for
  FirstUnits,  \* buffer::DEFAULT_BUFFER_SIZE
  MaxConns,    \* connections: starts of the sending daemon
  MaxSends     \* messages sent

VARIABLES
  client,   \* tcp_client::state_ of the endpoint; "failed" after an error
  seed,     \* endpoint::seed_
  queue,    \* host2queue_: messages until the connection is there
  conns,    \* the connections, the last of which is the endpoint's
  serving,  \* the connection whose read callback runs, or 0
  host2seq, \* the receiver's entry for the sending host
  broken,   \* an assertion of the receiver failed
  excuse,   \* connections overlapped, or a message was relayed
  sends

sender == <<client, seed, queue, sends>>
receiver == <<serving, host2seq, broken, excuse>>
vars == <<sender, receiver, conns>>

None == -1
Total(m) == HeadUnits + m.length
Units(m) == [i \in 1 .. Total(m) |-> [m |-> m, i |-> i]]
EmptyBuffer == [units |-> <<>>, rindex |-> 0, capacity |-> FirstUnits]

\* A tcp_connection, both ends: pipe is what is on its way, state the receiver's.
NewConn == [sent |-> <<>>, pipe |-> <<>>, end |-> "none",
            state |-> "backlog", incoming |-> EmptyBuffer, handled |-> <<>>]

Init ==
  /\ client = "disconnected" /\ seed = 0 /\ queue = <<>> /\ conns = <<>>
  /\ serving = 0 /\ host2seq = None /\ broken = FALSE /\ excuse = FALSE /\ sends = 0
------------------------------------------------------------------------------
(* buffer *)

windex(b) == b.rindex + Len(b.units)
Asserts(p) == broken' = (broken \/ ~p)

\* Mutant: the new area is as large as what is to be written.
GrownShort(b, n) == [b EXCEPT !.rindex = 0, !.capacity = n]

Grown(b, n) == [b EXCEPT !.rindex = 0, !.capacity = windex(b) + n]

\* ensure_space(): enough behind, or after moving the units to the front, or a
\* larger area
prepare(b, n) ==
  IF b.capacity - windex(b) >= n THEN b
  ELSE IF b.rindex + b.capacity - windex(b) >= n THEN [b EXCEPT !.rindex = 0]
  ELSE Grown(b, n)

commit(b, read) == [b EXCEPT !.units = @ \o read]

consume(b, n) ==
  [b EXCEPT !.units = SubSeq(@, n + 1, Len(@)), !.rindex = IF n >= Len(b.units) THEN 0 ELSE @ + n]
------------------------------------------------------------------------------
(* The sending daemon *)

Current == Len(conns)

\* endpoint::send() and tcp_connection::send(): numbered, hashed and written.
\* Nothing follows from the end of a write, on_server_message_sent() only logs it.
Write(c, m) == [c EXCEPT !.sent = Append(@, m),
                         !.pipe = IF c.end = "none" THEN @ \o Units(m) ELSE @]

Numbered(m, n) == [seq |-> n, length |-> m.length, far |-> m.far]

\* handle_message() for the other host: sent, or queued until the connection
\* is made, which the first message begins.
Send(m) ==
  /\ sends < MaxSends /\ sends' = sends + 1
  /\ IF client = "connected"
     THEN /\ queue = <<>>
          /\ conns' = [conns EXCEPT ![Current] = Write(@, Numbered(m, seed + 1))]
          /\ seed' = seed + 1 /\ UNCHANGED <<client, queue>>
     ELSE /\ queue' = Append(queue, m)
          /\ client' = IF client = "disconnected" THEN "connecting" ELSE client
          /\ UNCHANGED <<conns, seed>>
  /\ UNCHANGED receiver

\* tcp_client::on_connect() and on_server_connected(): the connection is there,
\* and one turn of the loop for each message that was queued sends it.
Connected ==
  /\ client = "connecting" /\ Current < MaxConns
  /\ client' = "connected" /\ seed' = 0 /\ conns' = Append(conns, NewConn)
  /\ UNCHANGED <<receiver, queue, sends>>

SendQueued ==
  /\ client = "connected" /\ queue # <<>> /\ queue' = Tail(queue)
  /\ conns' = [conns EXCEPT ![Current] = Write(@, Numbered(Head(queue), seed + 1))]
  /\ seed' = seed + 1 /\ UNCHANGED <<receiver, client, sends>>

ConnectFails ==
  /\ client = "connecting" /\ client' = "failed"
  /\ UNCHANGED <<seed, queue, sends, conns, receiver>>

\* The connection ends: after what is in the pipe, or with an error that drops
\* it.  The endpoint keeps it, and goes on writing to it.
Ended(c, how) == [c EXCEPT !.end = how, !.pipe = IF how = "error" THEN <<>> ELSE c.pipe]

Ends(how) ==
  /\ Current > 0 /\ conns[Current].end = "none"
  /\ conns' = [conns EXCEPT ![Current] = Ended(@, how)]

Break == Ends("error") /\ UNCHANGED <<sender, receiver>>

\* The sending daemon ends and is started again, with a new endpoint.
Restart ==
  /\ Ends("eof") \/ (Current > 0 /\ conns[Current].end # "none" /\ UNCHANGED conns)
  /\ client # "disconnected" /\ client' = "disconnected" /\ seed' = 0 /\ queue' = <<>>
  /\ UNCHANGED <<receiver, sends>>
------------------------------------------------------------------------------
(* The receiving daemon *)

Idle == ~broken /\ serving = 0

\* The buffer begins with a whole message.
Complete(b) == IF Len(b.units) < HeadUnits THEN FALSE ELSE Len(b.units) >= Total(Head(b.units).m)

\* tcp_server::on_accept() and on_client_connected(); the system accepts in order.
on_accept(c) ==
  /\ Idle /\ conns[c].state = "backlog"
  /\ \A d \in 1 .. c - 1 : conns[d].state # "backlog"
  /\ conns' = [conns EXCEPT ![c].state = "connected"]
  /\ host2seq' = 0
  /\ excuse' = (excuse \/ \E d \in 1 .. c - 1 : conns[d].state = "connected")
  /\ UNCHANGED <<sender, serving, broken>>

\* on_alloc() and on_read(): some units are read into the buffer.
Read(c, b, n) == [c EXCEPT !.incoming = commit(b, SubSeq(c.pipe, 1, n)), !.pipe = SubSeq(c.pipe, n + 1, Len(c.pipe))]

on_read(c, n) ==
  /\ Idle /\ conns[c].state = "connected" /\ n <= Len(conns[c].pipe)
  /\ serving' = c
  /\ \E b \in {prepare(conns[c].incoming, ReadUnits)} :
       /\ Asserts(windex(b) + n <= b.capacity)
       /\ conns' = [conns EXCEPT ![c] = Read(@, b, n)]
  /\ UNCHANGED <<sender, host2seq, excuse>>

\* One turn of the loop of on_client_message_received(), for a message that is
\* complete.  A message for a third
\* host is converted by endpoint::send() in place, so that consume() is given
\* a length in network order.
Handled(c, m) == [c EXCEPT !.handled = Append(c.handled, m), !.incoming = consume(c.incoming, Total(m))]

on_message(c) ==
  /\ ~broken /\ serving = c /\ Complete(conns[c].incoming)
  /\ LET b == conns[c].incoming
         m == Head(b.units).m
     IN  /\ Asserts(SubSeq(b.units, 1, Total(m)) = Units(m) /\ host2seq # None
                    /\ m.seq = host2seq + 1 /\ ~m.far)
         /\ host2seq' = m.seq /\ excuse' = (excuse \/ m.far)
         /\ conns' = [conns EXCEPT ![c] = Handled(@, m)]
  /\ UNCHANGED <<sender, serving>>

\* The loop ends when no whole message is left.
read_done(c) ==
  /\ ~broken /\ serving = c /\ ~Complete(conns[c].incoming)
  /\ serving' = 0
  /\ UNCHANGED <<sender, host2seq, broken, excuse, conns>>

\* The end of the connection is read: tcp_connection::close(), on_close() and
\* tcp_server::remove_connection(), and the host's entry is erased.
on_end(c) ==
  /\ Idle /\ conns[c].state = "connected" /\ conns[c].end # "none" /\ conns[c].pipe = <<>>
  /\ conns' = [conns EXCEPT ![c].state = "disconnected"]
  /\ Asserts(host2seq # None) /\ host2seq' = None
  /\ UNCHANGED <<sender, serving, excuse>>

Next ==
  \/ \E m \in Messages : Send(m)
  \/ Connected \/ SendQueued \/ ConnectFails \/ Break \/ Restart
  \/ \E c \in 1 .. Len(conns) :
       on_accept(c) \/ on_message(c) \/ read_done(c) \/ on_end(c) \/ \E n \in 1 .. ReadUnits : on_read(c, n)

Spec == Init /\ [][Next]_vars
------------------------------------------------------------------------------
\* However the bytes of messages are cut into reads, the receiver handles the
\* messages of a connection as they were sent, in order and without a gap.
\* Its assertions, on the buffer and on sequence numbers, hold unless a new
\* connection of the host overlaps its old one or a message is relayed.
LinkIsSound ==
  /\ broken => excuse
  /\ \A c \in 1 .. Len(conns) : IsPrefix(conns[c].handled, conns[c].sent)

(* The inductive invariant of LinkIsSound                                   *)

Message == [seq : Nat, length : Nat, far : BOOLEAN]
Unit == [m : Message, i : Nat]
Buffer == [units : Seq(Unit), rindex : Nat, capacity : Nat]
Connection ==
  [sent : Seq(Message), pipe : Seq(Unit), end : {"none", "eof", "error"},
   state : {"backlog", "connected", "disconnected"}, incoming : Buffer, handled : Seq(Message)]

Types ==
  /\ client \in {"disconnected", "connecting", "connected", "failed"}
  /\ seed \in Nat /\ queue \in Seq(Messages) /\ conns \in Seq(Connection)
  /\ serving \in Nat /\ host2seq \in Nat \cup {None} /\ broken \in BOOLEAN /\ excuse \in BOOLEAN

\* Units s of messages of sent, from the one after the k-th on: whole messages
\* one after the other, but for the last one of a connection that has ended.
Chain(s, sent, k, ended) ==
  /\ \A x \in 1 .. Len(s) :
       /\ s[x].i \in 1 .. Total(s[x].m) /\ s[x].m.seq \in 1 .. Len(sent) /\ s[x].m = sent[s[x].m.seq]
  /\ \A x, y \in 1 .. Len(s) :
       x <= y /\ s[x].i + (y - x) <= Total(s[x].m) => s[y].m = s[x].m /\ s[y].i = s[x].i + (y - x)
  /\ \A x, y \in 1 .. Len(s) :
       y = x + 1 /\ s[x].i = Total(s[x].m) => s[y].i = 1 /\ s[y].m.seq = s[x].m.seq + 1
  /\ s # <<>> => s[1].i = 1 /\ s[1].m.seq = k + 1
  /\ ~ended /\ s = <<>> => k = Len(sent)
  /\ ~ended /\ s # <<>> => s[Len(s)].i = Total(s[Len(s)].m) /\ s[Len(s)].m.seq = Len(sent)

\* One connection: its messages are numbered from 1, the first of them are
\* handled, the rest is in the buffer and the pipe.
Carries(c) ==
  /\ windex(c.incoming) <= c.incoming.capacity
  /\ \A j \in 1 .. Len(c.sent) : c.sent[j].seq = j
  /\ Len(c.handled) <= Len(c.sent) /\ \A j \in 1 .. Len(c.handled) : c.handled[j] = c.sent[j]
  /\ Chain(c.incoming.units \o c.pipe, c.sent, Len(c.handled), c.end # "none")
  /\ c.state = "backlog" => c.handled = <<>>

\* Without an excuse one connection is served at a time, whose next message
\* has the number that is expected.
InTurn ==
  /\ ~broken
  /\ \A c \in 1 .. Len(conns) : conns[c].state = "connected" => host2seq = Len(conns[c].handled)
  /\ \A c, d \in 1 .. Len(conns) : conns[c].state = "connected" /\ conns[d].state = "connected" => c = d

IInv ==
  /\ Types
  /\ client = "connected" => Current > 0 /\ seed = Len(conns[Current].sent)
  /\ \A c \in 1 .. Len(conns) : Carries(conns[c])
  /\ \A c, d \in 1 .. Len(conns) : c < d /\ conns[c].state = "backlog" => conns[d].state = "backlog"
  /\ serving # 0 => serving \in 1 .. Len(conns) /\ conns[serving].state = "connected"
  /\ excuse \/ InTurn
=============================================================================
