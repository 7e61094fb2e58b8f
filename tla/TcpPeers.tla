------------------------------ MODULE TcpPeers ------------------------------
(***************************************************************************)
(* The life of TCP connections (core/tcp_client.cpp, tcp_server.cpp,       *)
(* tcp_connection.cpp) over libuv: one client and one server of a process, *)
(* each with its connections.  What libuv does at once and what it calls   *)
(* back for later are apart: a handle that is closed still has its writes  *)
(* and its connect request called back, and then its own callback.         *)
(*                                                                         *)
(* A debug build, which ends with the first assertion that fails.  A       *)
(* connection is destroyed when its client or server lets go of it.        *)
(***************************************************************************)
EXTENDS Integers, Sequences, FiniteSets

CONSTANTS
  ConnIds,    \* addresses of connections
  MaxWrites   \* bound: writes of a connection that libuv has not finished

VARIABLES
  state,       \* tcp_client::state_
  request,     \* libuv's connect request: "none", "open", or "closed" by stop()
  handle,      \* tcp_client::handle_ is set
  connection,  \* tcp_client::connection_, or None
  listening,   \* the server's handle: "none", "listening" or "closed"
  connections, \* tcp_server::connections_
  conn,        \* the connections
  failed,      \* an assertion failed
  hasty        \* connect() came between stop() and the callback it cancels

clientVars == <<state, request, handle, connection, hasty>>
serverVars == <<listening, connections>>
tcpVars == <<clientVars, serverVars, conn, failed>>

None == "none"

\* A tcp_connection, with libuv's queue of its writes, which are numbered to tell
\* them apart
Free == [state |-> "free", outgoing |-> <<>>, writes |-> <<>>, number |-> 0]
Fresh == [Free EXCEPT !.state = "connected"]

Asserts(p) == failed' = (failed \/ ~p)

Init ==
  /\ state = "disconnected" /\ request = "none" /\ handle = FALSE /\ connection = None
  /\ listening = "none" /\ connections = {}
  /\ conn = [c \in ConnIds |-> Free] /\ failed = FALSE /\ hasty = FALSE
-----------------------------------------------------------------------------
(* tcp_connection *)

\* send(): refused by the state or by uv_write(), or queued
send(c) ==
  /\ ~failed /\ conn[c].state = "connected" /\ Len(conn[c].writes) < MaxWrites
  /\ LET n == (conn[c].number + 1) % (MaxWrites + 1)
     IN  conn' = [conn EXCEPT ![c].outgoing = Append(@, n), ![c].writes = Append(@, n), ![c].number = n]
  /\ UNCHANGED <<clientVars, serverVars, failed>>

\* close() of connections: those that are connected
Closed(cs) == [c \in ConnIds |-> IF c \in cs /\ conn[c].state = "connected"
                                 THEN [conn[c] EXCEPT !.state = "disconnecting"] ELSE conn[c]]

\* The user closes a connection: it has read the end, or wants no more.
close(c) ==
  /\ ~failed /\ conn[c].state = "connected"
  /\ conn' = Closed({c})
  /\ UNCHANGED <<clientVars, serverVars, failed>>

\* libuv finishes writes in their order, or cancels them once the handle is closed.
on_write(c) ==
  /\ ~failed /\ conn[c].writes # <<>>
  /\ IF conn[c].outgoing = <<>> THEN Asserts(FALSE) /\ UNCHANGED conn
     ELSE /\ Asserts(Head(conn[c].outgoing) = Head(conn[c].writes))
          /\ conn' = [conn EXCEPT ![c].outgoing = Tail(@), ![c].writes = Tail(@)]
  /\ UNCHANGED <<clientVars, serverVars>>

Removed == "disconnected"

\* remove_connection() of the server
server_removes(c) == connections' = connections \ {c}

\* libuv has closed the handle; on_close() and remove_connection() of the owner,
\* after which nothing holds the connection.
on_close(c) ==
  /\ ~failed /\ conn[c].state = "disconnecting" /\ conn[c].writes = <<>>
  /\ conn' = [conn EXCEPT ![c] = Free]
  /\ IF c \in connections
     THEN server_removes(c) /\ UNCHANGED <<clientVars, listening, failed>>
     ELSE /\ Asserts(c = connection) /\ state' = Removed /\ connection' = None
          /\ UNCHANGED <<request, handle, hasty, serverVars>>
-----------------------------------------------------------------------------
(* tcp_client *)

\* connect(); in another state it does nothing.
connect ==
  /\ ~failed /\ state = "disconnected"
  /\ Asserts(~handle) /\ hasty' = (hasty \/ handle)
  /\ \/ state' = "connecting" /\ request' = "open" /\ handle' = TRUE
     \/ UNCHANGED <<state, request>> /\ handle' = FALSE   \* uv_tcp_init() or uv_tcp_connect() fails
  /\ UNCHANGED <<connection, serverVars, conn>>

\* stop() of the client
client_stop ==
  /\ ~failed /\ state # "disconnected"
  /\ IF state = "connecting"
     THEN /\ request' = "closed" /\ state' = "disconnected"
          /\ UNCHANGED <<handle, connection, hasty, conn, failed>>
     ELSE /\ Asserts(connection # None) /\ conn' = Closed({connection})
          /\ UNCHANGED clientVars
  /\ UNCHANGED serverVars

\* on_connect() with an error, which is what a request gets that was closed
on_connect_error ==
  /\ ~failed /\ request # "none" /\ request' = "none"
  /\ Asserts(handle)
  /\ state' = "disconnected" /\ handle' = FALSE
  /\ UNCHANGED <<connection, hasty, serverVars, conn>>

on_connect(c) ==
  /\ ~failed /\ request = "open" /\ request' = "none"
  /\ Asserts(handle)
  /\ conn[c].state = "free" /\ conn' = [conn EXCEPT ![c] = Fresh]
  /\ state' = "connected" /\ handle' = FALSE /\ connection' = c
  /\ UNCHANGED <<hasty, serverVars>>
-----------------------------------------------------------------------------
(* tcp_server *)

\* start(), which may fail at each call
start ==
  /\ ~failed /\ listening = "none" /\ listening' = "listening"
  /\ UNCHANGED <<clientVars, connections, conn, failed>>

\* on_accept() without an error; with one it only says so.
on_accept(c) ==
  /\ ~failed /\ listening = "listening"
  /\ conn[c].state = "free" /\ conn' = [conn EXCEPT ![c] = Fresh]
  /\ connections' = connections \cup {c}
  /\ UNCHANGED <<clientVars, listening, failed>>

\* stop() of the server
server_stop ==
  /\ ~failed /\ listening = "listening" /\ listening' = "closed"
  /\ conn' = Closed(connections)
  /\ UNCHANGED <<clientVars, connections, failed>>

Next ==
  \/ \E c \in ConnIds : send(c) \/ close(c) \/ on_write(c) \/ on_close(c) \/ on_connect(c) \/ on_accept(c)
  \/ connect \/ client_stop \/ on_connect_error \/ start \/ server_stop
-----------------------------------------------------------------------------
Alive == {c \in ConnIds : conn[c].state # "free"}

\* Whatever the order of stops, closes, failures and callbacks: a connection
\* has one owner from its first callback to its last, the client's state says
\* whether it has one, writes are called back in the order of outgoing_, and
\* the assertions hold, unless connect() is called after a stop() whose
\* cancelled request has not been called back.  After the server's stop()
\* nothing but connections that are closing is left of it.
PeersAgree ==
  /\ failed => hasty
  /\ Alive = connections \cup ({connection} \ {None}) /\ connection \notin connections
  /\ state = "connected" <=> connection # None
  /\ request = "open" <=> state = "connecting"
  /\ listening = "closed" => \A c \in connections : conn[c].state = "disconnecting"

\* With it: libuv has the writes of outgoing_, in their order, and as long as no
\* assertion has failed handle_ is set while a request is to be called back,
\* a closed one only for a client that says it is disconnected.
Connection == [state : {"free", "connected", "disconnecting"},
               outgoing : Seq(Int), writes : Seq(Int), number : Int]
IInv ==
  /\ connection \in ConnIds \cup {None} /\ connections \subseteq ConnIds /\ conn \in [ConnIds -> Connection]
  /\ \A c \in ConnIds : conn[c].outgoing = conn[c].writes
  /\ failed \in BOOLEAN /\ state \in {"disconnected", "connecting", "connected"}
  /\ request \in {"none", "open", "closed"}
  /\ ~failed => (handle <=> request # "none") /\ (request = "closed" => state = "disconnected")
  /\ PeersAgree
=============================================================================
