------------------------------ MODULE MCClients ------------------------------
(***************************************************************************)
(* What a process talks to the outside with, side by side: the client of   *)
(* the redis cluster, the HTTP client, TCP connections and the file        *)
(* watcher.  A behaviour is one of them; kind says of which, and the       *)
(* others stay as they are at first.                                       *)
(*                                                                         *)
(* redis: three nodes, of which the third cannot be connected to, and two  *)
(* commands for different slots; CLUSTER SLOTS may leave a slot out.       *)
(***************************************************************************)
EXTENDS RedisCluster

CONSTANTS Handles, Contexts, Fds, MaxBody,          \* of RestClient
          ConnIds, MaxWrites,                       \* of TcpPeers
          Names, Inodes, MaxWd, MaxEvents           \* of FileWatcher

VARIABLES
  kind,
  transfer, owner, socketp, asked, handles, contexts, poll, armed, at, event,
  rsp_body, got, calls, restFailed,
  state, request, handle, connection, listening, connections, conn, tcpFailed, hasty,
  names, watches, last_wd, events, file2wd, wd2file, polling, batch, told, deleted, aliased

MCSlotOf == [u \in Commands |-> u]
MCLayouts == {[s \in {1} |-> 2], [s \in {1, 2} |-> s], [s \in {1, 2} |-> 3]}

Http == INSTANCE RestClient WITH failed <- restFailed
Tcp == INSTANCE TcpPeers WITH failed <- tcpFailed
Watcher == INSTANCE FileWatcher

\* The names the models have for no object, and for the places control can be
\* at, are none of the addresses.
HttpConstants ==
  /\ Http!None \notin Handles /\ Http!None \notin Contexts
  /\ "loop" \notin Handles /\ "curl" \notin Handles /\ "info" \notin Handles
ASSUME ClientConstants == HttpConstants /\ Tcp!None \notin ConnIds /\ MaxWrites \in Nat

restVars == <<transfer, owner, socketp, asked, handles, contexts, poll, armed, at, event,
              rsp_body, got, calls, restFailed>>
tcpVars == <<state, request, handle, connection, listening, connections, conn, tcpFailed, hasty>>
watcherVars == <<names, watches, last_wd, events, file2wd, wd2file, polling, batch, told, deleted, aliased>>
clientVars == <<kind, vars, restVars, tcpVars, watcherVars>>

ClientsInit ==
  /\ kind \in {"redis", "rest", "tcp", "watcher"}
  /\ Init /\ Http!Init /\ Tcp!Init /\ Watcher!Init
  /\ kind = "watcher" \/ names = [f \in Names |-> Watcher!None]

OnlyRedis == kind = "redis" /\ UNCHANGED <<kind, restVars, tcpVars, watcherVars>>

ClientsNext ==
  \/ OnlyRedis /\ Next
  \/ kind = "rest" /\ Http!Next /\ UNCHANGED <<kind, vars, tcpVars, watcherVars>>
  \/ kind = "tcp" /\ Tcp!Next /\ UNCHANGED <<kind, vars, restVars, watcherVars>>
  \/ kind = "watcher" /\ Watcher!Next /\ UNCHANGED <<kind, vars, restVars, tcpVars>>

\* Fairness is that of RedisCluster's Spec.
ClientsSpec ==
  /\ ClientsInit /\ [][ClientsNext]_clientVars
  /\ \A n \in Nodes : WF_clientVars(OnlyRedis /\ phase # "ended" /\ Callback(n))

\* What the HTTP client, the TCP classes and the file watcher keep true: each
\* request is answered once and none is forgotten (RequestsKept of
\* RestClient), connections have one owner until they are closed (PeersAgree
\* of TcpPeers), and the watcher's tables agree with the kernel's (WatchesAgree
\* of FileWatcher).
ClientsAreSound == Http!RequestsKept /\ Tcp!PeersAgree /\ Watcher!WatchesAgree
==============================================================================
