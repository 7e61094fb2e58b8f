----------------------------- MODULE RestClient -----------------------------
(***************************************************************************)
(* The HTTP client (core/rest_client.cpp) between libcurl's multi          *)
(* interface and the event loop.  libcurl tells the client which sockets   *)
(* to poll and when to call back; the client has one poll_context for a    *)
(* socket and one heap_timer.  A finished transfer is a message that       *)
(* check_multi_info() turns into the call of the request's callback.       *)
(*                                                                         *)
(* Handles and contexts are addresses, which are used again once freed.    *)
(* The client's owner calls it from the loop or, for new requests, from a  *)
(* callback; stop() in a callback would free the handle twice.             *)
(***************************************************************************)
EXTENDS Integers

CONSTANTS
  Handles,   \* addresses curl_easy_init() may return
  Contexts,  \* addresses of poll_contexts
  Fds,       \* sockets
  MaxBody    \* pieces of a response body

VARIABLES
  transfer,  \* libcurl, per handle: "free", "running", "done" (curl_multi_info_read()
             \* has a message of it) or "told"
  owner,     \* libcurl: the transfer that uses a socket, or None
  socketp,   \* libcurl: the pointer curl_multi_assign() left with a socket, or None
  asked,     \* libcurl: a timer is wanted
  handles,   \* handles_
  contexts,  \* contexts_
  poll,      \* per context: "free", "polling" or "closing"
  armed,     \* timer_ is active
  at,        \* "loop", "curl" (in curl_multi_socket_action), "info" (in check_multi_info) or a handle whose callback runs
  event,     \* the context whose on_event() runs, or None
  rsp_body,  \* per handle, as long as its http_context lives: the pieces received
  got,       \* the pieces libcurl has delivered on it
  calls,     \* how often its callback was called
  failed     \* an sk_assert failed

curl == <<transfer, owner, socketp, asked>>
client == <<handles, contexts, poll, armed>>
http == <<rsp_body, got, calls>>
vars == <<curl, client, at, event, http, failed>>

None == "none"
Asserts(p) == failed' = (failed \/ ~p)

Init ==
  /\ transfer = [h \in Handles |-> "free"] /\ asked = FALSE
  /\ owner = [f \in Fds |-> None] /\ socketp = [f \in Fds |-> None]
  /\ handles = {} /\ contexts = {} /\ poll = [x \in Contexts |-> "free"] /\ armed = FALSE
  /\ at = "loop" /\ event = None
  /\ rsp_body = [h \in Handles |-> 0] /\ got = [h \in Handles |-> 0]
  /\ calls = [h \in Handles |-> 0] /\ failed = FALSE
-----------------------------------------------------------------------------
\* create_handle(): a handle with a new http_context
create_handle(h) ==
  /\ transfer[h] = "free" /\ transfer' = [transfer EXCEPT ![h] = "running"]
  /\ rsp_body' = [rsp_body EXCEPT ![h] = 0] /\ got' = [got EXCEPT ![h] = 0]
  /\ calls' = [calls EXCEPT ![h] = 0]

\* get(), del(), put() and post(), from the loop or from a callback: libcurl asks
\* for a timer at once.
Request(h) ==
  /\ at = "loop" \/ at \in Handles
  /\ create_handle(h)
  /\ asked' = TRUE /\ armed' = TRUE
  /\ Asserts(h \notin handles) /\ handles' = handles \cup {h}
  /\ UNCHANGED <<owner, socketp, contexts, poll, at, event>>

\* handle_socket() with CURL_POLL_REMOVE, for the sockets fs
RemoveSockets(fs) ==
  LET dropped == {socketp[f] : f \in fs} \ {None}
  IN  /\ owner' = [f \in Fds |-> IF f \in fs THEN None ELSE owner[f]]
      /\ socketp' = [f \in Fds |-> IF f \in fs THEN None ELSE socketp[f]]
      /\ contexts' = contexts \ dropped
      /\ poll' = [x \in Contexts |-> IF x \in dropped THEN "closing" ELSE poll[x]]

\* curl_multi_remove_handle() and curl_easy_cleanup() of the handles hs
CleanUp(hs) ==
  /\ transfer' = [h \in Handles |-> IF h \in hs THEN "free" ELSE transfer[h]]
  /\ RemoveSockets({f \in Fds : owner[f] \in hs})

\* heap_timer: stop(), and the timeout of a timer that was started once
timer_stop == armed' = FALSE
timer_fires == armed /\ armed' = FALSE

stop ==
  /\ at = "loop"
  /\ CleanUp(handles) /\ handles' = {}
  /\ timer_stop /\ asked' = FALSE
  /\ UNCHANGED <<at, event, http, failed>>
-----------------------------------------------------------------------------
(* The callbacks of the loop *)

on_timeout ==
  /\ at = "loop" /\ timer_fires
  /\ asked' = FALSE /\ at' = "curl"
  /\ UNCHANGED <<transfer, owner, socketp, handles, contexts, poll, event, http, failed>>

on_event(x) ==
  /\ at = "loop" /\ poll[x] = "polling"
  /\ Asserts(x \in contexts)
  /\ at' = "curl" /\ event' = x
  /\ UNCHANGED <<curl, client, http>>

on_close(x) ==
  /\ at = "loop" /\ poll[x] = "closing"
  /\ Asserts(x \notin contexts)
  /\ poll' = [poll EXCEPT ![x] = "free"]
  /\ UNCHANGED <<curl, handles, contexts, armed, at, event, http>>
-----------------------------------------------------------------------------
(* What libcurl calls in curl_multi_socket_action() *)

\* handle_socket() to poll a socket, which a transfer begins or goes on to use
PollSocket(f, h) ==
  /\ at = "curl" /\ transfer[h] = "running" /\ owner[f] \in {None, h}
  /\ \A g \in Fds \ {f} : owner[g] # h
  /\ owner' = [owner EXCEPT ![f] = h]
  /\ IF socketp[f] # None
     THEN UNCHANGED <<socketp, contexts, poll, failed>>
     ELSE \E x \in Contexts :
            /\ poll[x] = "free" /\ poll' = [poll EXCEPT ![x] = "polling"]
            /\ Asserts(x \notin contexts) /\ contexts' = contexts \cup {x}
            /\ socketp' = [socketp EXCEPT ![f] = x]
  /\ UNCHANGED <<transfer, asked, handles, armed, at, event, http>>

\* A transfer gives up its socket: it ends, or tries another address.
DropSocket(f) ==
  /\ at = "curl" /\ owner[f] # None
  /\ RemoveSockets({f})
  /\ UNCHANGED <<transfer, asked, handles, armed, at, event, http, failed>>

start_timer(wanted) == armed' = wanted

SetTimer(wanted) ==
  /\ at = "curl" /\ asked' = wanted
  /\ start_timer(wanted)
  /\ UNCHANGED <<transfer, owner, socketp, handles, contexts, poll, at, event, http, failed>>

\* on_header() and on_body(): a piece of the response
on_body(h) ==
  /\ at = "curl" /\ transfer[h] = "running" /\ got[h] < MaxBody
  /\ got' = [got EXCEPT ![h] = @ + 1] /\ rsp_body' = [rsp_body EXCEPT ![h] = @ + 1]
  /\ UNCHANGED <<curl, client, at, event, calls, failed>>

\* A transfer ends, with or without success, and keeps its socket until it is removed.
TransferEnds(h) ==
  /\ at = "curl" /\ transfer[h] = "running"
  /\ transfer' = [transfer EXCEPT ![h] = "done"]
  /\ UNCHANGED <<owner, socketp, asked, client, at, event, http, failed>>

\* libcurl returns with a socket or a timer for each transfer that goes on.
CurlReturns ==
  /\ at = "curl"
  /\ asked \/ \A h \in Handles : transfer[h] = "running" => \E f \in Fds : owner[f] = h
  /\ at' = "info"
  /\ UNCHANGED <<curl, client, event, http, failed>>
-----------------------------------------------------------------------------
(* check_multi_info() *)

\* libcurl gives the messages in an order of its own.
CallBack(h) ==
  /\ at = "info" /\ transfer[h] = "done"
  /\ at' = h
  /\ transfer' = [transfer EXCEPT ![h] = "told"]
  /\ calls' = [calls EXCEPT ![h] = @ + 1]
  /\ UNCHANGED <<owner, socketp, asked, client, event, rsp_body, got, failed>>

\* Mutant: the handle that was cleaned up stays in handles_.
EraseNot(h) == UNCHANGED handles

Erase(h) == handles' = handles \ {h}

\* The callback returns: the handle is erased, removed and cleaned up.
CalledBack ==
  /\ at \in Handles
  /\ Erase(at) /\ CleanUp({at})
  /\ at' = "info"
  /\ UNCHANGED <<asked, armed, event, http, failed>>

InfoEnds ==
  /\ at = "info" /\ \A h \in Handles : transfer[h] # "done"
  /\ at' = "loop" /\ event' = None
  /\ UNCHANGED <<curl, client, http, failed>>

Next ==
  \/ \E h \in Handles : Request(h) \/ on_body(h) \/ TransferEnds(h) \/ CallBack(h) \/ \E f \in Fds : PollSocket(f, h)
  \/ \E f \in Fds : DropSocket(f)
  \/ \E x \in Contexts : on_event(x) \/ on_close(x)
  \/ \E wanted \in BOOLEAN : SetTimer(wanted)
  \/ stop \/ on_timeout \/ CurlReturns \/ CalledBack \/ InfoEnds
-----------------------------------------------------------------------------
Polled == {f \in Fds : owner[f] # None}

\* handles_ has the handles that are not cleaned up, no more, so that stop()
\* frees each once and forgets none; a request's callback is called once at
\* most, with its whole response, and not after stop().  Each socket libcurl
\* wants polled has a context of its own, and no other context is in
\* contexts_; the one on_event() works with is not deleted meanwhile.  Between
\* callbacks every transfer has something that wakes it up: a socket, or the
\* timer libcurl asked for.  When no request is left the assertions of the
\* destructor hold.
RequestsKept ==
  /\ ~failed
  /\ handles = {h \in Handles : transfer[h] # "free"}
  /\ \A h \in Handles :
       /\ transfer[h] # "free" => calls[h] = (IF transfer[h] = "told" THEN 1 ELSE 0)
       /\ transfer[h] = "told" <=> at = h
       /\ at = h => rsp_body[h] = got[h]
  /\ contexts = {socketp[f] : f \in Polled} /\ \A f \in Polled, g \in Polled : socketp[f] = socketp[g] => f = g
  /\ contexts = {x \in Contexts : poll[x] = "polling"}
  /\ event # None => poll[event] # "free"
  /\ at = "loop" => \A h \in Handles : transfer[h] = "running" => armed \/ \E f \in Fds : owner[f] = h
  /\ at = "loop" /\ handles = {} => contexts = {}

\* What it rests on: the requests are where check_multi_info() and stop() take
\* them to be; a socket has an owner as long as it has a context, which no
\* other socket has; and outside libcurl every transfer that runs is waited
\* for, at callbacks too.
RequestsAgree ==
  /\ transfer \in [Handles -> {"free", "running", "done", "told"}]
  /\ calls \in [Handles -> Int] /\ got \in [Handles -> Int] /\ rsp_body = got
  /\ handles = {h \in Handles : transfer[h] # "free"}
  /\ \A h \in Handles :
       /\ transfer[h] # "free" => calls[h] = (IF transfer[h] = "told" THEN 1 ELSE 0)
       /\ transfer[h] = "told" <=> at = h
SocketsAgree ==
  /\ owner \in [Fds -> Handles \cup {None}] /\ socketp \in [Fds -> Contexts \cup {None}]
  /\ poll \in [Contexts -> {"free", "polling", "closing"}]
  /\ \A f \in Fds : owner[f] = None <=> socketp[f] = None
  /\ \A f \in Polled, g \in Polled : socketp[f] = socketp[g] => f = g
  /\ contexts = {socketp[f] : f \in Polled} /\ contexts = {x \in Contexts : poll[x] = "polling"}
Awaited ==
  /\ asked => armed
  /\ at # "curl" => \A h \in Handles : transfer[h] = "running" => armed \/ \E f \in Fds : owner[f] = h
  /\ \A f \in Polled : transfer[owner[f]] # "free"
  /\ at = "loop" => event = None
  /\ event # None => event \in Contexts /\ poll[event] # "free"
IInv ==
  /\ at \in {"loop", "curl", "info"} \cup Handles /\ failed = FALSE
  /\ RequestsAgree /\ SocketsAgree /\ Awaited
=============================================================================
