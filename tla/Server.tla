------------------------------- MODULE Server -------------------------------
(***************************************************************************)
(* The life of a server process (server/server.h) with its signal watcher  *)
(* (core/signal_watcher.cpp) and stop timer (time/heap_timer.cpp): init(), *)
(* the event loop, the handling of signals, stop, hotfix and fini(), and   *)
(* the next start.  A signal that comes while it is not blocked has its    *)
(* default action, which ends the process.                                 *)
(***************************************************************************)
EXTENDS Integers, FiniteSets

CONSTANTS
  MaxStarts,          \* starts of the process
  MaxMsgs,            \* messages the bus delivers
  MaxKills,           \* other signals that are sent
  MaxStopTries,       \* times on_stop() is called before it returns 0
  MAX_MSG_PER_PROC

VARIABLES
  phase,      \* where the process is
  watched,    \* signals are blocked and read from the descriptor
  polling,    \* the loop waits for the descriptor
  reading,    \* on_signal() reads signals
  pending,    \* signals that were sent and not read
  incoming,   \* BUS_INCOMING signals that were sent and not read: these queue up
  stop_timer, \* "none", "armed" or "over"
  tries,      \* calls of on_stop() so far
  agreed,     \* the last of them returned 0
  hotfixing,
  shm,        \* the shared memory exists
  bus,        \* the bus id is registered
  msgs,       \* messages in the channel
  sent,       \* messages delivered so far
  kills,      \* signals sent so far
  starts

signals == <<pending, incoming>>
shared == <<shm, bus, msgs, sent>>
stopping == <<stop_timer, tries, agreed, hotfixing>>
watcher == <<watched, polling, reading>>
counts == <<kills, starts>>
vars == <<phase, watcher, signals, stopping, shared, counts>>

Stops == {"TERM", "INT"}            \* SIGQUIT is as these
Signals == Stops \cup {"USR1", "USR2"}
Ended == {"down", "done", "failed", "killed", "aborted"}

Init ==
  /\ phase = "down" /\ watched = FALSE /\ polling = FALSE /\ reading = FALSE
  /\ pending = {} /\ incoming = 0
  /\ stop_timer = "none" /\ tries = 0 /\ agreed = FALSE /\ hotfixing = FALSE
  /\ shm = FALSE /\ bus = FALSE /\ msgs = 0 /\ sent = 0 /\ kills = 0 /\ starts = 0

\* A new process: only what is shared is left of the last.
Start ==
  /\ phase \in Ended /\ starts < MaxStarts
  /\ phase' = "init" /\ starts' = starts + 1
  /\ watched' = FALSE /\ polling' = FALSE /\ reading' = FALSE
  /\ pending' = {} /\ incoming' = 0
  /\ stop_timer' = "none" /\ tries' = 0 /\ agreed' = FALSE /\ hotfixing' = FALSE
  /\ UNCHANGED <<shared, kills>>

\* init_buf(), the last step of init() before anything is shared; those before
\* it are OptionParser and Loggers.
init_buf ==
  /\ phase = "init" /\ phase' \in {"init_shm", "failed"}
  /\ UNCHANGED <<watcher, signals, stopping, shared, counts>>

\* init_shm(): created if it is not there, resumed if it is and --resume was
\* given; otherwise init() fails and the process ends.
init_shm ==
  /\ phase = "init_shm"
  /\ \E resume \in BOOLEAN :
       /\ phase' = IF resume = shm THEN "lock_pid" ELSE "failed"
       /\ shm' = (shm \/ ~resume)
  /\ UNCHANGED <<watcher, signals, stopping, bus, msgs, sent, counts>>

\* make_daemon(), lock_pid() and write_pid(): the memory stays when they fail.
lock_pid ==
  /\ phase = "lock_pid" /\ phase' \in {"register_bus", "failed"}
  /\ UNCHANGED <<watcher, signals, stopping, shared, counts>>

register_bus ==
  /\ phase = "register_bus"
  /\ \/ phase' = "watch_signal" /\ bus' = TRUE
     \/ phase' = "failed" /\ UNCHANGED bus
  /\ UNCHANGED <<watcher, signals, stopping, shm, msgs, sent, counts>>

\* create_loop(), and the descriptor of the watcher, for no signal yet
create_watcher ==
  /\ phase = "watch_signal" /\ phase' \in {"watch", "failed"}
  /\ UNCHANGED <<watcher, signals, stopping, shared, counts>>

\* The signals are blocked, all at once here; when this fails for the first of
\* them, none is.
watch_signal ==
  /\ phase = "watch"
  /\ \/ phase' = "start_watcher" /\ watched' = TRUE
     \/ phase' = "failed" /\ UNCHANGED watched
  /\ UNCHANGED <<polling, reading, signals, stopping, shared, counts>>

\* signal_watcher::start
start_watcher ==
  /\ phase = "start_watcher"
  /\ \/ phase' = "on_init" /\ polling' = TRUE
     \/ phase' = "failed" /\ UNCHANGED polling
  /\ UNCHANGED <<watched, reading, signals, stopping, shared, counts>>

\* on_init(), which may fail: what was set up before is left as it is.
on_init ==
  /\ phase = "on_init" /\ phase' \in {"loop", "failed"}
  /\ UNCHANGED <<watcher, signals, stopping, shared, counts>>
------------------------------------------------------------------------------
(* The event loop *)

on_signal_event ==
  /\ phase = "loop" /\ ~hotfixing /\ polling /\ ~reading /\ (pending # {} \/ incoming > 0)
  /\ reading' = TRUE
  /\ UNCHANGED <<phase, watched, polling, signals, stopping, shared, counts>>

Reads(s) == reading /\ s \in pending /\ pending' = pending \ {s}

\* Mutant: the descriptor is still polled.
StopPollingNot == UNCHANGED polling

\* signal_watcher::stop
StopPolling == polling' = FALSE

\* stop(): the assertion that there is no timer yet, and a timer for on_stop().
stop(s) ==
  /\ Reads(s)
  /\ IF stop_timer # "none"
     THEN phase' = "aborted" /\ UNCHANGED <<polling, stop_timer>>
     ELSE StopPolling /\ stop_timer' = "armed" /\ UNCHANGED phase
  /\ UNCHANGED <<watched, reading, incoming, tries, agreed, hotfixing, shared, counts>>

\* reload() changes nothing that matters here.
reload ==
  /\ Reads("USR1")
  /\ UNCHANGED <<phase, watcher, incoming, stopping, shared, counts>>

\* The loop is told to end.
hotfix ==
  /\ Reads("USR2") /\ hotfixing' = TRUE
  /\ UNCHANGED <<phase, watcher, incoming, stop_timer, tries, agreed, shared, counts>>

recv_bus_msg ==
  /\ reading /\ incoming > 0 /\ incoming' = incoming - 1
  /\ msgs' = IF msgs > MAX_MSG_PER_PROC THEN msgs - MAX_MSG_PER_PROC ELSE 0
  /\ UNCHANGED <<phase, watcher, pending, stopping, shm, bus, sent, counts>>

\* There is nothing more to read.
ReadEnds ==
  /\ reading /\ pending = {} /\ incoming = 0 /\ phase = "loop"
  /\ reading' = FALSE
  /\ UNCHANGED <<phase, watched, polling, signals, stopping, shared, counts>>

\* Mutant: on_stop() is asked once.
RearmNot == stop_timer' = "over"

\* start_once() of the timer that has just fired
Rearm == stop_timer' = "armed"

\* on_stop() returns 0, or is called again later.
on_stop_timeout ==
  /\ phase = "loop" /\ ~hotfixing /\ ~reading /\ stop_timer = "armed"
  /\ tries' = tries + 1
  /\ agreed' \in BOOLEAN /\ (tries' = MaxStopTries => agreed')
  /\ IF agreed' THEN stop_timer' = "over" ELSE Rearm
  /\ UNCHANGED <<phase, watcher, signals, hotfixing, shared, counts>>

\* uv_run() returns: it was stopped, or has no active handle any more.
RunEnds ==
  /\ phase = "loop" /\ ~reading
  /\ hotfixing \/ (~polling /\ stop_timer # "armed")
  /\ phase' = "fini"
  /\ UNCHANGED <<watcher, signals, stopping, shared, counts>>
------------------------------------------------------------------------------
(* fini() *)

\* on_fini() is called unless hotfixing; then the watcher is deleted, which
\* unblocks its signals: what is pending takes its default action.
delete_sig_watcher ==
  /\ phase = "fini"
  /\ watched' = FALSE /\ polling' = FALSE
  /\ phase' = IF pending # {} \/ incoming > 0 THEN "killed"
              ELSE IF hotfixing THEN "done" ELSE "deregister_bus"
  /\ UNCHANGED <<reading, signals, stopping, shared, counts>>

\* The channels are closed, with the messages in them.
deregister_bus ==
  /\ phase = "deregister_bus" /\ phase' = "shm_fini"
  /\ bus' = FALSE /\ msgs' = 0
  /\ UNCHANGED <<watcher, signals, stopping, shm, sent, counts>>

shm_fini ==
  /\ phase = "shm_fini" /\ phase' = "done"
  /\ shm' = FALSE
  /\ UNCHANGED <<watcher, signals, stopping, bus, msgs, sent, counts>>
------------------------------------------------------------------------------
(* The outside *)

\* A signal to the process: blocked ones become pending.
Kill(s) ==
  /\ phase \notin Ended /\ kills < MaxKills /\ kills' = kills + 1
  /\ IF watched THEN pending' = pending \cup {s} /\ UNCHANGED phase
     ELSE phase' = "killed" /\ UNCHANGED pending
  /\ UNCHANGED <<watcher, incoming, stopping, shared, starts>>

\* The daemon delivers a message to a registered bus id and signals its
\* process, if there is one.
Deliver ==
  /\ bus /\ sent < MaxMsgs /\ sent' = sent + 1 /\ msgs' = msgs + 1
  /\ CASE phase \in Ended -> UNCHANGED <<phase, incoming>>
       [] phase \notin Ended /\ watched -> incoming' = incoming + 1 /\ UNCHANGED phase
       [] OTHER -> phase' = "killed" /\ UNCHANGED incoming
  /\ UNCHANGED <<watcher, pending, stopping, shm, bus, counts>>

Process ==
  \/ init_buf \/ init_shm \/ lock_pid \/ register_bus
  \/ create_watcher \/ watch_signal \/ start_watcher \/ on_init
  \/ /\ phase = "loop"
     /\ on_signal_event \/ (\E s \in Stops : stop(s)) \/ reload \/ hotfix \/ recv_bus_msg
        \/ ReadEnds \/ on_stop_timeout \/ RunEnds
  \/ delete_sig_watcher \/ deregister_bus \/ shm_fini

Next == Start \/ Process \/ (\E s \in Signals : Kill(s)) \/ Deliver

Spec == Init /\ [][Next]_vars
------------------------------------------------------------------------------
\* How a process ends.  After a stop, on_stop() has agreed, the bus id is
\* given back and the shared memory is gone; after a hotfix both are kept, and
\* the process that resumes finds the memory the bus id goes with.
ExitIsClean ==
  /\ phase = "fini" /\ ~hotfixing => agreed
  /\ phase = "done" => IF hotfixing THEN shm /\ bus ELSE agreed /\ ~shm /\ ~bus
  /\ bus => shm

\* A stop that has been begun ends the process, if on_stop() agrees some day,
\* whatever signals and messages come meanwhile.
StopEnds == stop_timer = "armed" ~> phase \in Ended

\* A process that handles its signals, and was told by one to stop, is not
\* ended by the default action of another before it has given its bus id back.
SignalsHandled == stop_timer # "none" /\ bus => phase # "killed"
------------------------------------------------------------------------------
(* The inductive invariant of ExitIsClean                                   *)

Starting == {"init", "init_shm", "lock_pid", "register_bus", "watch_signal", "watch",
             "start_watcher", "on_init"}
Ending == {"fini", "deregister_bus", "shm_fini"}
Phases == Starting \cup {"loop"} \cup Ending \cup Ended

Types ==
  /\ phase \in Phases /\ stop_timer \in {"none", "armed", "over"}
  /\ polling \in BOOLEAN /\ agreed \in BOOLEAN /\ hotfixing \in BOOLEAN
  /\ shm \in BOOLEAN /\ bus \in BOOLEAN

\* What is shared, where the process relies on it.
Holds ==
  /\ bus => shm
  /\ phase \in (Starting \ {"init", "init_shm"}) \cup {"loop"} \cup Ending => shm
  /\ phase \in {"watch_signal", "watch", "start_watcher", "on_init", "loop", "fini",
                "deregister_bus"} => bus
  /\ phase = "shm_fini" => ~bus

\* The way to the end: the descriptor is polled until a stop has armed its
\* timer, and the timer is over only once on_stop() has agreed.
Way ==
  /\ phase \in Starting => stop_timer = "none" /\ ~hotfixing
  /\ phase \in {"on_init", "loop"} /\ ~polling => stop_timer # "none"
  /\ stop_timer = "over" => agreed
  /\ phase = "fini" => hotfixing \/ agreed
  /\ phase \in {"deregister_bus", "shm_fini"} => agreed /\ ~hotfixing
  /\ phase = "done" => IF hotfixing THEN shm /\ bus ELSE agreed /\ ~shm /\ ~bus

IInv == Types /\ Holds /\ Way
==============================================================================
