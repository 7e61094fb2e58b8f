------------------------------ MODULE MCProcess ------------------------------
(***************************************************************************)
(* The parts of a process, side by side: a behaviour is one of the         *)
(* server's life, of its shared memory's, of the coroutine scheduler, of   *)
(* the link between two daemons, or of the services a server is given: its *)
(* command line, its loggers, a log file, unique ids.  kind says which,    *)
(* and the others stay as they are at first.                               *)
(***************************************************************************)
EXTENDS Integers, Sequences

CONSTANTS MaxStarts, MaxMsgs, MaxKills, MaxStopTries, MAX_MSG_PER_PROC,  \* of Server
          MmapSize, MaxRequest, MaxLives,                                \* of ShmLifecycle
          Coroutines, Started, Protected, Budget,                        \* of Coroutine
          HeadUnits, Messages, ReadUnits, FirstUnits, MaxConns, MaxSends, \* of BusLink
          Modulus, MaxArgs, U8,                                          \* of OptionParser
          Documents, Levels,                                             \* of Loggers
          max_size, max_rotation, Sizes, MaxHour, MaxLogs,               \* of FileSink
          Serials, Timestamps, MaxTime,                                  \* of Guid
          Kinds

VARIABLES
  kind,
  phase, watched, polling, reading, pending, incoming, stop_timer, tries, agreed,
  hotfixing, shm, bus, msgs, sent, kills, starts,
  at, object, named, ready, block, job, torn, lives,
  runnable, sleeping, state, current, uv, closing, left, stacks,
  client, seed, queue, conns, serving, host2seq, broken, excuse, sends,
  todo, conf_list, sopt2conf, lopt2conf, args, i, value, from, ret, refused, ctx,
  document, conf, loggers, cfg, proc_conf, stage, exact, sunk,
  hour, files, current_path, filename, fd, current_size, sinkJob, calls, logged, late, unopened, emptied, crashed,
  clock, now, life, before, last_sec, last_serial, issued, twice, unlucky

Process == INSTANCE Server
Memory == INSTANCE ShmLifecycle
Scheduler == INSTANCE Coroutine
Link == INSTANCE BusLink

\* The coroutines created before schedule() is called
MCStarted == <<"a", "b">>

\* The messages between daemons: without a body, with one, for a third host
MCMessages == {[length |-> 0, far |-> FALSE], [length |-> 3, far |-> FALSE], [length |-> 1, far |-> TRUE]}

Number(k) == [kind |-> "number", n |-> k]
Text(k) == [kind |-> k, n |-> 0]
IdText(k) == [kind |-> "other", n |-> k]
Long(name, text) == [form |-> "long", name |-> name, letters |-> <<>>, text |-> text]
Short(letters) == [form |-> "short", name |-> "", letters |-> letters, text |-> Text("other")]
Word(text) == [form |-> "word", name |-> "", letters |-> <<>>, text |-> text]
Opt(id, sopt, lopt, required, vtype) ==
  [id |-> id, sopt |-> sopt, lopt |-> lopt, required |-> required, vtype |-> vtype]
CommandLine == INSTANCE OptionParser WITH
  OptionSets <- {{Opt("id", "", "id", TRUE, "string"), Opt("resume", "r", "resume", FALSE, "bool"),
                  Opt("size", "s", "", FALSE, "s32")},
                 {Opt("size", "s", "", FALSE, "s32"), Opt("spare", "s", "spare", FALSE, "s32")}},
  Scanned <- [k \in 0 .. 3 |-> CASE k = 0 -> <<1, 2>> [] k = 1 -> <<0, 1, 2, 3>>
                                  [] k = 2 -> <<U8, 1, 2, 3>> [] OTHER -> [place \in 1 .. 4 |-> U8 - 1]],
  Arguments <- {Long("id", Text("other")), Long("id", IdText(1)), Long("id", IdText(2)), Long("id", IdText(3)),
                Long("id", Text("none")), Long("id", Text("empty")),
                Long("resume", Text("none")), Long("resume", Text("other")),
                Long("nothing", Text("other")), Long("help", Text("none")), Long("help", Text("other")),
                Short(<<"r">>), Short(<<"r", "s">>), Short(<<"s", "r">>), Short(<<"r", "h">>),
                Word(Number(5)), Word(Text("partial"))}

Cat(name, level, devices, broken_node) ==
  [name |-> name, level |-> level, devices |-> devices, broken |-> broken_node]
\* What log_conf.xml may hold: nothing, one without a default or without a
\* device for it, an unknown level, a name twice, a broken node
MCDocuments == {<<>>,
                <<Cat("default", "TRACE", 1, FALSE), Cat("net", "DEBUG", 1, FALSE)>>,
                <<Cat("net", "INFO", 1, FALSE), Cat("default", "ERROR", 0, FALSE)>>,
                <<Cat("default", "ERROR", 1, FALSE), Cat("net", "LOUD", 1, FALSE)>>,
                <<Cat("net", "TRACE", 1, FALSE), Cat("net", "INFO", 1, FALSE), Cat("db", "TRACE", 1, FALSE)>>,
                <<Cat("default", "TRACE", 1, FALSE), Cat("net", "DEBUG", 1, TRUE)>>}
Logging == INSTANCE Loggers
Sink == INSTANCE FileSink WITH job <- sinkJob, MaxMsgs <- MaxLogs
Ids == INSTANCE Guid WITH excuse <- unlucky

serverVars == <<phase, watched, polling, reading, pending, incoming, stop_timer, tries,
                agreed, hotfixing, shm, bus, msgs, sent, kills, starts>>
memoryVars == <<at, object, named, ready, block, job, torn, lives>>
coroutineVars == <<runnable, sleeping, state, current, uv, closing, left, stacks>>
linkVars == <<client, seed, queue, conns, serving, host2seq, broken, excuse, sends>>
optionVars == <<todo, conf_list, sopt2conf, lopt2conf, args, i, value, from, ret, refused, ctx>>
loggerVars == <<document, conf, loggers, cfg, proc_conf, stage, exact, sunk>>
sinkVars == <<hour, files, current_path, filename, fd, current_size, sinkJob, calls, logged, late, unopened,
              emptied, crashed>>
guidVars == <<clock, now, life, before, last_sec, last_serial, issued, twice, unlucky>>
serviceVars == <<optionVars, loggerVars, sinkVars, guidVars>>
vars == <<kind, serverVars, memoryVars, coroutineVars, linkVars, serviceVars>>

Init ==
  /\ kind \in Kinds
  /\ Process!Init /\ Memory!Init /\ Scheduler!Init /\ Link!Init
  /\ CommandLine!Init /\ Logging!Init /\ Sink!Init /\ Ids!Init
  /\ kind = "loggers" \/ (document = <<>> /\ proc_conf = <<>>)
  /\ kind = "options" \/ \A o \in todo : o.id # "spare"

\* A step of one of the services
Service ==
  \/ kind = "options" /\ CommandLine!Next /\ UNCHANGED <<loggerVars, sinkVars, guidVars>>
  \/ kind = "loggers" /\ Logging!Next /\ UNCHANGED <<optionVars, sinkVars, guidVars>>
  \/ kind = "sink" /\ Sink!Next /\ UNCHANGED <<optionVars, loggerVars, guidVars>>
  \/ kind = "guid" /\ Ids!Next /\ UNCHANGED <<optionVars, loggerVars, sinkVars>>

Next ==
  \/ kind = "server" /\ Process!Next /\ UNCHANGED <<kind, memoryVars, coroutineVars, linkVars, serviceVars>>
  \/ kind = "memory" /\ Memory!Next /\ UNCHANGED <<kind, serverVars, coroutineVars, linkVars, serviceVars>>
  \/ kind = "coroutine" /\ Scheduler!Next /\ UNCHANGED <<kind, serverVars, memoryVars, linkVars, serviceVars>>
  \/ kind = "link" /\ Link!Next /\ UNCHANGED <<kind, serverVars, memoryVars, coroutineVars, serviceVars>>
  \/ Service /\ UNCHANGED <<kind, serverVars, memoryVars, coroutineVars, linkVars>>

\* The process itself goes on; signals, messages and new starts need not come.
ServerRuns ==
  /\ kind = "server" /\ Process!Process
  /\ UNCHANGED <<kind, memoryVars, coroutineVars, linkVars, serviceVars>>
SchedulerRuns ==
  /\ kind = "coroutine" /\ Scheduler!Next
  /\ UNCHANGED <<kind, serverVars, memoryVars, linkVars, serviceVars>>

Spec == Init /\ [][Next]_vars /\ WF_vars(ServerRuns) /\ WF_vars(SchedulerRuns)

\* How a server process ends (ExitIsClean of Server).
ExitIsClean == Process!ExitIsClean

\* What a process leaves in shared memory can be used (MemoryIsUsable of
\* ShmLifecycle).
MemoryIsUsable == Memory!MemoryIsUsable

\* No coroutine is lost or queued twice (CoroutinesKept of Coroutine).
CoroutinesKept == Scheduler!CoroutinesKept

\* Messages between daemons arrive as they were sent (LinkIsSound of BusLink).
LinkIsSound == Link!LinkIsSound

\* The command line sets what it names and requires (OptionsParsed of
\* OptionParser); a failed reload takes no logger away
\* (LoggersStand of Loggers); a log file keeps its messages through rotation
\* and failure (LogKept of FileSink); no id is issued twice (IdsUnique of
\* Guid).
ServicesAreSound ==
  CommandLine!OptionsParsed /\ Logging!LoggersStand /\ Sink!LogKept /\ Ids!IdsUnique

\* A stop that has been begun ends the process (StopEnds of Server).
StopEnds == Process!StopEnds

\* Every coroutine that was created ends (CoroutinesEnd of Coroutine).
CoroutinesEnd == kind = "coroutine" => Scheduler!CoroutinesEnd

\* Ids created after init() are new (NotDuplicated of Guid).
IdsNotDuplicated == Ids!NotDuplicated

\* A server told to stop is not ended by a signal it handles (SignalsHandled
\* of Server).
SignalsHandled == Process!SignalsHandled
==============================================================================
