# Formal models of libsk

libsk is a C++ library for servers: a message bus between processes and hosts, an
allocator and containers in shared memory, timers, coroutines, TCP, REST, consul and redis
clients on one libuv loop, and the start-up code that ties them together. This directory
holds TLA+ models of its parts, the configurations that check them with TLC, and proofs
checked by TLAPS. Paths below are relative to the repository root.

## 1. Inventory

### Message bus

Three layers, in different processes:

* **channel** (`src/bus/detail/channel.*`): a ring of equal nodes in shared memory. State:
  `read_pos`, `write_pos`, `push_count`, `pop_count` and the nodes. One process pushes, one
  pops, without a lock: the only order between them comes from a memory barrier before the
  position is published. A message takes as many nodes as its header and data need and may
  wrap around the end of the ring. Whoever pushed queues a signal to the other side, which
  pops a bounded number of messages for each signal and none without one.
* **channel manager** (`src/bus/detail/channel_mgr.*`, `src/bus/bus.*`): a table of
  descriptors at the start of the segment, one per bus id, each with two channels.
  Processes register and leave under a spin lock that lies in shared memory too, and tell
  the daemon by a queued signal. A process that was killed finds its descriptor open; one
  that left finds it closed and opens it again.
* **daemon** (`bus/bus_router.*`): takes messages from the channels when signalled and puts
  them in the channel of a local process, sends them to the daemon of another host, or
  queues them until consul knows the destination or the connection is up. Its state is the
  route table, the set of bus ids that have left, the two families of queues and the
  endpoints. Its events are signals, consul's answers (watch, set, del) and connections.

What is hard: the lock-free ring; crashes of either side at any point; registrations that
overlap; a route table that follows consul through answers that are stale when they arrive;
order of messages when some of them were queued and later ones were not; restart of the
daemon on the memory of its predecessor.

### Shared-memory allocator

`shm_mgr` (blocks backed by files, objects with serial numbers so that stale pointers are
found out, singletons) uses `size_map` (size classes), `chunk_cache` (spans cut into chunks
of one class) and `page_heap` (spans of pages: carving, best fit, growing, merging). Below
them are `span`, `radix_tree` (page to span) and `metadata_allocator` (span structures).
Everything is sequential and survives the process. What is hard: structures that are reused
while old references to them are still around, splits and merges over long sequences, and
failures half way when one of the blocks is full.

### The rest

| part | state and operations | what makes it correct | module |
|---|---|---|---|
| `time/shm_timer` | five-level wheel in shared memory; add, remove, tick, resume | a timer fires once per period and never early; cascading loses none | `ShmTimer` |
| `time/heap_timer` | one libuv timer | - | in `Server`, `Coroutine` |
| `coroutine` | run queue, current coroutine, the loop as a coroutine; create, yield, sleep, schedule | each coroutine runs to its end, no lost wake-up | `Coroutine` |
| `redis` | slot table, connections, pending commands; MOVED and ASK, retries | a command is in one place at a time; redirections end | `RedisCluster` |
| `core/tcp_*`, `core/buffer` | connection states, read buffer; connect, accept, read, send, close | a connection has one owner until it is closed; bytes are consumed exactly once, however reads are cut | `TcpPeers`, `BusLink` |
| `core/rest_client`, `core/consul_client` | curl transfers, sockets, poll contexts, a timer; get, put, del, watch, stop | each request is answered once, nothing of it stays behind | `RestClient`, in `BusRouter` |
| `core/signal_watcher` | blocked signals, a descriptor; start, stop, reading in batches | a signal is handled or still pending | in `Server` |
| `server/server.h` | init in many steps, loop, stop, hotfix, fini | stop ends all parts, once; hotfix keeps what the next process needs | `Server` |
| `shm/shm.cpp`, `shm_object` | objects of the manager and of two blocks; create, grow, resume, remove | memory left by a failed or ended process is usable by the next | `ShmLifecycle` |
| `container` | red-black tree, two hash tables, list, arrays, stacks, string, bitmap, in fixed or shared memory | they are the collections they claim to be, at their limits too | `RBTree` and others |
| `core/file_watcher` | two tables over inotify; watch, unwatch, start, stop | the tables agree with the kernel's watches | `FileWatcher` |
| `utility/guid` | last second and serial number; create | no id is issued twice, over restarts too | `Guid` |
| `log` | loggers by category, the file of the hour and its rotations; init, reload, write | a failed reload changes nothing; rotation loses nothing it should keep | `Loggers`, `FileSink` |
| `server/option_parser`, `bus/bus.cpp` (the id) | options by short and long name; register, parse | what the command line names is set, the bus id is the one written there | `OptionParser` |
| `deps`, `utility/pugixml` | third-party code | - | - |

`PROJECT.json` lists every part with its sources and its status, and under `hazards` the
places that tests hardly reach, each with the properties aimed at it.

## 2. Modules

| module | models | built on |
|---|---|---|
| `Channel` | `channel::push` and `pop` step by step; refinement to `ChannelFifo` | `ChannelFifo` |
| `ChannelFifo` | the queue a channel promises to be | - |
| `MCChannel` | instance | `Channel` |
| `ChannelProofs` | theorems about `Channel`, its refinement of `ChannelFifo` included | `Channel` |
| `ChannelMgr` | registration of processes | - |
| `ChannelMgrProofs` | theorems about `ChannelMgr` | `ChannelMgr` |
| `BusRouter`, `MCBusRouter` | the daemon, local processes, consul, other hosts | - |
| `BusRouterProofs` | theorems about `BusRouter` | `BusRouter` |
| `PageHeap` | `page_heap` and `shm_mgr::sbrk`; refinement to `PageOwners` | `PageOwners` |
| `PageOwners` | what a page allocator promises | - |
| `PageHeapProofs` | theorems about `PageHeap`, its refinement of `PageOwners` included | `PageHeap` |
| `ShmAlloc` | `shm_mgr::malloc`, `free`, singletons, `chunk_cache`, `span`; refinement to `PageOwners`, in units | `PageHeap`, `PageOwners` |
| `ShmAllocProofs` | theorems about `ShmAlloc`, its refinement of `PageOwners` included | `ShmAlloc`, `PageHeapProofs` |
| `MCShmAlloc` | instance, and `size_map` with the numbers of the source, as pure operators | `ShmAlloc` |
| `ShmTimer` | `shm_timer` and `shm_timer_mgr`; refinement to `TimerDue` | `TimerDue` |
| `TimerDue` | what a timer service promises | - |
| `ShmTimerProofs` | theorems about the timers | `ShmTimer` |
| `RBTree`, `ShmHash`, `ExtensibleHash`, `List`, `ReferableArray`, `FixedVector`, `FixedMemory` (bitmap, strings and stack) | the containers, each against the collection it should be | - |
| `SpanMetadata` | the span map (radix tree) and the pool of span structures (metadata allocator) below the page heap | - |
| `MCContainers` | instance of all of them, and the slot of a redis key, with the table of the source | the eight above |
| `MCMemory` | page heap, allocator and containers as one instance | `MCShmAlloc`, `MCContainers` |
| `RedisCluster` | the redis cluster client with its connections | - |
| `RestClient` | the HTTP client between libcurl and the loop | - |
| `TcpPeers` | life and ownership of TCP connections | - |
| `FileWatcher` | the file watcher on inotify | - |
| `MCClients` | instance of these four | `RedisCluster` and the other three |
| `ClientProofs` | theorems about the four of them | `MCClients` |
| `Server` | the life of a server process, its signals and stop timer | - |
| `ShmLifecycle` | creating, growing, resuming and removing shared memory | - |
| `Coroutine` | the coroutine scheduler | - |
| `BusLink` | the link between two daemons: endpoint, TCP classes, buffer | - |
| `OptionParser` | the command line, the context made from it, and the bus id with its parts | - |
| `Loggers` | the configuration, loggers and their reload | - |
| `FileSink` | a log file, by hour and by rotation | - |
| `Guid` | unique ids | - |
| `MCProcess` | instance of the eight components | `Server`, `ShmLifecycle`, `Coroutine`, `BusLink`, `OptionParser`, `Loggers`, `FileSink`, `Guid` |
| `ProcessProofs` | theorems about all of them but `OptionParser` and `FileSink` | `MCProcess` |

In `MCMemory`, `MCContainers`, `MCClients` and `MCProcess` the parts stand side by side: a behaviour belongs to one
of them, which the variable `kind` names, and the others stay as they are at first. The
parts do not interact there, and one run asks the questions about all of them.

An operator called a *Mutant* in its comment is a deliberately wrong version of the
definition below it. No specification uses it; put in place of that definition it must make
the property named in `PROJECT.json` fail.

### Channel

A unit of memory holds a header or one unit of a message's data, so that a torn, misplaced
or overwritten message is visible as such. `push()` is split into: check for room, copy of
the first part, copy of the wrapped part, header, publication of `write_pos`, count; `pop()`
likewise. The hash comparison of `pop()` is modelled by what it stands for, that the bytes
are those that were pushed; with every assertion of the two functions it sets `failed`. The
volatile accesses and the barriers keep the order of the code, so the steps of one side are
sequential. The counters are kept modulo `CountMod`, in place of 2^64. Either side may die
between any two steps and be replaced by a process that starts at the beginning of a call.

The consumer is the loop of the daemon or of a server. It pops only when a signal tells it to:
`signals` are those queued for it, `batch` is what the handler of the present one may still
take (`Rate` at most, `loop_rate_` in the daemon). `sigqueue()` fails when too many signals are
pending, and a consumer that dies takes its pending signals with it; nobody reads what is left
then until more is sent. The buffer is enlarged on `-E2BIG`.

`message_count()` reads the two counters without any order between them and is 0 when
`push_count` is the smaller one, as it is after `push_count` has wrapped and until `pop_count`
has. It is used for reports only. `CountersAgree` says how far it may be off, in every state.

### ChannelMgr

One program counter per process through `register_channel()` and `deregister_channel()`, with
a step for each write that the daemon could see: `Reserve` counts a descriptor that is still
blank, `Fill` writes one of its fields, in any order since no barrier orders them, and the two
`init()` write the magic number first and the rest afterwards. Names: `lock`, `used_size`,
`descriptors` are the fields of `struct channel_mgr`; `r` and `w` say how far the channel's
`init()` has got. A process may die between any two of these steps, in the critical section
too, and come back with another pid. `sigqueue()` may fail.

The daemon takes no lock. It uses a channel as soon as `closed` is 0 and a magic number stands
at the offset (`get_read_channel()`, `get_write_channel()`, `find_read_channel()`), whatever the
owner is doing, and its push or pop begins (`DaemonPush`, `DaemonPop`) and ends (`DaemonEnd`)
between steps of the owner. `left` says of which opening of a descriptor its channels may still
hold something. Two things follow from the missing lock, and the properties say them:

* A call of the daemon that began before `clear()` of a reopened channel and ends after it
  sets a position from before, so that old messages are seen again (`straddled`,
  `channel_mgr.cpp:96`). `ToldOnlyWhenReady` excepts this and nothing else.
* A descriptor that counts already and has offset 0 leads to the manager itself, which begins
  with the same magic number. The daemon only looks there if it has a route to that bus id, from
  consul and an earlier segment (`astray`); what it does then is undefined and the model ends.

A descriptor half written when its owner died stays the last one, because the lock stays held
too; `ChannelsApart` says so.

### BusRouter

One action is one callback of the daemon run to the end, because the daemon is single
threaded; everything else interleaves between callbacks. A consul request passes through the
stages sent, carried out, answer handled; requests overtake each other because each is a
transfer of its own, and a transfer may fail before or after consul has acted on it. The
watch answers with a snapshot that the daemon sees later. Signals of one number are
delivered in order; the outgoing signal has the lower number and is delivered first, as
Linux does for queued real-time signals. Channels are bounded queues here, with
a capacity for each process; `ChannelFifo`, which `Channel` implements, justifies that. A signal
is handled by taking `loop_rate_` messages at most and may leave others behind. A new route hands on the queues of all bus ids that
have one, in the order of `active_endpoints_` (`HandleQueues`), which is any fixed order here.
`Place` are the queues, channels and wires a message can be in, `Held` what is in each. The order
of messages in `MessagesKept` is stated between a process and a process of this host, and between a
process and one peer: one that moves from peer to peer gets messages over two connections, which
nothing in the code orders. The bytes
between two daemons are in `BusLink` and the growth of the daemon's message buffer in
`Channel`; `reload()`, `report()`, and `stop()` and `fini()` of the daemon are not modelled.

### PageHeap

One action is one call of `allocate_span()` or `deallocate_span()`. The functions these call
are operators on the heap as a record, composed as in the code. Span structures have an
identity that is reused after `del_span()`, and `span_map` keeps old entries, as the code
does; reading a structure that was given back sets `failed`, as does every failed assertion.
`register_span()` follows `allocate_span()` in the only place that uses it, so the two are
one action (`cached`). The span map is a function and the pool of structures a set of numbers
(the lowest free one is given; any would do); that the code's radix tree and metadata
allocator are such things is what `SpanMetadata` checks. A file that cannot be
resized although it would fit its mapping is not modelled.

### ShmAlloc and the size classes

`ShmAlloc` extends `PageHeap`: `Next` of the heap is not used, its operators are called by
`malloc()` and `free()` as in the code. Memory is counted in units; the `shm_meta` in front
of each object is one unit and is modelled by its serial number. A pointer is a serial
number and an offset, and users keep every pointer they ever got (`given`), free any of them
again, and look them up. Chunks of a span are a list of offsets; which spans a class lists,
and how many, follows `chunk_cache`. `MCShmAlloc` computes the table of classes with
the numbers of the source, and `TableExact` compares `size2class()` with the definition "the
smallest class that holds the size", for every small size and both ends of every step of
128.

### Containers

A call is one action on the structure `c`, pointers and free lists included, and at the same
time on `ref`, the set, sequence or map it stands for. What is compared covers the links in
both directions, order, counts, the free lists and what lookups and iteration find. The tree
is `rbtree_algorithm` with both rotations, insertion and deletion with their repairs; sides
are a parameter where the source writes a case out twice. The radix tree may run out of nodes
in the middle of `set()`; the metadata allocator gets pieces of memory that are no multiple of
a cell, and links its free cells through memory its users write to. Not bounded in length: every
sequence of calls is covered.

`fixed_vector::fill(0, x)` on a vector that is not empty does not end: an unsigned index is
counted down past 0 (`fixed_vector.h:56`), and the assertion of `erase_at()` refuses it for
ever. `VectorIndexInRange` excepts this call, after which the model stops, and says that the
assertion holds in all others. `fixed_bitmap::flip()` clears the last word if the number of bits
is a multiple of the word size (`fixed_bitmap.h:104`). Nothing in the repository says otherwise,
so this is part of what `BitmapSound` expects; the run has a bitmap of each sort. Both hash
tables refuse to change the value of a key they have when they are full.

### RedisCluster

A handler is an operator on the whole client, because it runs to its end in one callback of
hiredis. hiredis itself is modelled by how the client uses it: answers come in order, a
broken or closed connection gives every command left on it a null reply, an unresolvable
host is refused at once. A command is `accepted` by `exec()` and ends as answered or lost.
The model shows more than the properties say: a command waits for ever once no node is left
to ask for the slots; a command that cannot be sent after a redirection is dropped without a
call of its callback (hence "lost"); a MOVED answer that arrives after `stop()` opens
connections again. A connection that cannot be made is released while hiredis still has its
commands (`redis_connection.cpp:155`); the model ends there (`phase = "ended"`).
`disconnect()` writes to an object it may just have released (`redis_connection.cpp:62`); the
model takes that write to be without effect.

`MCContainers` compares `get_key_slot()` with the definition of a tag and of the remainder of a
polynomial, for every table entry and for keys with every arrangement of braces.

### RestClient, TcpPeers and FileWatcher

In all three what the library or the kernel does at once, and what it does later in a
callback, are apart, and the user calls in between. libcurl, libuv and inotify are modelled
from how the code uses them.

`RestClient` has addresses of transfers and of poll contexts that are used again once freed,
so that a context left behind, or freed twice, is seen. libcurl asks for sockets and the timer
inside the client's own calls; a finished transfer is a message that `check_multi_info()`
turns into the call of a callback, which may issue new requests. `stop()` comes at any time
from the loop. `stop()` inside such a callback frees a handle that `check_multi_info()` then
frees again (`rest_client.cpp:150`), and is left out.

`TcpPeers` has one client and one server with their connections. `connect()`, `stop()`,
`send()` and `close()` come in any order, errors included; a closed handle still has its writes
and its request called back. Two things are excepted: `connect()` between `stop()` and the
callback of the cancelled request fails `sk_assert(!handle_)` (`hasty`), and after a failed
attempt the handle is freed without `uv_close()` (`tcp_client.cpp:61`), which the model takes
to work.

`FileWatcher` keeps watches by inode as the kernel does. Files are created, linked, changed and
deleted; a callback may watch and unwatch between two events read at once. Two paths that are
links to one file, and all paths whose watch failed (-1), have one descriptor in the tables,
and unwatching one of them takes the other's entry (`file_watcher.cpp:44`): `aliased` marks
that, and `WatchesAgree` says less from then on.

### Server

`init()` in its order, with a failure at each step that may fail, those of the signal watcher
included; the loop with the watcher's batches; the
stop timer, which asks `on_stop()` again until it agrees; hotfix; `fini()`. Signals of one
number are merged while pending, except `BUS_INCOMING`, which queues. A second stop signal
in the same batch fails an assertion (`server.h:223`, phase `aborted`). A message delivered
to a process that is down or in a hotfix is without a signal afterwards, so that it waits for
the next message. `init_shm()` comes before `lock_pid()`; what two processes then do to one
memory is not modelled.

### ShmLifecycle

A step is a system call, which may fail, or a store into the table of blocks; a process may
die between any two, and the next one creates or resumes. `torn` records a death in the
middle of one change, from which the code does not recover (for example between `ftruncate()`
and the store of `real_size`, `shm_mgr.cpp:395-398`). Requests are below the size of the
mapping: a first request above it creates a block larger than its mapping
(`shm_mgr.cpp:336`).

### Coroutine

`schedule()` takes the next coroutine, or lets the loop run, which is a coroutine itself and
gives up control in the middle of a timer's callback. The context switch is a change of
`current`. A coroutine may yield, sleep or create another, `Budget` times. Creation may fail
at the stack's mapping, at the protection of its guard pages or at the context; which stacks
are mapped is part of `CoroutinesKept`. If the guard pages cannot be protected the stack is unmapped there and a
second time by the destructor. Not modelled: a
coroutine created from another callback of the loop is only run when a timer fires
(`coroutine_mgr.cpp:249-255`), and coroutines that yield for ever keep the loop from running.

### BusLink

One daemon sends, one receives. Messages that waited for the connection are written one by
one once it is there (`SendQueued`), before any other is. A read brings any number of units of what is in the pipe, so
that headers and bodies are cut anywhere; the buffer moves its contents or grows as
`ensure_space()` does. The sending daemon may be restarted, which makes a second connection
while the end of the first is still unread. Two things are excepted in `LinkIsSound`, because
the code does not handle them: the end of the old connection erases the sequence entry that
the new one uses (`bus_router.cpp:408`), and a message relayed to a third host has had its
length converted in place by `endpoint::send()` (`bus_router.cpp:466`).

### OptionParser, Loggers, FileSink and Guid

`OptionParser` takes a command line argument by argument, after the registration of the
options; a text is a number, part of one, a bus id or something else, and a short option's
value is the next argument. `OptionsParsed` compares the outcome with a definition over the
whole command line, that an option has the value of the first argument that names it and is
no value itself. A successful start goes on to `init_context()`, where the bus id is made from
the text. It is computed in the base `U8`, with the sign that the topmost byte gives it:
all parts 255 is -1, which is the error value and is refused; parts above 255 are cut, so that
256.1.1.1 and 0.1.1.1 share a bus id but not a pid file (`server.h:423`, excepted).

`Loggers` reads a configuration document, makes the loggers one after the other, and puts the
old ones back if one fails. `LoggersStand` says that each category of the configuration in use
that has a device has its own logger after any sequence of reloads, wherever one failed; loggers
that a failed reload had just made may stay, under names the configuration does not have.

`FileSink` writes messages into the file of the hour. A rotation is one rename at a time, each
with a name made from the clock anew, any of which may fail or be the last thing the process
does. `LogKept`: what the files of an hour hold is the end of what was logged in that hour,
without gaps. If the hour passes during a rotation, nothing is renamed and the open file is
truncated (`late`, excepted). Opening the file of a new hour fails in two ways. If `open()`
throws, file_helper has taken the new name. If `ensure_directory()` throws before it, file_helper
still has the name of the old hour (`filename`): a rotation then renames the files of the new
hour and truncates that of the old one (`emptied`, excepted, with the messages that go there
from then on). In both cases a message before such a rotation is written to a closed file, and
the process crashes (`unopened`).

`Guid` has the second and the serial number with their widths as constants. The second is not
the clock's: it is `current_time_` of the shm_timer_mgr, which lies in shared memory and is set at
the end of each tick. `Restart` makes the next process, which resumes it (`now` stays) or makes a
new one; `InitEnds` is the `sleep(1)` with which `init()` ends; `Tick` the end of `update()`.
Since a process sleeps before its loop, its first tick brings a second in which no process
before it made an id. `IdsUnique` says that ids repeat only if the clock is set back, if a process
makes one before its first tick in the second of the last id of an earlier process (in
`on_init()`, or in a timer's callback of the first tick), or when the time stamp has wrapped.

### ShmTimer

The wheel is a function from (vector, index) to lists; the sizes of the vectors are
constants, the number of vectors is five as in the code, and shifts and masks are division
and remainder. `MoveDown` is one turn of the loop of `cascade()`, `NextVector` the end of that
loop and the step to the next vector, if it comes round too. The rest of `run_timer()` is cut where callbacks run:
`Call` and `Return` are the two sides of a callback, between which `Start` and `Stop` happen
as they do outside of `update()`; `Discard` is a timer without repetitions at the head of
the list. Times are given in milliseconds and rounded down as `ms2tick()` does. The clock is
an input: it may jump ahead or go back. A tick passes only in `EndTick`, and `todo` is what
is left of the inner loop of `update()`, during which nobody outside runs.

A crash happens in a callback (that is the case the code reasons about), and leaves the
wheel as it is. Not modelled are a crash between two pointer writes of one list operation,
`fini()`, and the data and registry of callbacks. Two things in the code restrict what the
run can say. A repeat time under 20 ms is rounded to no ticks; a timer that repeats for ever
with it is filed into the list that is being run, and `update()` does not return: the
instance has no such timer. And `init()` of a restarted process deletes the dead process's
heap timer through `tick_timer_`, a pointer kept in shared memory (`shm_timer.cpp:130`); what
that does is undefined, and the model goes on only if the process survives it.
The comment before `shm_timer.cpp:238` says that a timer whose callback crashed is removed;
the code removes it only if it was stopped, and calls it again otherwise. `TimerDue` states
what the code does, and the run `shm_timer_crash` shows that the comment does not hold.

## 3. What the runs check

| run | instance and bounds | shows |
|---|---|---|
| `channel` | 4 nodes of 2 units, header of 1, messages of 1, 4 and 7 units (1, 3 and 4 nodes; the last never fits), buffer of 3 units at first, counters modulo 4, 2 messages for a signal, 3 pending signals, 4 published messages, 1 crash | the channel is an atomic bounded FIFO (`ImplementsFifo`); no assertion fails; the producer stays off unread nodes; `message_count()` is as near as it can be; everything published is read unless a signal is lost or a process dies |
| `channel_mgr` | 3 processes, room for two of them, 3 registrations, 1 crash, 1 lost signal; the daemon at any time | channels never overlap and a bus id has one descriptor, wherever a process dies; the daemon is told of ready channels only and finds nothing old in them; what `register_bus()` left stands and is found; nobody spins for ever unless somebody died |
| `bus_router` | 2 local processes (one comes and goes), 1 remote, channels of 2 and of 1, `loop_rate_` 1, 2 messages, 3 route changes, 1 fault | the assertions on the tables hold in every order of answers; messages exist once and keep their order; nothing is held up although a signal leaves messages behind, channels are full, routes come late and the watch may fail |
| `bus_close` | no messages, no faults, 2 registrations | **fails**: see below |
| `memory` | page heap: 6 pages, growth by 2, lists for 1 page and for more, requests of 1, 2, 3 pages; calls not bounded. Allocator: 6 pages of 4 units; classes of 2 units (spans of 1 page) and 6 units (3 pages); sizes 1, 5 and 7; 3 serial numbers; 5 successful `malloc()`. Containers: tree of up to 10 of 11 keys; hash table of 4 nodes, 5 keys in 2 buckets (a negative and colliding ones among them); extensible hash of 4 nodes, 2 buckets; list of 4; array of 3; vector of 3; 5 bits and 6 bits in words of 3; strings of two capacities; stacks of two capacities; radix tree with nodes for some of its keys only; metadata in pieces of uneven size; redis keys of any byte, and of up to 5 bytes out of 5 | spans partition the heap, lookups are exact, free spans are merged and listed once, refusals are justified; callers see `PageOwners` (of the heap below `malloc()` and `free()` too); objects never overlap (`ImplementsObjects`); a pointer leads to its object while that lives and nowhere afterwards, until the serial numbers have gone round; the chunk cache loses no chunk and keeps at most one empty span; the table of size classes is right; each container is the collection it should be after any sequence of calls, with links, colours, counts and free lists intact; a key has the slot the cluster takes it for (`ContainersAreSound`) |
| `page_heap_stat` | the page heap alone, with 2 span structures | **fails**: see below |
| `shm_timer` | 2 timers, lists of 2 (the wheel reaches 32 ticks), 35 ticks in steps of up to 2, 4 kinds of timer (at once and twice; for ever; finite and cascading; beyond the wheel), 2 starts, 1 crash | every call is made exactly at its tick, none is skipped, none after `stop()`; no timer is filed in the past, twice, or back into the list it comes from; `update()` catches up |
| `shm_timer_crash` | the same | **fails**: see below |
| `clients` | redis: 3 nodes, one of which cannot be connected to; 2 commands, 2 attempts each; 3 layouts, one incomplete. HTTP: 2 handles, 3 contexts, 2 sockets. TCP: 3 connections, 2 unfinished writes. Files: 2 paths, 2 inodes, 2 descriptors, 1 queued event | a command is in one place at a time (`HeldOnce`), so its callback is called once at most; one CLUSTER SLOTS request at a time, at the node that is dropped if it fails (`OneSlotsRequest`); commands end; HTTP requests are answered once, with the whole body, and leave neither handle nor context; a TCP connection has one owner; the tables of watched files agree with the kernel's (`ClientsAreSound`) |
| `process` | server: 2 starts, 3 messages, 3 signals, 2 calls of `on_stop()`; memory: mappings of 4 units, requests up to 2, 4 processes; 3 coroutines with 3 steps each; link: header of 1 unit, bodies of 0, 1 and 3, reads up to 2, buffer of 2 at first, 2 connections, 3 messages; options: 2 sets of options, 3 arguments of 17, bytes of 4 values; loggers: 6 documents, 2 levels; sink: files of 2 units, 2 rotations, messages of 1 and 3 units, 2 hours, 4 messages; ids: 2 serial numbers, 3 time stamps, 4 seconds | an orderly end gives everything back and a hotfix keeps it, a stop ends; memory is usable by the next process; coroutines are kept and end; messages arrive whole and in order; command line, loggers, log file and ids are right (`ServicesAreSound`) |
| `server_signals` | the server alone | **fails**: see below |
| `guid_restart` | the ids alone | **fails**: see below |

The bounds are chosen so that the interesting cases happen. In `channel` four published
messages go round the ring more than once, with a message across its end and the ring both full
and empty; the fourth makes `push_count` wrap, and a third is left behind by a signal for two.
In `bus_router` two messages of one process are in its channel when a signal takes one; and one
destination is unknown, then known, then gone, while messages are queued for it. Three
registrations in `channel_mgr` let three processes race for the room of two, or one leave,
return and find the daemon in its channel while another registers. Six pages allow three spans
with the middle one freed last, an inner page of a chunk span that goes stale, both growth
requests and the fallback from the generous to the exact one. The second chunk of the larger
class begins on an inner page of its span, and five objects take the serial numbers round more
than once. Ten nodes let every case of the tree's deletion happen. In `clients` two attempts
let a redis command be redirected and then refused, three contexts for two sockets let one be
closed while its socket is polled anew, and two paths with two inodes make links. Two
connections of the link are what it takes to overlap; a message of 3 units is larger than a
whole log file; four seconds let the three time stamps wrap.

Five runs show a disagreement between the code and what it says of itself:

* `bus_close`: `on_descriptor_change()` ignores a closed descriptor that is not active yet
  (`bus/bus_router.cpp:633`). A process that registers and leaves before consul has answered
  stays in consul for ever: the route is written after its owner left. No fault is involved.
* `page_heap_stat`: when no span structure is left for the remainder, `carve()` hands out
  the whole span, but `allocate_span()` counts the pages asked for
  (`src/shm/detail/page_heap.cpp:160`). `used_size` is then too small, and returning the last
  span fails the assertion in `deallocate_span()`.
* `shm_timer_crash`: the comment before `src/time/shm_timer.cpp:238` says of a timer found
  running, whose callback crashed the process last time, "just remove the "ill" timer". It is
  removed only if it has no repetitions left, and otherwise called again in the same tick.
* `guid_restart`: `init()` waits for a second, so that "newly created guids will not duplicate"
  (`src/server/server.h:164-175`). But a resumed process has the second of the last tick of the
  process before it until the end of its own first tick, in whose callbacks it may make ids.
* `server_signals`: `watch_signal()` says what each signal is for, but once `stop()` has
  ended the polling, signals stay pending; `fini()` deletes the watcher, which unblocks them,
  before it deregisters the bus id and removes the memory (`server.h:201`). A message that
  arrives in between kills the process by the default action of its signal.

### Fairness

* `Channel`: weak fairness of the producer's steps inside a call, its signal included, and of the
  consumer's loop: it takes a pending signal and runs its handler to the end. Without a signal
  the consumer does nothing, and nobody is obliged to start a `push()`. Hence
  `EverythingIsRead` excepts a lost signal and a crash.
* `ChannelMgr`: weak fairness of the steps inside a call. Registrations are finitely many,
  so a spinning process gets the lock in the end; with endless contention a plain
  test-and-set lock would not guarantee that.
* `BusRouter`: the loop serves pending events, consul carries out requests and connections
  are made; the watch answers (after ten minutes without a change) and its answer is handled.
  Processes need not read or send. Failures are not fair, and are bounded by `MaxFault`.
* `ShmTimer`: weak fairness of the steps within a tick, callbacks included: there is one
  thread, and a callback returns. Nothing is assumed of the clock or of restarts.
* `RedisCluster`: weak fairness of the callbacks of each node: hiredis ends every command and
  every attempt to connect, with an answer or an error, and the loop runs. Which of the
  outcomes it is, is not assumed. Users need not send commands or stop the client.
* `MCProcess`: weak fairness of the server's own steps and of the scheduler: each is one
  thread that nothing else can stop. Signals and messages are bounded by `MaxKills` and
  `MaxMsgs`; `on_stop()` agrees after `MaxStopTries` calls, which `StopEnds` assumes.
* The other modules have no liveness. In `RestClient` and `TcpPeers` it would rest on libcurl and
  libuv alone.

## 4. What is proved

TLC checks the instances of section 3; the theorems hold for every value of the constants
that meets the assumptions named here. The bounds of the instances (`MaxSent`, `MaxFault`,
`MaxReg` and the like) are constants too, so that the theorems are about behaviours of any
length, with any number of crashes and failures.

| theorem | property | for every |
|---|---|---|
| `ChannelProofs!TypeCorrect`, `AssertionsHold`, `WriterSafe` | `TypeOK`, `NoAssertionFails`, `WriterKeepsOffUnread` | ring, node and header size, set of messages, number of crashes |
| `ChannelProofs!CountersBounded` | `CountersAgree` | the same, and width of the counters |
| `ChannelProofs!SignalForEach` | - (why `EverythingIsRead` holds) | the same, messages for a signal and pending signals |
| `ChannelProofs!RefinesFifo` | `ImplementsFifo` | the same |
| `ChannelMgrProofs!Apart`, `ToldReady`, `Stands` | `ChannelsApart`, `ToldOnlyWhenReady`, `RegistrationStands` | set of processes, size of segment and channels, number of crashes and lost signals |
| `BusRouterProofs!TablesAgree` | `TablesConsistent` | sets of local and remote processes and of hosts, size of channels, `loop_rate_`, number of messages, registrations and failures |
| `BusRouterProofs!MessagesStay` | `MessagesKept` | the same |
| `PageHeapProofs!AssertionsHold`, `Tiled`, `MapExact`, `FreeMerged`, `RefusedWhenFull` | `NoAssertionFails`, `HeapTiled`, `SpanMapExact`, `FreeIsMerged`, `RefusedOnlyWhenFull` | number of pages, growth, lists, requests |
| `PageHeapProofs!UsedExact` | `UsedIsInUse` | the same |
| `PageHeapProofs!RefinesOwners` | `ImplementsOwners` | the same |
| `ShmTimerProofs!NoFailure` | `NoAssertionFails` | size of the vectors, precision, timers started, number of crashes |
| `ShmTimerProofs!RefinesTimers` | `ImplementsTimers` | the same |
| `ShmAllocProofs!AllocAssertionsHold`, `PointersLead`, `CachesExact` | `NoAssertionFails`, `PointersResolve`, `CacheExact` | number of pages, growth, size classes, sizes, number of serial numbers and of `malloc()` |
| `ShmAllocProofs!RefinesObjects` | `ImplementsObjects` | the same |
| `ClientProofs!CommandsHeldOnce`, `SlotsAskedOnce` | `HeldOnce`, `OneSlotsRequest` | sets of nodes and commands, hosts, layouts of the slots, time to live |
| `ClientProofs!ClientsSound` | `ClientsAreSound` | sets of HTTP handles, poll contexts and sockets, of TCP connections, of paths and inodes; length of bodies, unfinished writes, descriptors and events |
| `ProcessProofs!CleanExit` | `ExitIsClean` | number of starts, messages, signals and calls of `on_stop()` |
| `ProcessProofs!MemoryUsable` | `MemoryIsUsable` | size of mapping and requests, number of processes |
| `ProcessProofs!Kept` | `CoroutinesKept` | set of coroutines, those created first, those with guard pages, number of their steps |
| `ProcessProofs!LinkSound` | `LinkIsSound` | length of messages and headers, size of reads and of the first buffer, number of connections and messages |
| `ProcessProofs!IdsNeverRepeat` | `IdsUnique` of `Guid`, part of `ServicesAreSound` | number of serial numbers and time stamps, seconds |
| `ProcessProofs!LoggersKept` | `LoggersStand` of `Loggers`, part of `ServicesAreSound` | set of log configurations, levels |

### Channel

Assumption: `ChannelAssumption`, the conditions that `channel::init` asserts, with positive
message lengths. Since the final hash comparison is one of the assertions, `AssertionsHold`
says that what is popped is exactly what was pushed.

All follow from `Invariance`, the invariance of `IInv`. The safety properties are not
inductive: that the writer has room depends on where every unread message lies. `IInv` says
that (a) the unread messages lie end to end from `read_pos` to `write_pos` (`Tiling`), (b)
each is stored whole (`UnreadStored`), (c) the room a push found is still there until it
publishes, since the consumer can only enlarge it (`Room`), and (d) what a half-finished push
or pop has copied so far (`PushProgress`, `PopProgress`). The argument rests on arithmetic
of ring positions (`GapAdvance`, `GapShift`, `AvailableValue`), on where the units of a
message lie (`SlotNode`, `StraightSlots`, `WrappedSlots`) and on one fact about disjointness
(`UnreadNotFresh`: no unit of an unread message is in the nodes being written). There is one
lemma for each action. The refinement adds what the queue of `ChannelFifo` is at each step:
only the publication of a position changes it.

`CountersBounded` needs what the counters are: the number of messages published, and read, less
those whose counter was not bumped, of which each crash leaves one at most, modulo their width
(`CounterInv`). Before the first wrap `message_count()` is therefore off by those; after it, the
remainder of one counter may be the smaller, and then it says 0. `SignalForEach`: unless a
signal was lost or a process died, there is a signal, pending or about to be sent, for each message
that the running handler will leave behind. Liveness is not proved; this is the part of it that is
an invariant.

### ChannelMgr

Assumption: `MgrAssumption`; a process is named by its bus id, so no two have the same one, which
`register_channel()` does not check for (it would hand both the same descriptor). `IInv` says who
may be inside the lock, also after a holder has died (`Mutex`); that descriptors lie one behind
another and that only the last can be half written, with the lock held by whoever writes it, or
for ever (`Layout`); that a call's descriptor is its own (`Own`), written (`Made`) and set up
(`Ready`) as far as the call has got, and no other has its owner (`OneEach`); that what a scan found still stands when the descriptor is
added (`Reserving`); and that what the daemon has not been told of is being announced
(`Announced`). For the daemon it says (`Clean`) that a call it is in began in the present opening
of its descriptor, or that the descriptor has been closed since, or its channels cleared. That is why nothing else than a
`straddled` channel holds messages of an earlier opening: a call that begins after `Reopen`
has the new opening, and one that began before is marked by `ClearChannels`. The theorems hold up
to the step in which the daemon goes astray.

### BusRouter

Assumption: `RouterAssumption`; the sets of local and remote bus ids are disjoint and finite.
The routes, queues and connections are changed by callbacks that handle any number of messages
one after another, and each message may queue, deliver, connect or drop. The invariant is
therefore stated of the record `Mail` that a callback passes on: `Box(n, active, inactive)` are
the mails whose parts are typed and agree with the routes given. Each operator on a mail keeps
it in its box (`DropKeeps` .. `HandleKeeps`). That a fold of such operators keeps it there is
an induction: `FoldExists` shows that the function the recursive definition asks for exists,
and `Reaches` that what each step preserves holds at its end; both go by the least
counterexample, which the prover can do for a given set where an induction theorem with a
predicate as parameter cannot be used.

`TablesConsistent` is not inductive. `on_route_del()` makes a bus id inactive without looking at
the messages that wait for it, and is called when an answer comes that may be long stale.
`DelIsKnown` is what makes that right: a request to delete a route is made only for an active
bus id, and from then on, through every set, watch and delete in between, that id is active or
known to have left, so that no message can have been queued for it. A restart forgets both
and, with it, the answers of the requests of the dead daemon.

`MessagesKept` rests on that invariant and on `HeldKept`, which adds what fits a place: a channel
has messages of its process only, a queue those for its bus id, and what comes from peers is not
from a process of this host (`Fits`). Four lemmas, about places and not about the daemon, carry the
argument: places may lose what is first in them (`CutKeeps`), a message may go to the end of a
place that is farther on its way (`MoveKeeps`), a new one may come last at its sender
(`NewKeeps`), or be refused (`RefusedKeeps`). A message may go on only when nothing that it must not
overtake stays behind (`Free`), and that is where the tables matter (`WayOpen`): nothing waits
for the route of a bus id that has one, and nothing waits for a connection that is there, so that a
message sent at once passes nobody. In the middle of a callback the messages
not yet handled count as being where they were taken from (`In`), so that each step of a fold keeps
the same formula (`Passes`, `Leaves`, `Emptied`); `Steps` is the induction.

### PageHeap

Assumptions: `HeapAssumption`, whose line on growth is not checked by `create_block()`, and in
the theorems `SpanPool >= MmapPages`: there is a span structure for every page. With fewer,
`carve()` may hand out more pages than were asked for, which `page_heap_stat` shows and
`UsedExact` says is the only way for `used_size` to be wrong.

The invariant is a predicate `Good` on heap values: spans apart and without gaps (`Apart`,
`Covered`), the map exact at both ends of a span and everywhere in a registered one, and empty
beyond the end of the heap (`Mapped`), free spans filed once and where their length says
(`Filed`), no two free neighbours (`Merged`), `used` the number of pages in use. In the middle
of a call one span is in no list and may have free neighbours: `Loose(h, x)` holds then with x
excepted. Each operator (link, unlink, carve, merge left and right, grow, register) takes a
loose or sound heap to another, and a call is their composition. That a span structure is
always left is a counting argument: live spans are apart, so there are at most as many as pages.

### ShmAlloc

Assumptions: those of the page heap, `SpanPool >= MmapPages` included, and `AllocAssumption` on
the size classes.

The heap below is not the one of `PageHeap!Next`: it is used by `malloc()` and `free()` in their
own order, so what is carried over are the lemmas about its operators (a span allocated, one
returned, one registered), and not the theorems. `AInv` puts on top of `Good` what the chunk cache
and the users know. It is `Accounted`, in four parts, and the singletons. `Books`: what is
written on spans and in the lists of classes agrees with where the live objects begin: a span in
use holds one object, or belongs to a class and is cut into chunks, each of which is free, once in
the span's list, or is where one live object begins (`CutSound`); a class lists its spans with free
chunks once each and counts its use and its pages as they are (`CacheSound`). `Room`: a live object
fits its chunk or its span. `InTurn`: serial numbers are given out in turn, so that two pointers
with one number were made a whole round apart. `LiveKept`: a live object is the last one that began
where it does and has its serial number there, and elsewhere there is none. Only with all four can `free()` of any pointer ever given be followed: either the number
does not match and nothing changes, or the object lives, its span is found by the page it lies on
(an inner page of a registered span too) and the class read there is the one it was cut for.

A call is shown in the pieces of the code: choosing or fetching a span, cutting it
into chunks, taking the first chunk, and the other way round; the books are wrong in between, for one
span, and each lemma says by how much. Counting arguments on finite sets give the statistics. The
refinement maps an object to the units it covers.

### ShmTimer

Assumption: `TimerAssumption`; vectors have two lists at least, and a timer is started with a
count that `start()` accepts. Ticks are unbounded numbers: `current_tick_` has 64 bits.

That no timer is filed in the past says nothing of where the timers are that were filed long
ago. `OnTime` does: a list of vector l comes round at the multiples of `Share[l]`, and for each
timer in it there is one such multiple that is not before now, not after the tick the timer is
due, and less than a round of the vector away (`Turn`). The last makes it unique: within one
round no two multiples have the same list (`SameRemainder`). Once the cascade of a tick has
passed a vector the multiple is not now either. From this everything follows: what a cascade
takes out of the list it has reached is due now or later (`TurnNow`), so that `search_list()`
does not assert; where it is filed comes strictly later (`Files`), so that it is not the same
list; and a tick ends with nobody left who is due (`AllLater`). A timer beyond the wheel's reach needs no
case of its own, since its list comes round before it is due. Where a cascade stops no later vector comes
round (`ComesNoMore`). A crash in a callback weakens the invariant to what it was at the
beginning of the tick, which is repeated. `Doing` adds that memory without a timer is blank and that the
timer being called is in use and marked, so that `stop()` in its own callback leaves it.

### RedisCluster

Assumption: `RedisAssumption`; nodes are positive numbers in the order of their ids, and a
layout names nodes only. The order of the nodes matters, since the first is the one asked.

`HeldOnce` counts places of a command in sequences of several kinds, and `OneSlotsRequest` a
request among them. In the proof these are *lanes* of keys: that of `NoNode` is
`pending_commands_`, that of a node the queue of its connection; the key of a command and of the
ASKING before it is the command, that of CLUSTER SLOTS is `NoNode`. One formula, `Apart`, then says that each
key is in one place at most, of user commands and of the request alike. `IInv` adds that a
command is held exactly if it is accepted (`Agrees`) and that CLUSTER SLOTS is in the lane of the
first node exactly while the state is "updating" (`SlotsAt`). Lanes change in three ways: something that
was nowhere is put at an end (`PutAt`), a head is taken (`PopAt`), a lane is cleared (`ClearAt`). Each handler is a
composition of these; what it does to the slot table, the time to live and the state of
connections leaves the lanes alone (`Alike`).

Two handlers are loops. When the slots are known, each pending command is sent or lost, one after the
other (`DrainKeeps`); when a connection breaks, each command on it gets an error, which for CLUSTER
SLOTS means that the next node is asked while the broken connection is not yet released
(`BreakKeeps`). `PutAndClear` is why that is sound: the first node, which is the broken one, is
dropped before the next is chosen, so that the new request never goes to the lane that is
cleared. The loops are recursive functions; `Rounds` is the induction over their rounds.

### RestClient, TcpPeers, FileWatcher

Assumption: `ClientConstants`; no address is the name the models have for no object or for a
place in the loop. Each part has its own `IInv`, kept by its own steps, and stays as it is in those of the others.

`RestClient`: three agreements. `RequestsAgree`: `handles_` has the transfers that are not free,
and a transfer is told exactly while its callback runs, having been called once. `SocketsAgree`: a socket
has an owner as long as it has a context, and no two share one; without that, removing one socket
might close the context another still polls. `Awaited`: a timer libcurl wants is armed, and outside
libcurl each transfer that runs has a socket or the timer, in callbacks too, since a request may be
made there and `check_multi_info()` goes on after it. That the context of a running `on_event()` is
not deleted follows from closing being a callback of the loop.

`TcpPeers`: `PeersAgree` says whose a connection is. What makes the assertions of `on_write()`
hold is that `outgoing_` and libuv's queue of writes are the same sequence; those of
`tcp_client` need that `handle_` is set exactly while a connect request is to be called back. If
`connect()` came between `stop()` and the callback it cancels (`hasty`) this is lost, as section 2
says, and who owns what still holds.

`FileWatcher`: `WatchesAgree` is not inductive: unwatching a path erases the entry of its
descriptor, and that no second entry with that path stays behind needs that the path of a descriptor
leads back to it (`file2wd[wd2file[wd]] = wd`). The queues hold well-formed events.

### Guid and Loggers

`IdsUnique`: an id that was issued carries its second, and if that is the present one then this
process issued it and has passed its serial number, or it is of an earlier process (`Dated`). The
second case is over with the first tick (`InOrder`): the second of earlier processes' ids is before
the clock once `init()` has slept, and before `now` once a tick has set it. So the next id is new
unless the second came back. Assumed are a positive number of serials and time stamps, and a bound
on the seconds.

`LoggersStand`: what a start or a reload leaves behind is followed category by category to the
one where it failed. It needs in addition only that a start begins with nothing read. The log
configurations are any set of sequences of categories.

### Server, ShmLifecycle, Coroutine

Each is proved by itself (`MemoryAlone`, `LinkAlone` and the lemmas before them in `ProcessProofs`) and carried
over to `MCProcess`, where its steps are its own and the other parts leave it alone
(`ServerPart`, `MemoryPart`, `SchedulerPart`, and `LinkPart` for the link below).
`MemoryUsable` assumes that the largest request fits the mapping (see section 2). `Kept`
assumes that the names of the coroutines are not those of nobody and of the loop.

### BusLink

Assumptions of `LinkSound`: a header has at least one unit, reads, buffers and bodies have a
length. `LinkIsSound` speaks of whole messages and the steps are about units, so the invariant says
what the units are. `Chain`: what is in the buffer and in the pipe, put together, are units of
whole messages one after the other, beginning with the message after the last one handled; if
the connection has not ended the last unit is the last of the last message sent. It is stated by
neighbouring units, so that it says nothing about where a read cuts. `ChainGrows` shows that a
written message continues it, `ChainEnds` that an error which drops the pipe leaves a chain of an
ended connection, `ChainConsumed` that a buffer which begins with a whole message begins with
exactly that message's units and that the rest is a chain from the next one. A read moves units
from the pipe to the buffer and leaves the chain as it is; `Prepared` shows that `ensure_space()`
made room for it. `Carries` adds the numbers: the messages of a connection are numbered from 1 and
those handled are the first of them. `InTurn` is what holds without an excuse: one connection at a
time is open on the receiver's side, and `host2seq` is the number of messages it has handled. That
connections are accepted in order is needed to see that the one accepted has handled nothing.

### Only model-checked

* Liveness (`EverythingIsRead`, `SpinningEnds`, `NothingIsHeldUp`, `TickEnds`, `CommandsEnd`,
  `StopEnds`, `CoroutinesEnd`): fairness and ENABLED are out of the prover's reach.
* `TreeIsSound` and `ContainersAreSound`: some of the containers are recursive operators, and the slot
  of a key needs bitwise ones, with which the prover cannot be used.
* `SizeClassesFit`: a table computed with the numbers of the source, once; there is nothing to
  generalise, and TLC computes all of it.
* `OptionsParsed` and `LogKept`, the other two parts of `ServicesAreSound`: what folds over the arguments, and over the
  pieces of a log file, compute is an induction over data.

## 5. Known and not checked by a run

Seen while modelling, outside of what a run states:

* A process that dies while it holds the spin lock blocks all later registrations
  (`spin_lock.h:14`); a 129th bus id writes past the array of descriptors
  (`channel_mgr.cpp:140`). `clear()` of a closed channel may meet the daemon inside `push()` or
  `pop()` (`channel_mgr.cpp:96`), and a daemon with an old route may take a half-made descriptor
  for a channel (`channel_mgr.cpp:140-148`): both are modelled, and excepted in the properties.
* `bus::send()` returns 0 although every push failed (`bus.cpp:196`).
* The ASKING flag of a connection may be used up by another command that was sent in between
  (`redis_cluster.cpp:163`).
* What `BusLink`, `RestClient`, `TcpPeers`, `FileWatcher`, `FixedVector`, `OptionParser`, `FileSink` and `Guid`
  except is listed in their sections: each is a case the code does not handle.
* `init_shm()` comes before `lock_pid()` (`server.h:140`), so that a second instance started by
  mistake attaches the first one's memory before it finds the lock taken.

## 6. Not modelled

* Third-party code (`deps`, `utility/pugixml.*`, `common/murmurhash3.*`): more than 40 % of the
  implementation's lines. The hash is represented in `Channel` by the comparison of contents.
* String, file and time utilities (`utility`): functions and system calls without state; numbers
  and ids are converted in `OptionParser`, `crc16()` is in `MCContainers`. The log formatter and the console sink:
  text without a property.
* `stop()` and `fini()` of the daemon, which give up its queues and remove the segment.
* The texts of HTTP requests and responses and the index of the consul watch; `BusRouter` has
  what the daemon sees of them.
* `signal_watcher::unwatch()`, which nothing calls; `fini()` of the shared-memory timer and the
  registry of its callbacks; the constructors `shm_new` runs; `shm_allocator`, which passes calls
  on to `malloc` and `free`.
* Memory shared by two instances of one server, started at the same time.

## 7. Plan

The project is complete as planned. Should the prover learn induction over data, `LogKept` and the
containers would come next.

## 8. Running

    tlc -workers 2 -config MCChannel.cfg MCChannel
    tlc -workers 2 -config MCChannelMgr.cfg ChannelMgr
    tlc -workers 2 -config MCBusRouter.cfg MCBusRouter
    tlc -workers 2 -config MCBusRouterClose.cfg MCBusRouter
    tlc -workers 2 -config MCMemory.cfg MCMemory
    tlc -workers 2 -config MCPageHeapNoSpare.cfg PageHeap
    tlc -workers 2 -config MCShmTimer.cfg ShmTimer
    tlc -workers 2 -config MCShmTimerCrash.cfg ShmTimer
    tlc -workers 2 -config MCClients.cfg MCClients
    tlc -workers 2 -config MCProcess.cfg MCProcess
    tlc -workers 2 -config MCProcessSignals.cfg MCProcess
    tlc -workers 2 -config MCProcessIds.cfg MCProcess
    tlapm ChannelProofs.tla          (and ChannelMgrProofs, BusRouterProofs, PageHeapProofs,
                                      ShmAllocProofs, ShmTimerProofs, ClientProofs, ProcessProofs)
