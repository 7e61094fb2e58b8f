----------------------------- MODULE ChannelMgr -----------------------------
(***************************************************************************)
(* The registry in the bus's shared memory (src/bus/detail/channel_mgr),   *)
(* as the processes of a host use it through register_bus() and            *)
(* deregister_bus() (src/bus/bus.cpp).  A descriptor names the process     *)
(* that owns a pair of channels and the memory they occupy.                *)
(*                                                                         *)
(* Registration runs under a spin lock in shared memory, while the daemon  *)
(* takes no lock: it uses whatever channel it finds, as soon as closed is  *)
(* 0 and a magic number stands at the offset.  So every field it can see   *)
(* is written by a step of its own, a process can die between any two of   *)
(* them, and a push or a pop of the daemon can begin before such a step    *)
(* and end after it.  The lock dies with its holder: nobody else frees it. *)
(*                                                                         *)
(* Processes have bus ids of their own: register_channel() knows a         *)
(* restarted owner from another process by nothing else.                   *)
(*                                                                         *)
(* `told' and `unannounced' are history: what the daemon was told of, and  *)
(* the descriptors that were opened without it.  `left' says from which    *)
(* opening of a descriptor its channels may still hold something, and      *)
(* `straddled' which of them the daemon wrote to in a call that a clear()  *)
(* had cut in two.                                                         *)
(***************************************************************************)
EXTENDS Integers, Sequences

CONSTANTS
  Proc,        \* processes of the host, each named by the bus id it registers
  MgrSize,     \* sizeof(channel_mgr)
  ChanSize,    \* channel::calc_space
  shm_size,
  MaxReg,      \* bound: calls of register_bus
  MaxCrash,    \* bound: crashes
  MaxLost      \* bound: signals that cannot be queued

ASSUME MgrAssumption ==
  /\ MgrSize \in Nat \ {0} /\ ChanSize \in Nat \ {0} /\ shm_size \in Nat
  /\ MgrSize <= shm_size /\ 0 \notin Proc   \* a bus id is positive

VARIABLES
  lock,          \* spin_lock::lock_
  used_size,
  descriptors,   \* descriptors[0 .. descriptor_count - 1], counted from 1 here
  pc,            \* per process: step of the call in progress
  fd,            \* per process: the descriptor it was given, 0 for none
  age,           \* per process: how often it was restarted, part of its pid
  daemon,        \* the daemon's push or pop in progress
  astray,        \* the daemon took something for a channel that is not set up
  left,          \* <<i, n>>: the channels of i may hold something of its opening n
  straddled, told, unannounced, regs, crashes, lost

memory == <<used_size, descriptors>>
traffic == <<daemon, astray, left, straddled>>
history == <<told, unannounced>>
bounds == <<regs, crashes, lost>>
vars == <<lock, memory, pc, fd, age, traffic, history, bounds>>

Pid(p) == <<p, age[p]>>
NoPid == <<>>
NoOwner == 0
Fds == DOMAIN descriptors
OwnedBy(b) == {i \in Fds : descriptors[i].owner = b}
Goto(p, l) == pc' = [pc EXCEPT ![p] = l]
GiveFd(p, i) == fd' = [fd EXCEPT ![p] = i]

\* An entry past descriptor_count is still as memset() left it.
Blank == [owner |-> NoOwner, closed |-> FALSE, pid |-> NoPid, r_offset |-> 0, w_offset |-> 0,
          r |-> "blank", w |-> "blank", opening |-> 0]

\* Whether SK_MAGIC stands where a channel begins.  channel::init writes it first;
\* and the manager itself, at offset 0, begins with it.
HasMagic(offset, state) == offset = 0 \/ state # "blank"

\* Where a channel begins, for the daemon and the owner; none if its descriptor is
\* closed or the magic number is missing.
NoChannel == -1
get_read_channel(i) ==
  IF descriptors[i].closed \/ ~HasMagic(descriptors[i].r_offset, descriptors[i].r)
  THEN NoChannel ELSE descriptors[i].r_offset
get_write_channel(i) ==
  IF descriptors[i].closed \/ ~HasMagic(descriptors[i].w_offset, descriptors[i].w)
  THEN NoChannel ELSE descriptors[i].w_offset
FirstOf(b) == CHOOSE i \in OwnedBy(b) : \A j \in OwnedBy(b) : i <= j
find_read_channel(b) == IF OwnedBy(b) = {} THEN NoChannel ELSE get_read_channel(FirstOf(b))

\* channel_mgr::init, not resuming
Init ==
  /\ lock = FALSE /\ used_size = MgrSize /\ descriptors = <<>>
  /\ pc = [p \in Proc |-> "idle"] /\ fd = [p \in Proc |-> 0] /\ age = [p \in Proc |-> 0]
  /\ daemon = [fd |-> 0, opening |-> 0, stale |-> FALSE] /\ astray = FALSE
  /\ left = {} /\ straddled = {} /\ told = {} /\ unannounced = {} /\ regs = 0 /\ crashes = 0 /\ lost = 0
------------------------------------------------------------------------------
(* register_bus *)

Register(p) ==
  /\ pc[p] = "idle" /\ fd[p] = 0 /\ regs < MaxReg
  /\ Goto(p, "spin") /\ regs' = regs + 1
  /\ UNCHANGED <<lock, memory, fd, age, traffic, history, crashes, lost>>

\* Mutant: the lock is taken whoever holds it.
TestAndSet == lock' = TRUE

\* spin_lock::lock: goes on when the old value was 0.
Acquire == ~lock /\ lock' = TRUE

Locked(p) ==
  /\ pc[p] \in {"spin", "spin_del"}
  /\ Acquire
  /\ Goto(p, IF pc[p] = "spin" THEN "scan" ELSE "close")
  /\ UNCHANGED <<memory, fd, age, traffic, history, bounds>>

\* A descriptor still open: the owner was restarted, and only its pid changes.
TakeOver(p, i) == descriptors' = [descriptors EXCEPT ![i].pid = Pid(p)]

FoundOpen(p) ==
  /\ pc[p] = "scan"
  /\ \E i \in OwnedBy(p) :
       /\ ~descriptors[i].closed
       /\ TakeOver(p, i) /\ GiveFd(p, i)
  /\ Goto(p, "unlock")
  /\ UNCHANGED <<lock, used_size, age, traffic, history, bounds>>

\* A closed descriptor is to be opened again; its channels are cleared first.
FoundClosed(p) ==
  /\ pc[p] = "scan"
  /\ \E i \in OwnedBy(p) :
       /\ descriptors[i].closed
       /\ GiveFd(p, i)
  /\ Goto(p, "clear")
  /\ UNCHANGED <<lock, memory, age, traffic, history, bounds>>

ClearChannels(p) ==
  /\ pc[p] = "clear"
  /\ left' = {m \in left : m[1] # fd[p]} /\ straddled' = straddled \ {fd[p]}
  /\ daemon' = [daemon EXCEPT !.stale = @ \/ daemon.fd = fd[p]]
  /\ Goto(p, "reopen")
  /\ UNCHANGED <<lock, memory, fd, age, astray, history, bounds>>

\* The daemon finds the channels again, before it is told and before the pid is known.
Reopen(p) ==
  /\ pc[p] = "reopen"
  /\ descriptors' = [descriptors EXCEPT ![fd[p]].closed = FALSE, ![fd[p]].opening = @ + 1]
  /\ unannounced' = unannounced \cup {fd[p]}
  /\ Goto(p, "set_pid")
  /\ UNCHANGED <<lock, used_size, fd, age, traffic, told, bounds>>

\* Mutant: a descriptor opened again is not announced.
SetPidSilently(p) ==
  /\ pc[p] = "set_pid"
  /\ descriptors' = [descriptors EXCEPT ![fd[p]].pid = Pid(p)]
  /\ Goto(p, "unlock")
  /\ UNCHANGED <<lock, used_size, fd, age, traffic, history, bounds>>

SetPid(p) ==
  /\ pc[p] = "set_pid"
  /\ descriptors' = [descriptors EXCEPT ![fd[p]].pid = Pid(p)]
  /\ Goto(p, "notify")
  /\ UNCHANGED <<lock, used_size, fd, age, traffic, history, bounds>>

LeftSize == IF shm_size > used_size THEN shm_size - used_size ELSE 0

NoRoom(p) ==
  /\ pc[p] = "scan" /\ OwnedBy(p) = {} /\ LeftSize < 2 * ChanSize
  /\ Goto(p, "fail")
  /\ UNCHANGED <<lock, memory, fd, age, traffic, history, bounds>>

\* There are two channels, one for reading and one for writing.
Room == LeftSize >= 2 * ChanSize

NotFound(p) ==
  /\ pc[p] = "scan" /\ OwnedBy(p) = {} /\ Room
  /\ Goto(p, "reserve")
  /\ UNCHANGED <<lock, memory, fd, age, traffic, history, bounds>>

\* The descriptor counts from here on, blank as it is.
Reserve(p) ==
  /\ pc[p] = "reserve"
  /\ descriptors' = Append(descriptors, Blank)
  /\ GiveFd(p, Len(descriptors) + 1)
  /\ unannounced' = unannounced \cup {Len(descriptors) + 1}
  /\ Goto(p, "fill")
  /\ UNCHANGED <<lock, used_size, age, traffic, told, bounds>>

\* Its fields are written one by one.  No barrier orders them, so in any order.
Fill(p) ==
  /\ pc[p] = "fill"
  /\ LET d == descriptors[fd[p]] IN
       \/ d.owner = NoOwner /\ descriptors' = [descriptors EXCEPT ![fd[p]].owner = p]
       \/ d.pid = NoPid /\ descriptors' = [descriptors EXCEPT ![fd[p]].pid = Pid(p)]
       \/ d.r_offset = 0 /\ descriptors' = [descriptors EXCEPT ![fd[p]].r_offset = used_size]
       \/ d.w_offset = 0 /\ descriptors' = [descriptors EXCEPT ![fd[p]].w_offset = used_size + ChanSize]
  /\ UNCHANGED <<lock, used_size, pc, fd, age, traffic, history, bounds>>

Placed(i) == descriptors[i].r_offset # 0 /\ descriptors[i].w_offset # 0

\* used_size is written in between too, and read by the holder of the lock only.
Filled(p) ==
  /\ pc[p] = "fill" /\ Placed(fd[p])
  /\ descriptors[fd[p]].owner # NoOwner /\ descriptors[fd[p]].pid # NoPid
  /\ used_size' = used_size + 2 * ChanSize
  /\ Goto(p, "init_r")
  /\ UNCHANGED <<lock, descriptors, fd, age, traffic, history, bounds>>

\* channel::init: the magic number, then everything else.
Further(state) == IF state = "blank" THEN "magic" ELSE "ready"

InitRead(p) ==
  /\ pc[p] = "init_r"
  /\ descriptors' = [descriptors EXCEPT ![fd[p]].r = Further(@)]
  /\ Goto(p, IF descriptors[fd[p]].r = "blank" THEN "init_r" ELSE "init_w")
  /\ UNCHANGED <<lock, used_size, fd, age, traffic, history, bounds>>

\* Mutant: the daemon hears of the descriptor before the write channel is set up.
InitWriteEarly(p) ==
  /\ pc[p] = "init_w"
  /\ descriptors' = [descriptors EXCEPT ![fd[p]].w = Further(@)]
  /\ Goto(p, "notify")
  /\ UNCHANGED <<lock, used_size, fd, age, traffic, history, bounds>>

InitWrite(p) ==
  /\ pc[p] = "init_w"
  /\ descriptors' = [descriptors EXCEPT ![fd[p]].w = Further(@)]
  /\ Goto(p, IF descriptors[fd[p]].w = "blank" THEN "init_w" ELSE "notify")
  /\ UNCHANGED <<lock, used_size, fd, age, traffic, history, bounds>>

Told(i) == told' = told \cup {i} /\ unannounced' = unannounced \ {i}

\* notify_channel_change; when it fails the call fails, with the descriptor open.
Notify(p) ==
  /\ pc[p] = "notify"
  /\ \/ Told(fd[p]) /\ Goto(p, "unlock") /\ UNCHANGED lost
     \/ lost < MaxLost /\ lost' = lost + 1 /\ Goto(p, "fail") /\ UNCHANGED history
  /\ UNCHANGED <<lock, memory, fd, age, traffic, regs, crashes>>

Unlock(p) ==
  /\ pc[p] = "unlock"
  /\ lock' = FALSE
  /\ Goto(p, "registered")
  /\ UNCHANGED <<memory, fd, age, traffic, history, bounds>>

\* Mutant: the lock is kept on the error paths.
FailedKeepsLock(p) ==
  /\ pc[p] = "fail"
  /\ Goto(p, "idle") /\ GiveFd(p, 0) /\ age' = [age EXCEPT ![p] = @ + 1]
  /\ UNCHANGED <<lock, memory, traffic, history, bounds>>

\* An error: the guard releases the lock and the process gives up.
UnlockFailed(p) ==
  /\ pc[p] = "fail"
  /\ lock' = FALSE
  /\ Goto(p, "idle") /\ GiveFd(p, 0) /\ age' = [age EXCEPT ![p] = @ + 1]
  /\ UNCHANGED <<memory, traffic, history, bounds>>
------------------------------------------------------------------------------
(* Messages *)

Opening(i) == descriptors[i].opening

\* A registered process sends or receives a message.
Traffic(p) ==
  /\ pc[p] = "registered"
  /\ get_write_channel(fd[p]) # NoChannel \/ get_read_channel(fd[p]) # NoChannel
  /\ left' = left \cup {<<fd[p], Opening(fd[p])>>}
  /\ UNCHANGED <<lock, memory, pc, fd, age, daemon, astray, straddled, history, bounds>>

DaemonIdle == daemon.fd = 0
DaemonIn(i) == daemon' = [fd |-> i, opening |-> Opening(i), stale |-> FALSE]

\* The daemon finds the channel for a message to b, whatever its owner is doing.
DaemonPush(b) ==
  /\ DaemonIdle /\ find_read_channel(b) # NoChannel
  /\ descriptors[FirstOf(b)].r = "ready"
  /\ DaemonIn(FirstOf(b))
  /\ UNCHANGED <<lock, memory, pc, fd, age, astray, left, straddled, history, bounds>>

\* The same, with a route to b that consul has kept from an earlier segment, while
\* b registers in this one: what the daemon takes for a channel is half made, or
\* the manager itself.  What follows is undefined, and the model ends here.
DaemonAstray(b) ==
  /\ DaemonIdle /\ find_read_channel(b) # NoChannel
  /\ descriptors[FirstOf(b)].r # "ready"
  /\ astray' = TRUE
  /\ UNCHANGED <<lock, memory, pc, fd, age, daemon, left, straddled, history, bounds>>

\* It is signalled, and takes a message that the owner has sent.
DaemonPop(i) ==
  /\ DaemonIdle /\ (\E m \in left : m[1] = i) /\ get_write_channel(i) # NoChannel
  /\ DaemonIn(i)
  /\ UNCHANGED <<lock, memory, pc, fd, age, astray, left, straddled, history, bounds>>

\* write_pos or read_pos is set from what was read when the call began: after a
\* clear() of the channel this shows again what was in it before.
DaemonEnd ==
  /\ daemon.fd # 0
  /\ daemon' = [fd |-> 0, opening |-> 0, stale |-> FALSE]
  /\ left' = left \cup {<<daemon.fd, daemon.opening>>}
  /\ straddled' = IF daemon.stale THEN straddled \cup {daemon.fd} ELSE straddled
  /\ UNCHANGED <<lock, memory, pc, fd, age, astray, history, bounds>>

Daemon == DaemonEnd \/ (\E b \in Proc : DaemonPush(b) \/ DaemonAstray(b)) \/ \E i \in Fds : DaemonPop(i)
------------------------------------------------------------------------------
(* deregister_bus *)

Deregister(p) ==
  /\ pc[p] = "registered"
  /\ Goto(p, "spin_del")
  /\ UNCHANGED <<lock, memory, fd, age, traffic, history, bounds>>

Close(p) ==
  /\ pc[p] = "close"
  /\ \E i \in OwnedBy(p) :
       descriptors' = [descriptors EXCEPT ![i].closed = TRUE]
  /\ Goto(p, "unset_pid")
  /\ UNCHANGED <<lock, used_size, fd, age, traffic, history, bounds>>

UnsetPid(p) ==
  /\ pc[p] = "unset_pid"
  /\ descriptors' = [descriptors EXCEPT ![fd[p]].pid = NoPid]
  /\ Goto(p, "notify_del")
  /\ UNCHANGED <<lock, used_size, fd, age, traffic, history, bounds>>

\* A failure to notify is only logged.
NotifyClosed(p) ==
  /\ pc[p] = "notify_del"
  /\ \/ Told(fd[p]) /\ UNCHANGED lost
     \/ lost < MaxLost /\ lost' = lost + 1 /\ UNCHANGED history
  /\ Goto(p, "unlock_del")
  /\ UNCHANGED <<lock, memory, fd, age, traffic, regs, crashes>>

UnlockClosed(p) ==
  /\ pc[p] = "unlock_del"
  /\ lock' = FALSE
  /\ Goto(p, "idle") /\ GiveFd(p, 0) /\ age' = [age EXCEPT ![p] = @ + 1]
  /\ UNCHANGED <<memory, traffic, history, bounds>>

\* Shared memory, the lock in it included, is left as it was.
Crash(p) ==
  /\ pc[p] # "idle" /\ crashes < MaxCrash
  /\ crashes' = crashes + 1
  /\ Goto(p, "idle") /\ GiveFd(p, 0) /\ age' = [age EXCEPT ![p] = @ + 1]
  /\ UNCHANGED <<lock, memory, traffic, history, regs, lost>>

Step(p) ==
  /\ ~astray
  /\ \/ Locked(p) \/ FoundOpen(p) \/ FoundClosed(p) \/ ClearChannels(p) \/ Reopen(p) \/ SetPid(p)
     \/ NoRoom(p) \/ NotFound(p) \/ Reserve(p) \/ Fill(p) \/ Filled(p) \/ InitRead(p) \/ InitWrite(p)
     \/ Notify(p) \/ Unlock(p) \/ UnlockFailed(p)
     \/ Close(p) \/ UnsetPid(p) \/ NotifyClosed(p) \/ UnlockClosed(p)

Next ==
  /\ ~astray
  /\ \/ \E p \in Proc : Register(p) \/ Step(p) \/ Traffic(p) \/ Deregister(p) \/ Crash(p)
     \/ Daemon

Spec == Init /\ [][Next]_vars

\* A process inside a call runs on; nobody is obliged to make one.
FairSpec == Spec /\ \A p \in Proc : WF_vars(Step(p))
------------------------------------------------------------------------------
\* Types of struct channel_mgr, of the calls in progress and of the traffic.
TypeOK ==
  /\ lock \in BOOLEAN /\ astray \in BOOLEAN /\ used_size \in MgrSize .. shm_size
  /\ \A i \in Fds :
       LET d == descriptors[i] IN
         /\ d.owner \in Proc \cup {NoOwner} /\ d.closed \in BOOLEAN
         /\ d.r \in {"blank", "magic", "ready"} /\ d.w \in {"blank", "magic", "ready"}
         /\ d.r_offset \in Nat /\ d.w_offset \in Nat /\ d.opening \in Nat
  /\ \A p \in Proc : fd[p] \in Fds \cup {0}
  /\ daemon.fd \in Fds \cup {0} /\ straddled \subseteq Fds

Extent(off) == off .. off + ChanSize - 1
Places(i) == {descriptors[i].r_offset, descriptors[i].w_offset} \ {0}

\* The channels of all descriptors lie in the segment behind the manager and
\* do not overlap, and a bus id has one descriptor only, whoever registers
\* at the same time and wherever a process dies.  A descriptor that is not
\* written to its end is the last one, and nobody else sees it in a call: the
\* lock is held by the process that writes it, or for ever if that one died.
\* (Nothing is said once the daemon has gone astray; and the state has its
\* type.)
ChannelsApart ==
  ~astray =>
  /\ TypeOK
  /\ \A i \in Fds :
       /\ \A o \in Places(i) : Extent(o) \subseteq MgrSize .. shm_size - 1
       /\ Placed(i) => Extent(descriptors[i].r_offset) \cap Extent(descriptors[i].w_offset) = {}
       /\ (Placed(i) /\ descriptors[i].owner # NoOwner) \/ (i = Len(descriptors) /\ lock)
  /\ \A i, j \in Fds : i # j =>
       /\ descriptors[i].owner # descriptors[j].owner
       /\ \A o \in Places(i), q \in Places(j) : Extent(o) \cap Extent(q) = {}

SetUp(i) == descriptors[i].r = "ready" /\ descriptors[i].w = "ready"

\* The channels of i hold nothing from before it was last opened.
Tidy(i) == \A m \in left : m[1] = i => m[2] = Opening(i)

\* The daemon is told of a descriptor only when both its channels are set up, and
\* whoever reopens one finds them set up (the assertions on their magic numbers).
\* As long as a descriptor is open its channels hold nothing of an earlier opening,
\* although the daemon uses them from the moment closed is 0: except where a call
\* of the daemon had begun before the channels were cleared and ended after it.
ToldOnlyWhenReady ==
  ~astray =>
  /\ \A i \in told : SetUp(i)
  /\ \A p \in Proc : pc[p] = "clear" => SetUp(fd[p])
  /\ \A i \in Fds : descriptors[i].closed \/ Tidy(i) \/ i \in straddled

\* What a successful register_bus() leaves stands until deregister_bus(): the
\* descriptor is the caller's, open, and carries the pid of this incarnation,
\* which is where the daemon sends its signals; the caller finds the channel it
\* writes to, and the daemon, by the bus id, the one it reads from.  The daemon has
\* been told of it, unless a signal was lost.
RegistrationStands ==
  ~astray => \A p \in Proc : pc[p] = "registered" =>
    LET d == descriptors[fd[p]] IN
      /\ d.owner = p /\ ~d.closed /\ d.pid = Pid(p)
      /\ get_write_channel(fd[p]) = d.w_offset /\ find_read_channel(p) = d.r_offset
      /\ lost = 0 => fd[p] \notin unannounced

\* Unless a process dies, or the daemon goes astray, nobody spins for ever.
SpinningEnds ==
  \A p \in Proc, l \in {"spin", "spin_del"} :
    (pc[p] = l) ~> (pc[p] # l \/ crashes > 0 \/ astray)
==============================================================================
