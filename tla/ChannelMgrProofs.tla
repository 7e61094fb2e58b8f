-------------------------- MODULE ChannelMgrProofs --------------------------
(***************************************************************************)
(* Proofs about the channel registry, for any number of processes, any     *)
(* segment and any number of crashes and lost signals.  The invariant that *)
(* makes it safe, IInv, says who may be inside the lock, that descriptors  *)
(* are laid out one behind another, that only the last one can be half     *)
(* made, and only while the lock is held, and what each step of a call     *)
(* relies on: the descriptor it was given is its own, as far written, set  *)
(* up or cleared as the call has got, and still to be announced only by    *)
(* the process that opened it.  Its last part is about the daemon, which   *)
(* takes no lock.                                                          *)
(***************************************************************************)
EXTENDS ChannelMgr, TLAPS

-----------------------------------------------------------------------------
(* The inductive invariant *)

\* Steps between spin_lock::lock and spin_lock::unlock; those of a process that
\* makes a new descriptor.
Making == {"fill", "init_r", "init_w"}
Critical ==
  Making \cup {"scan", "clear", "reopen", "set_pid", "reserve", "notify", "unlock", "fail",
               "close", "unset_pid", "notify_del", "unlock_del"}
Label == Critical \cup {"idle", "spin", "registered", "spin_del"}

\* Steps that rely on the descriptor the call was given; those at which it is
\* open and carries the caller's pid; those at which it is closed; and those that
\* have opened it and not yet told the daemon.
Holding == {"clear", "reopen", "set_pid", "init_r", "init_w", "notify", "unlock", "registered",
            "spin_del", "close", "unset_pid", "notify_del", "unlock_del"}
Opened == {"init_r", "init_w", "notify", "unlock", "registered", "spin_del", "close"}
Shut == {"clear", "reopen"}
Announcing == Making \cup {"set_pid", "notify"}

States == {"blank", "magic", "ready"}
Descriptor ==
  [owner : Proc \cup {NoOwner}, closed : BOOLEAN, pid : (Proc \X Nat) \cup {NoPid},
   r_offset : Nat, w_offset : Nat, r : States, w : States, opening : Nat]

Types ==
  /\ lock \in BOOLEAN /\ used_size \in MgrSize .. shm_size
  /\ descriptors \in Seq(Descriptor)
  /\ pc \in [Proc -> Label] /\ fd \in [Proc -> Nat] /\ age \in [Proc -> Nat]
  /\ lost \in Nat

\* The lock is held by one process at most.  Nobody is inside and yet the lock
\* is held once a holder has died.
Mutex == \A p \in Proc : pc[p] \in Critical =>
           lock /\ \A q \in Proc : pc[q] \in Critical => q = p

\* A descriptor's two channels lie side by side in the part of the segment that
\* is used, or they are being placed behind it.
Below(i) ==
  /\ MgrSize <= descriptors[i].r_offset
  /\ descriptors[i].w_offset = descriptors[i].r_offset + ChanSize
  /\ descriptors[i].w_offset + ChanSize <= used_size
Above(i) ==
  /\ descriptors[i].r_offset \in {0, used_size}
  /\ descriptors[i].w_offset \in {0, used_size + ChanSize}
  /\ used_size + 2 * ChanSize <= shm_size
Last(i) == lock /\ i = Len(descriptors)

Layout ==
  /\ \A i \in Fds : Below(i) \/ (Last(i) /\ Above(i))
  /\ \A i, j \in Fds : i < j /\ Below(i) /\ Below(j) =>
                         descriptors[i].w_offset + ChanSize <= descriptors[j].r_offset

OneEach ==
  /\ \A i \in Fds : descriptors[i].owner \in Proc \/ Last(i)
  /\ \A i, j \in Fds : descriptors[i].owner = descriptors[j].owner => i = j

\* What the scan found still stands when the descriptor is added, and until its
\* owner is written.
Reserving == \A p \in Proc :
  /\ pc[p] = "reserve" =>
       used_size + 2 * ChanSize <= shm_size /\ \A i \in Fds : descriptors[i].owner # p
  /\ pc[p] = "fill" => \A i \in Fds \ {fd[p]} : descriptors[i].owner # p

\* A call's descriptor is the caller's; one that is being written is the last.
Own == \A p \in Proc :
  /\ fd[p] \in Fds \cup {0}
  /\ pc[p] \in Holding => fd[p] \in Fds /\ descriptors[fd[p]].owner = p
  /\ pc[p] = "fill" => fd[p] \in Fds /\ fd[p] = Len(descriptors)

\* How far a new descriptor has got.
Made == \A p \in Proc :
  /\ pc[p] = "fill" =>
       /\ Above(fd[p]) /\ ~descriptors[fd[p]].closed
       /\ descriptors[fd[p]].owner \in {NoOwner, p} /\ descriptors[fd[p]].pid \in {NoPid, Pid(p)}
  /\ pc[p] \in {"init_r", "init_w"} => Below(fd[p])
  /\ pc[p] = "init_w" => descriptors[fd[p]].r = "ready"

\* Descriptors are complete, but for that of the process that is making it or
\* that died doing so, holding the lock.
Done(i) == Below(i) /\ SetUp(i) /\ descriptors[i].owner \in Proc
Ready ==
  /\ ~lock => \A i \in Fds : Done(i)
  /\ \A p \in Proc :
       /\ pc[p] \in Critical \ Making => \A i \in Fds : Done(i)
       /\ pc[p] \in Making => \A i \in Fds \ {fd[p]} : Done(i)
       /\ pc[p] \in {"registered", "spin_del"} => Done(fd[p])
  /\ \A i \in told : i \in Fds /\ Done(i)

Open == \A p \in Proc :
  /\ pc[p] \in Opened \cup {"set_pid"} => ~descriptors[fd[p]].closed
  /\ pc[p] \in Opened => descriptors[fd[p]].pid = Pid(p)
  /\ pc[p] \in Shut => descriptors[fd[p]].closed

\* While no signal was lost, what the daemon has not been told of is being
\* announced, or was when its process died.
Announced == lost = 0 =>
  /\ ~lock => unannounced = {}
  /\ \A p \in Proc :
       /\ pc[p] \in Critical \ Announcing => unannounced = {}
       /\ pc[p] \in Announcing => unannounced \subseteq {fd[p]}
       /\ pc[p] \in {"registered", "spin_del"} => fd[p] \notin unannounced

\* An open descriptor holds nothing of an earlier opening, and one that has just
\* been cleared nothing at all, unless a call of the daemon was cut in two.  A call
\* that was not is of the present opening, or its descriptor is closed and not
\* cleared yet.
Clean ==
  /\ left \subseteq Fds \X Nat /\ straddled \subseteq Fds
  /\ daemon \in [fd : Fds \cup {0}, opening : Nat, stale : BOOLEAN]
  /\ \A i \in Fds : descriptors[i].closed \/ Tidy(i) \/ i \in straddled
  /\ \A p \in Proc : pc[p] = "reopen" =>
       /\ fd[p] \in straddled \/ \A m \in left : m[1] # fd[p]
       /\ daemon.fd = fd[p] => daemon.stale
  /\ daemon.fd # 0 /\ ~daemon.stale =>
       descriptors[daemon.fd].closed \/ daemon.opening = Opening(daemon.fd)

Core ==
  /\ Types /\ Mutex /\ Layout /\ OneEach /\ Reserving
  /\ Own /\ Made /\ Ready /\ Open /\ Announced
IInv == Core /\ Clean
-----------------------------------------------------------------------------
(* Frames *)

\* The label a step leads to, and everybody else's.
LEMMA Moved ==
  ASSUME Core, NEW p \in Proc, NEW l \in Label, Goto(p, l)
  PROVE  /\ pc' \in [Proc -> Label] /\ pc'[p] = l
         /\ \A q \in Proc : q # p => pc'[q] = pc[q]
BY DEF Core, Types, Goto

\* Descriptors are counted from 1.
LEMMA FdType ==
  ASSUME Types
  PROVE  /\ Fds = 1 .. Len(descriptors) /\ Len(descriptors) \in Nat
         /\ \A i \in Fds : i \in Nat \ {0} /\ descriptors[i] \in Descriptor
BY DEF Types, Fds

\* The descriptor a step gives its process.
LEMMA Given ==
  ASSUME Types, NEW p \in Proc, NEW i \in Nat, fd' = [fd EXCEPT ![p] = i]
  PROVE  /\ fd' \in [Proc -> Nat] /\ fd'[p] = i
         /\ \A q \in Proc : q # p => fd'[q] = fd[q]
BY DEF Types

\* What a step leaves standing that leaves the descriptors alone, and releases the
\* lock only when all of them are complete.
LEMMA SameMemory ==
  ASSUME Core, UNCHANGED memory, lock' \in BOOLEAN, (lock => lock') \/ \A i \in Fds : Done(i)
  PROVE  /\ Layout' /\ OneEach' /\ Fds' = Fds
         /\ used_size' \in MgrSize .. shm_size /\ descriptors' \in Seq(Descriptor)
<1>1. Fds' = Fds /\ used_size' \in MgrSize .. shm_size /\ descriptors' \in Seq(Descriptor)
  BY DEF Core, Types, Fds, memory
<1>2. Layout'
  BY <1>1 DEF Core, Layout, Done, Below, Above, Last, memory
<1>3. OneEach'
  BY <1>1 DEF Core, OneEach, Done, Last, memory
<1> QED BY <1>1, <1>2, <1>3

\* What the daemon's part of the invariant needs of a step of a process: nothing is
\* opened, and no process is about to open a descriptor that was not before.
LEMMA CleanKept ==
  ASSUME Core, Clean, UNCHANGED traffic, Fds \subseteq Fds',
         \A i \in Fds : /\ descriptors'[i].opening = descriptors[i].opening
                        /\ descriptors[i].closed => descriptors'[i].closed,
         \A p \in Proc : pc'[p] = "reopen" => pc[p] = "reopen" /\ fd'[p] = fd[p]
  PROVE  Clean'
<1>1. /\ left' = left /\ straddled' = straddled /\ daemon' = daemon
      /\ 0 \notin Fds
  BY FdType DEF traffic, Core
<1>2. left' \subseteq Fds' \X Nat /\ straddled' \subseteq Fds'
      /\ daemon' \in [fd : Fds' \cup {0}, opening : Nat, stale : BOOLEAN]
  BY <1>1 DEF Clean
<1>3. ASSUME NEW i \in Fds'
      PROVE  descriptors'[i].closed \/ i \in straddled'
             \/ \A m \in left' : m[1] = i => m[2] = descriptors'[i].opening
  <2>1. CASE i \in Fds
    BY <1>1, <2>1 DEF Clean, Tidy, Opening
  <2>2. CASE i \notin Fds
    BY <1>1, <2>2 DEF Clean
  <2> QED BY <2>1, <2>2
<1>4. \A p \in Proc : pc'[p] = "reopen" =>
        /\ fd'[p] \in straddled' \/ \A m \in left' : m[1] # fd'[p]
        /\ daemon'.fd = fd'[p] => daemon'.stale
  BY <1>1 DEF Clean
<1>5. daemon'.fd # 0 /\ ~daemon'.stale =>
        descriptors'[daemon'.fd].closed \/ daemon'.opening = descriptors'[daemon'.fd].opening
  BY <1>1 DEF Clean, Opening
<1> QED BY <1>2, <1>3, <1>4, <1>5 DEF Clean, Tidy, Opening
-----------------------------------------------------------------------------
(* Steps that leave the descriptors alone *)

\* A call begins: nothing is touched yet.
LEMMA RegisterInv ==
  ASSUME IInv, NEW p \in Proc, Register(p)
  PROVE  IInv'
<1>1. /\ pc[p] = "idle" /\ Goto(p, "spin")
      /\ UNCHANGED <<lock, used_size, descriptors, fd, age, traffic, told, unannounced, lost>>
  BY DEF Register, memory, history, bounds
<1>2. /\ pc' \in [Proc -> Label] /\ pc'[p] = "spin"
      /\ \A q \in Proc : q # p => pc'[q] = pc[q]
  BY <1>1, Moved DEF Label, Critical, Making, IInv
<1>3. Layout' /\ OneEach' /\ Fds' = Fds /\ Types'
  BY <1>1, <1>2, SameMemory DEF memory, IInv, Core, Types
<1>4. Mutex' /\ Reserving'
  BY <1>1, <1>2, <1>3 DEF IInv, Core, Mutex, Reserving, Critical, Making
<1>5. Own' /\ Open' /\ Made'
  BY <1>1, <1>2, <1>3 DEF IInv, Core, Types, Own, Open, Made, Holding, Opened, Shut, Above, Below, Pid
<1>6. Ready'
  BY <1>1, <1>2, <1>3 DEF IInv, Core, Ready, Done, Below, SetUp, Critical, Making, Mutex
<1>7. Announced'
  BY <1>1, <1>2, <1>3 DEF IInv, Core, Announced, Critical, Announcing, Making, Mutex
<1>8. Clean'
  BY <1>1, <1>2, <1>3, CleanKept DEF IInv, traffic
<1> QED BY <1>3, <1>4, <1>5, <1>6, <1>7, <1>8 DEF IInv, Core

\* So does deregister_bus().
LEMMA DeregisterInv ==
  ASSUME IInv, NEW p \in Proc, Deregister(p)
  PROVE  IInv'
<1>1. /\ pc[p] = "registered" /\ Goto(p, "spin_del")
      /\ UNCHANGED <<lock, used_size, descriptors, fd, age, traffic, told, unannounced, lost>>
  BY DEF Deregister, memory, history, bounds
<1>2. /\ pc' \in [Proc -> Label] /\ pc'[p] = "spin_del"
      /\ \A q \in Proc : q # p => pc'[q] = pc[q]
  BY <1>1, Moved DEF Label, Critical, Making, IInv
<1>3. Layout' /\ OneEach' /\ Fds' = Fds /\ Types'
  BY <1>1, <1>2, SameMemory DEF memory, IInv, Core, Types
<1>4. Mutex' /\ Reserving'
  BY <1>1, <1>2, <1>3 DEF IInv, Core, Mutex, Reserving, Critical, Making
<1>5. Own' /\ Open' /\ Made'
  BY <1>1, <1>2, <1>3 DEF IInv, Core, Types, Own, Open, Made, Holding, Opened, Shut, Above, Below, Pid
<1>6. Ready'
  BY <1>1, <1>2, <1>3 DEF IInv, Core, Ready, Done, Below, SetUp, Critical, Making, Mutex
<1>7. Announced'
  BY <1>1, <1>2, <1>3 DEF IInv, Core, Announced, Critical, Announcing, Making, Mutex
<1>8. Clean'
  BY <1>1, <1>2, <1>3, CleanKept DEF IInv, traffic
<1> QED BY <1>3, <1>4, <1>5, <1>6, <1>7, <1>8 DEF IInv, Core

\* The lock is taken only when nobody is inside and everything is set up.
LEMMA LockedInv ==
  ASSUME IInv, NEW p \in Proc, Locked(p)
  PROVE  IInv'
<1>0. PICK l \in {"scan", "close"} :
        Goto(p, l) /\ (pc[p] = "spin" => l = "scan") /\ (pc[p] = "spin_del" => l = "close")
  BY DEF Locked
<1>1. /\ pc[p] \in {"spin", "spin_del"} /\ Goto(p, l) /\ ~lock /\ lock' = TRUE
      /\ UNCHANGED <<used_size, descriptors, fd, age, traffic, told, unannounced, lost>>
  BY <1>0 DEF Locked, Acquire, memory, history, bounds
<1>2. /\ pc' \in [Proc -> Label] /\ pc'[p] = l
      /\ \A q \in Proc : q # p => pc'[q] = pc[q]
  BY <1>0, Moved DEF Label, Critical, Making, IInv
<1>3. Layout' /\ OneEach' /\ Fds' = Fds /\ Types'
  BY <1>1, <1>2, SameMemory DEF memory, IInv, Core, Types
<1>4. Mutex' /\ Reserving'
  BY <1>1, <1>2, <1>3 DEF IInv, Core, Mutex, Reserving, Critical, Making
<1>5. Own' /\ Open' /\ Made'
  BY <1>0, <1>1, <1>2, <1>3 DEF IInv, Core, Types, Own, Open, Made, Holding, Opened, Shut, Above, Below, Pid
<1>6. Ready'
  BY <1>1, <1>2, <1>3 DEF IInv, Core, Ready, Done, Below, SetUp, Critical, Making, Mutex
<1>7. Announced'
  BY <1>1, <1>2, <1>3 DEF IInv, Core, Announced, Critical, Announcing, Making, Mutex
<1>8. Clean'
  BY <1>1, <1>2, <1>3, CleanKept DEF IInv, traffic
<1> QED BY <1>3, <1>4, <1>5, <1>6, <1>7, <1>8 DEF IInv, Core

\* A closed descriptor of the caller's is taken for reuse.
LEMMA FoundClosedInv ==
  ASSUME IInv, NEW p \in Proc, FoundClosed(p)
  PROVE  IInv'
<1>0. PICK i \in Fds : /\ fd' = [fd EXCEPT ![p] = i] /\ descriptors[i].owner = p
                       /\ descriptors[i].closed
  BY DEF FoundClosed, OwnedBy, GiveFd
<1>1. /\ pc[p] = "scan" /\ Goto(p, "clear")
      /\ UNCHANGED <<lock, used_size, descriptors, age, traffic, told, unannounced, lost>>
  BY DEF FoundClosed, memory, history, bounds
<1>2. /\ pc' \in [Proc -> Label] /\ pc'[p] = "clear"
      /\ \A q \in Proc : q # p => pc'[q] = pc[q]
      /\ fd' \in [Proc -> Nat] /\ fd'[p] = i
      /\ \A q \in Proc : q # p => fd'[q] = fd[q]
  <2>1. i \in Nat
    BY FdType DEF IInv, Core
  <2> QED BY <1>0, <1>1, <2>1, Moved, Given DEF Label, Critical, IInv, Core
<1>3. Layout' /\ OneEach' /\ Fds' = Fds /\ Types'
  BY <1>1, <1>2, SameMemory DEF memory, IInv, Core, Types
<1>4. Mutex' /\ Reserving'
  BY <1>1, <1>2, <1>3 DEF IInv, Core, Mutex, Reserving, Critical, Making
<1>5. Own' /\ Open' /\ Made'
  BY <1>0, <1>1, <1>2, <1>3 DEF IInv, Core, Types, Own, Open, Made, Holding, Opened, Shut, Above, Below, Pid
<1>6. Ready'
  BY <1>1, <1>2, <1>3 DEF IInv, Core, Ready, Done, Below, SetUp, Critical, Making, Mutex
<1>7. Announced'
  BY <1>1, <1>2, <1>3 DEF IInv, Core, Announced, Critical, Announcing, Making, Mutex
<1>8. Clean'
  BY <1>1, <1>2, <1>3, CleanKept DEF IInv, traffic
<1> QED BY <1>3, <1>4, <1>5, <1>6, <1>7, <1>8 DEF IInv, Core

\* No room: the call will fail.
LEMMA NoRoomInv ==
  ASSUME IInv, NEW p \in Proc, NoRoom(p)
  PROVE  IInv'
<1>1. /\ pc[p] = "scan" /\ Goto(p, "fail")
      /\ UNCHANGED <<lock, used_size, descriptors, fd, age, traffic, told, unannounced, lost>>
  BY DEF NoRoom, memory, history, bounds
<1>2. /\ pc' \in [Proc -> Label] /\ pc'[p] = "fail"
      /\ \A q \in Proc : q # p => pc'[q] = pc[q]
  BY <1>1, Moved DEF Label, Critical, Making, IInv
<1>3. Layout' /\ OneEach' /\ Fds' = Fds /\ Types'
  BY <1>1, <1>2, SameMemory DEF memory, IInv, Core, Types
<1>4. Mutex' /\ Reserving'
  BY <1>1, <1>2, <1>3 DEF IInv, Core, Mutex, Reserving, Critical, Making
<1>5. Own' /\ Open' /\ Made'
  BY <1>1, <1>2, <1>3 DEF IInv, Core, Types, Own, Open, Made, Holding, Opened, Shut, Above, Below, Pid
<1>6. Ready'
  BY <1>1, <1>2, <1>3 DEF IInv, Core, Ready, Done, Below, SetUp, Critical, Making, Mutex
<1>7. Announced'
  BY <1>1, <1>2, <1>3 DEF IInv, Core, Announced, Critical, Announcing, Making, Mutex
<1>8. Clean'
  BY <1>1, <1>2, <1>3, CleanKept DEF IInv, traffic
<1> QED BY <1>3, <1>4, <1>5, <1>6, <1>7, <1>8 DEF IInv, Core

\* The scan found no descriptor of the caller's, and room for one.
LEMMA NotFoundInv ==
  ASSUME IInv, NEW p \in Proc, NotFound(p)
  PROVE  IInv'
<1>1. /\ pc[p] = "scan" /\ Goto(p, "reserve") /\ OwnedBy(p) = {} /\ Room
      /\ UNCHANGED <<lock, used_size, descriptors, fd, age, traffic, told, unannounced, lost>>
  BY DEF NotFound, memory, history, bounds
<1>2. /\ pc' \in [Proc -> Label] /\ pc'[p] = "reserve"
      /\ \A q \in Proc : q # p => pc'[q] = pc[q]
  BY <1>1, Moved DEF Label, Critical, Making, IInv
<1>3. Layout' /\ OneEach' /\ Fds' = Fds /\ Types'
  BY <1>1, <1>2, SameMemory DEF memory, IInv, Core, Types
<1>4. Mutex' /\ Reserving'
  <2>1. used_size + 2 * ChanSize <= shm_size
    BY <1>1, MgrAssumption DEF Room, LeftSize, IInv, Core, Types
  <2>2. \A i \in Fds : descriptors[i].owner # p
    BY <1>1 DEF OwnedBy
  <2>3. Mutex'
    BY <1>1, <1>2 DEF IInv, Core, Mutex, Critical, Making
  <2>4. Reserving'
    BY <1>1, <1>2, <1>3, <2>1, <2>2 DEF IInv, Core, Reserving
  <2> QED BY <2>3, <2>4
<1>5. Own' /\ Open' /\ Made'
  BY <1>1, <1>2, <1>3 DEF IInv, Core, Types, Own, Open, Made, Holding, Opened, Shut, Above, Below, Pid
<1>6. Ready'
  BY <1>1, <1>2, <1>3 DEF IInv, Core, Ready, Done, Below, SetUp, Critical, Making, Mutex
<1>7. Announced'
  BY <1>1, <1>2, <1>3 DEF IInv, Core, Announced, Critical, Announcing, Making, Mutex
<1>8. Clean'
  BY <1>1, <1>2, <1>3, CleanKept DEF IInv, traffic
<1> QED BY <1>3, <1>4, <1>5, <1>6, <1>7, <1>8 DEF IInv, Core

\* The daemon is told of a descriptor that is set up, or the call fails.
LEMMA NotifyInv ==
  ASSUME IInv, NEW p \in Proc, Notify(p)
  PROVE  IInv'
<1>1. /\ pc[p] = "notify"
      /\ \/ Told(fd[p]) /\ Goto(p, "unlock") /\ lost' = lost
         \/ lost' = lost + 1 /\ Goto(p, "fail") /\ UNCHANGED <<told, unannounced>>
      /\ UNCHANGED <<lock, used_size, descriptors, fd, age, traffic>>
  BY DEF Notify, memory, history
<1>2. /\ pc' \in [Proc -> Label] /\ pc'[p] \in {"unlock", "fail"}
      /\ \A q \in Proc : q # p => pc'[q] = pc[q]
  BY <1>1, Moved DEF Label, Critical, Making, IInv
<1>3. Layout' /\ OneEach' /\ Fds' = Fds /\ Types'
  BY <1>1, <1>2, SameMemory DEF memory, IInv, Core, Types
<1>4. Mutex' /\ Reserving'
  BY <1>1, <1>2, <1>3 DEF IInv, Core, Mutex, Reserving, Critical, Making
<1>5. Own' /\ Open' /\ Made'
  BY <1>1, <1>2, <1>3 DEF IInv, Core, Types, Own, Open, Made, Holding, Opened, Shut, Above, Below, Pid
<1>6. Ready'
  BY <1>1, <1>2, <1>3 DEF IInv, Core, Ready, Done, Below, SetUp, Critical, Making, Mutex, Own, Holding, Told
<1>7. Announced'
  <2>1. lost' = lost + 1 => lost' # 0
    BY DEF IInv, Core, Types
  <2> QED BY <1>1, <1>2, <2>1 DEF IInv, Core, Announced, Critical, Announcing, Making, Mutex, Told
<1>8. Clean'
  BY <1>1, <1>2, <1>3, CleanKept DEF IInv, traffic
<1> QED BY <1>3, <1>4, <1>5, <1>6, <1>7, <1>8 DEF IInv, Core

\* The call has succeeded: the lock is released with everything set up.
LEMMA UnlockInv ==
  ASSUME IInv, NEW p \in Proc, Unlock(p)
  PROVE  IInv'
<1>1. /\ pc[p] = "unlock" /\ Goto(p, "registered") /\ lock' = FALSE
      /\ UNCHANGED <<used_size, descriptors, fd, age, traffic, told, unannounced, lost>>
  BY DEF Unlock, memory, history, bounds
<1>2. /\ pc' \in [Proc -> Label] /\ pc'[p] = "registered"
      /\ \A q \in Proc : q # p => pc'[q] = pc[q]
  BY <1>1, Moved DEF Label, Critical, Making, IInv
<1>3. Layout' /\ OneEach' /\ Fds' = Fds /\ Types'
  <2>1. \A i \in Fds : Done(i)
    BY <1>1 DEF IInv, Core, Ready, Critical, Making
  <2> QED BY <1>1, <1>2, <2>1, SameMemory DEF memory, IInv, Core, Types
<1>4. Mutex' /\ Reserving'
  BY <1>1, <1>2, <1>3 DEF IInv, Core, Mutex, Reserving, Critical, Making
<1>5. Own' /\ Open' /\ Made'
  BY <1>1, <1>2, <1>3 DEF IInv, Core, Types, Own, Open, Made, Holding, Opened, Shut, Above, Below, Pid
<1>6. Ready'
  BY <1>1, <1>2, <1>3 DEF IInv, Core, Ready, Done, Below, SetUp, Critical, Making, Mutex, Own, Holding
<1>7. Announced'
  BY <1>1, <1>2, <1>3 DEF IInv, Core, Announced, Critical, Announcing, Making, Mutex
<1>8. Clean'
  BY <1>1, <1>2, <1>3, CleanKept DEF IInv, traffic
<1> QED BY <1>3, <1>4, <1>5, <1>6, <1>7, <1>8 DEF IInv, Core

\* deregister_bus() tells the daemon too, if it can.
LEMMA NotifyClosedInv ==
  ASSUME IInv, NEW p \in Proc, NotifyClosed(p)
  PROVE  IInv'
<1>1. /\ pc[p] = "notify_del" /\ Goto(p, "unlock_del")
      /\ \/ Told(fd[p]) /\ lost' = lost
         \/ lost' = lost + 1 /\ UNCHANGED <<told, unannounced>>
      /\ UNCHANGED <<lock, used_size, descriptors, fd, age, traffic>>
  BY DEF NotifyClosed, memory, history
<1>2. /\ pc' \in [Proc -> Label] /\ pc'[p] = "unlock_del"
      /\ \A q \in Proc : q # p => pc'[q] = pc[q]
  BY <1>1, Moved DEF Label, Critical, Making, IInv
<1>3. Layout' /\ OneEach' /\ Fds' = Fds /\ Types'
  BY <1>1, <1>2, SameMemory DEF memory, IInv, Core, Types
<1>4. Mutex' /\ Reserving'
  BY <1>1, <1>2, <1>3 DEF IInv, Core, Mutex, Reserving, Critical, Making
<1>5. Own' /\ Open' /\ Made'
  BY <1>1, <1>2, <1>3 DEF IInv, Core, Types, Own, Open, Made, Holding, Opened, Shut, Above, Below, Pid
<1>6. Ready'
  BY <1>1, <1>2, <1>3 DEF IInv, Core, Ready, Done, Below, SetUp, Critical, Making, Mutex, Own, Holding, Told
<1>7. Announced'
  <2>1. lost' = lost + 1 => lost' # 0
    BY DEF IInv, Core, Types
  <2> QED BY <1>1, <1>2, <2>1 DEF IInv, Core, Announced, Critical, Announcing, Making, Mutex, Told
<1>8. Clean'
  BY <1>1, <1>2, <1>3, CleanKept DEF IInv, traffic
<1> QED BY <1>3, <1>4, <1>5, <1>6, <1>7, <1>8 DEF IInv, Core

\* A process that is done, or dead, holds no descriptor; the lock is released
\* with everything set up, or stays as it was.
LEMMA LeaveInv ==
  ASSUME IInv, NEW p \in Proc, UnlockFailed(p) \/ UnlockClosed(p) \/ Crash(p)
  PROVE  IInv'
<1>1. /\ Goto(p, "idle") /\ fd' = [fd EXCEPT ![p] = 0] /\ age' = [age EXCEPT ![p] = @ + 1]
      /\ UNCHANGED <<used_size, descriptors, traffic, told, unannounced, lost>>
      /\ \/ pc[p] \in {"fail", "unlock_del"} /\ lock' = FALSE
         \/ lock' = lock
  BY DEF UnlockFailed, UnlockClosed, Crash, GiveFd, memory, history, bounds
<1>2. /\ pc' \in [Proc -> Label] /\ pc'[p] = "idle"
      /\ \A q \in Proc : q # p => pc'[q] = pc[q]
  BY <1>1, Moved DEF Label, Critical, Making, IInv
<1>3. Layout' /\ OneEach' /\ Fds' = Fds /\ Types'
  <2>1. fd' \in [Proc -> Nat] /\ age' \in [Proc -> Nat]
    BY <1>1 DEF IInv, Core, Types
  <2>2. lock' \in BOOLEAN
    BY <1>1, Zenon DEF IInv, Core, Types
  <2>3. (lock => lock') \/ \A i \in Fds : Done(i)
    BY <1>1 DEF IInv, Core, Ready, Critical, Making
  <2> QED BY <1>1, <1>2, <2>1, <2>2, <2>3, SameMemory DEF memory, IInv, Core, Types
<1>4. Mutex' /\ Reserving'
  BY <1>1, <1>2, <1>3 DEF IInv, Core, Mutex, Reserving, Critical, Making
<1>5. Own' /\ Open' /\ Made'
  BY <1>1, <1>2, <1>3 DEF IInv, Core, Types, Own, Open, Made, Holding, Opened, Shut, Above, Below, Pid
<1>6. Ready'
  BY <1>1, <1>2, <1>3 DEF IInv, Core, Ready, Done, Below, SetUp, Critical, Making, Mutex
<1>7. Announced'
  BY <1>1, <1>2, <1>3 DEF IInv, Core, Announced, Critical, Announcing, Making, Mutex
<1>8. Clean'
  BY <1>1, <1>2, <1>3, CleanKept DEF IInv, traffic
<1> QED BY <1>3, <1>4, <1>5, <1>6, <1>7, <1>8 DEF IInv, Core

-----------------------------------------------------------------------------
(* Steps that change one descriptor *)

\* A descriptor keeps its owner and its place, and is never torn down.
Keeps(d, e) ==
  /\ e.owner = d.owner /\ e.r_offset = d.r_offset /\ e.w_offset = d.w_offset
  /\ (d.r = "ready" => e.r = "ready") /\ (d.w = "ready" => e.w = "ready")

\* Descriptor i has become d, and nothing else about the descriptors changed.
Became(i, d) ==
  /\ descriptors' \in Seq(Descriptor) /\ Fds' = Fds /\ Len(descriptors') = Len(descriptors)
  /\ descriptors'[i] = d /\ \A j \in Fds : j # i => descriptors'[j] = descriptors[j]

LEMMA Updated ==
  ASSUME Types, NEW i \in Fds, NEW d \in Descriptor, descriptors' = [descriptors EXCEPT ![i] = d]
  PROVE  Became(i, d)
BY DEF Types, Fds, Became

\* Such a change leaves the layout, the owners and what is complete as they were.
Kept ==
  /\ Layout' /\ OneEach'
  /\ \A j \in Fds : /\ descriptors'[j].owner = descriptors[j].owner
                    /\ descriptors'[j].r_offset = descriptors[j].r_offset
                    /\ descriptors'[j].w_offset = descriptors[j].w_offset
                    /\ descriptors[j].r = "ready" => descriptors'[j].r = "ready"
                    /\ descriptors[j].w = "ready" => descriptors'[j].w = "ready"

LEMMA KeptInPlace ==
  ASSUME Core, NEW i \in Fds, NEW d, Keeps(descriptors[i], d), Became(i, d),
         UNCHANGED <<lock, used_size>>
  PROVE  Kept
<1>1. \A j \in Fds : Keeps(descriptors[j], descriptors'[j])
  BY DEF Keeps, Became
<1>2. Layout'
  BY <1>1 DEF Core, Layout, Keeps, Below, Above, Last, Became
<1>3. OneEach'
  BY <1>1 DEF Core, OneEach, Keeps, Last, Became
<1> QED BY <1>1, <1>2, <1>3 DEF Kept, Keeps

\* Nobody else relies on a process's descriptor.
LEMMA NotShared ==
  ASSUME Core, NEW p \in Proc, NEW i \in Fds, descriptors[i].owner \in {p, NoOwner},
         NEW q \in Proc, q # p, pc[q] \in Holding
  PROVE  fd[q] \in Fds /\ fd[q] # i
BY MgrAssumption DEF Core, Own, NoOwner

\* The reopened descriptor names this incarnation.
LEMMA SetPidInv ==
  ASSUME IInv, NEW p \in Proc, SetPid(p)
  PROVE  IInv'
<1>0. PICK i \in Fds : i = fd[p] /\ descriptors[i].owner = p
  BY DEF IInv, Core, Own, Holding, SetPid
<1> DEFINE d == [descriptors[i] EXCEPT !.pid = Pid(p)]
<1>1. /\ pc[p] = "set_pid" /\ Goto(p, "notify")
      /\ descriptors' = [descriptors EXCEPT ![i] = d]
      /\ UNCHANGED <<lock, used_size, fd, age, traffic, told, unannounced, lost>>
  BY <1>0 DEF SetPid, history, bounds
<1>2. /\ d \in Descriptor /\ Keeps(descriptors[i], d)
      /\ d.pid = Pid(p) /\ d.closed = descriptors[i].closed /\ d.opening = descriptors[i].opening
  <2>1. descriptors[i] \in Descriptor /\ p \in Proc /\ age[p] \in Nat
    BY FdType DEF IInv, Core, Types
  <2>2. d \in Descriptor
    BY <2>1 DEF Descriptor, States, Pid, NoPid
  <2> QED BY <2>1, <2>2 DEF Descriptor, States, Keeps, Pid
<1> HIDE DEF d
<1>3. Became(i, d) /\ Kept
  BY <1>1, <1>2, Updated, KeptInPlace DEF IInv, Core
<1>4. /\ pc' \in [Proc -> Label] /\ pc'[p] = "notify"
      /\ \A q \in Proc : q # p => pc'[q] = pc[q]
  BY <1>1, Moved DEF IInv, Label, Critical, Making
<1>5. Types' /\ Fds' = Fds
  BY <1>1, <1>3, <1>4 DEF IInv, Core, Types, Became
<1>6. Mutex' /\ Reserving'
  <2>1. Mutex'
    BY <1>1, <1>4 DEF IInv, Core, Mutex, Critical, Making
  <2>2. Reserving'
    BY <1>1, <1>3, <1>4 DEF IInv, Core, Reserving, Became, Kept
  <2> QED BY <2>1, <2>2
<1>7. Own'
  BY <1>0, <1>1, <1>3, <1>4 DEF IInv, Core, Own, Holding, Became, Kept
<1>8. \A q \in Proc : q # p /\ pc[q] \in Holding =>
        fd[q] \in Fds /\ descriptors'[fd[q]] = descriptors[fd[q]]
  BY <1>0, <1>3, NotShared DEF IInv, Became
<1>9. Open'
  <2>1. ASSUME NEW q \in Proc, q # p
        PROVE  /\ pc'[q] \in Opened \cup {"set_pid"} => ~descriptors'[fd'[q]].closed
               /\ pc'[q] \in Opened => descriptors'[fd'[q]].pid = <<q, age'[q]>>
               /\ pc'[q] \in Shut => descriptors'[fd'[q]].closed
    BY <1>1, <1>4, <1>8, <2>1 DEF IInv, Core, Open, Opened, Shut, Holding, Pid
  <2>2. /\ pc'[p] \in Opened \cup {"set_pid"} => ~descriptors'[fd'[p]].closed
        /\ pc'[p] \in Opened => descriptors'[fd'[p]].pid = <<p, age'[p]>>
        /\ pc'[p] \in Shut => descriptors'[fd'[p]].closed
    BY <1>0, <1>1, <1>2, <1>3, <1>4 DEF IInv, Core, Open, Opened, Shut, Pid, Became
  <2> QED BY <2>1, <2>2 DEF Open, Pid
<1>10. Made'
  BY <1>0, <1>1, <1>2, <1>3, <1>4, <1>8 DEF IInv, Core, Made, Holding, Critical, Making, Mutex, Above, Below, Became, Kept, Pid
<1>11. Ready'
  BY <1>0, <1>1, <1>2, <1>3, <1>4 DEF IInv, Core, Ready, Done, SetUp, Below, Critical, Making, Mutex, Became, Kept, Own, Holding, Made
<1>12. Announced'
  BY <1>1, <1>4 DEF IInv, Core, Announced, Critical, Announcing, Making, Mutex
<1>13. Clean'
  <2>1. \A j \in Fds : /\ descriptors'[j].opening = descriptors[j].opening
                       /\ descriptors[j].closed => descriptors'[j].closed
    BY <1>2, <1>3 DEF Became
  <2> QED BY <1>1, <1>4, <1>5, <2>1, CleanKept DEF IInv, traffic
<1> QED BY <1>3, <1>5, <1>6, <1>7, <1>9, <1>10, <1>11, <1>12, <1>13 DEF IInv, Core, Kept

\* A closed one names nobody.
LEMMA UnsetPidInv ==
  ASSUME IInv, NEW p \in Proc, UnsetPid(p)
  PROVE  IInv'
<1>0. PICK i \in Fds : i = fd[p] /\ descriptors[i].owner = p
  BY DEF IInv, Core, Own, Holding, UnsetPid
<1> DEFINE d == [descriptors[i] EXCEPT !.pid = NoPid]
<1>1. /\ pc[p] = "unset_pid" /\ Goto(p, "notify_del")
      /\ descriptors' = [descriptors EXCEPT ![i] = d]
      /\ UNCHANGED <<lock, used_size, fd, age, traffic, told, unannounced, lost>>
  BY <1>0 DEF UnsetPid, history, bounds
<1>2. /\ d \in Descriptor /\ Keeps(descriptors[i], d)
      /\ d.closed = descriptors[i].closed /\ d.opening = descriptors[i].opening
  <2>1. descriptors[i] \in Descriptor /\ p \in Proc /\ age[p] \in Nat
    BY FdType DEF IInv, Core, Types
  <2>2. d \in Descriptor
    BY <2>1 DEF Descriptor, States, Pid, NoPid
  <2> QED BY <2>1, <2>2 DEF Descriptor, States, Keeps, Pid
<1> HIDE DEF d
<1>3. Became(i, d) /\ Kept
  BY <1>1, <1>2, Updated, KeptInPlace DEF IInv, Core
<1>4. /\ pc' \in [Proc -> Label] /\ pc'[p] = "notify_del"
      /\ \A q \in Proc : q # p => pc'[q] = pc[q]
  BY <1>1, Moved DEF IInv, Label, Critical, Making
<1>5. Types' /\ Fds' = Fds
  BY <1>1, <1>3, <1>4 DEF IInv, Core, Types, Became
<1>6. Mutex' /\ Reserving'
  <2>1. Mutex'
    BY <1>1, <1>4 DEF IInv, Core, Mutex, Critical, Making
  <2>2. Reserving'
    BY <1>1, <1>3, <1>4 DEF IInv, Core, Reserving, Became, Kept
  <2> QED BY <2>1, <2>2
<1>7. Own'
  BY <1>0, <1>1, <1>3, <1>4 DEF IInv, Core, Own, Holding, Became, Kept
<1>8. \A q \in Proc : q # p /\ pc[q] \in Holding =>
        fd[q] \in Fds /\ descriptors'[fd[q]] = descriptors[fd[q]]
  BY <1>0, <1>3, NotShared DEF IInv, Became
<1>9. Open'
  <2>1. ASSUME NEW q \in Proc, q # p
        PROVE  /\ pc'[q] \in Opened \cup {"set_pid"} => ~descriptors'[fd'[q]].closed
               /\ pc'[q] \in Opened => descriptors'[fd'[q]].pid = <<q, age'[q]>>
               /\ pc'[q] \in Shut => descriptors'[fd'[q]].closed
    BY <1>1, <1>4, <1>8, <2>1 DEF IInv, Core, Open, Opened, Shut, Holding, Pid
  <2>2. /\ pc'[p] \in Opened \cup {"set_pid"} => ~descriptors'[fd'[p]].closed
        /\ pc'[p] \in Opened => descriptors'[fd'[p]].pid = <<p, age'[p]>>
        /\ pc'[p] \in Shut => descriptors'[fd'[p]].closed
    BY <1>0, <1>1, <1>2, <1>3, <1>4 DEF IInv, Core, Open, Opened, Shut, Pid, Became
  <2> QED BY <2>1, <2>2 DEF Open, Pid
<1>10. Made'
  BY <1>0, <1>1, <1>2, <1>3, <1>4, <1>8 DEF IInv, Core, Made, Holding, Critical, Making, Mutex, Above, Below, Became, Kept, Pid
<1>11. Ready'
  BY <1>0, <1>1, <1>2, <1>3, <1>4 DEF IInv, Core, Ready, Done, SetUp, Below, Critical, Making, Mutex, Became, Kept, Own, Holding, Made
<1>12. Announced'
  BY <1>1, <1>4 DEF IInv, Core, Announced, Critical, Announcing, Making, Mutex
<1>13. Clean'
  <2>1. \A j \in Fds : /\ descriptors'[j].opening = descriptors[j].opening
                       /\ descriptors[j].closed => descriptors'[j].closed
    BY <1>2, <1>3 DEF Became
  <2> QED BY <1>1, <1>4, <1>5, <2>1, CleanKept DEF IInv, traffic
<1> QED BY <1>3, <1>5, <1>6, <1>7, <1>9, <1>10, <1>11, <1>12, <1>13 DEF IInv, Core, Kept

\* The read channel is set up, its magic number first.
LEMMA InitReadInv ==
  ASSUME IInv, NEW p \in Proc, InitRead(p)
  PROVE  IInv'
<1>0. PICK i \in Fds : i = fd[p] /\ descriptors[i].owner = p
  BY DEF IInv, Core, Own, Holding, InitRead
<1> DEFINE d == [descriptors[i] EXCEPT !.r = Further(@)]
<1>1. /\ pc[p] = "init_r" /\ Goto(p, IF descriptors[i].r = "blank" THEN "init_r" ELSE "init_w")
      /\ descriptors' = [descriptors EXCEPT ![i] = d]
      /\ UNCHANGED <<lock, used_size, fd, age, traffic, told, unannounced, lost>>
  BY <1>0 DEF InitRead, history, bounds
<1>2. /\ d \in Descriptor /\ Keeps(descriptors[i], d)
      /\ d.closed = descriptors[i].closed /\ d.pid = descriptors[i].pid /\ d.opening = descriptors[i].opening
      /\ (descriptors[i].r # "blank" => d.r = "ready")
  <2>1. descriptors[i] \in Descriptor /\ p \in Proc /\ age[p] \in Nat
    BY FdType DEF IInv, Core, Types
  <2>2. d \in Descriptor
    BY <2>1 DEF Descriptor, States, Pid, NoPid, Further
  <2> QED BY <2>1, <2>2 DEF Descriptor, States, Keeps, Pid, Further
<1> HIDE DEF d
<1>3. Became(i, d) /\ Kept
  BY <1>1, <1>2, Updated, KeptInPlace DEF IInv, Core
<1>4. /\ pc' \in [Proc -> Label] /\ pc'[p] = IF descriptors[i].r = "blank" THEN "init_r" ELSE "init_w"
      /\ \A q \in Proc : q # p => pc'[q] = pc[q]
  BY <1>1, Moved DEF IInv, Label, Critical, Making
<1>5. Types' /\ Fds' = Fds
  BY <1>1, <1>3, <1>4 DEF IInv, Core, Types, Became
<1>6. Mutex' /\ Reserving'
  <2>1. Mutex'
    BY <1>1, <1>4 DEF IInv, Core, Mutex, Critical, Making
  <2>2. Reserving'
    BY <1>1, <1>3, <1>4 DEF IInv, Core, Reserving, Became, Kept
  <2> QED BY <2>1, <2>2
<1>7. Own'
  BY <1>0, <1>1, <1>3, <1>4 DEF IInv, Core, Own, Holding, Became, Kept
<1>8. \A q \in Proc : q # p /\ pc[q] \in Holding =>
        fd[q] \in Fds /\ descriptors'[fd[q]] = descriptors[fd[q]]
  BY <1>0, <1>3, NotShared DEF IInv, Became
<1>9. Open'
  <2>1. ASSUME NEW q \in Proc, q # p
        PROVE  /\ pc'[q] \in Opened \cup {"set_pid"} => ~descriptors'[fd'[q]].closed
               /\ pc'[q] \in Opened => descriptors'[fd'[q]].pid = <<q, age'[q]>>
               /\ pc'[q] \in Shut => descriptors'[fd'[q]].closed
    BY <1>1, <1>4, <1>8, <2>1 DEF IInv, Core, Open, Opened, Shut, Holding, Pid
  <2>2. /\ pc'[p] \in Opened \cup {"set_pid"} => ~descriptors'[fd'[p]].closed
        /\ pc'[p] \in Opened => descriptors'[fd'[p]].pid = <<p, age'[p]>>
        /\ pc'[p] \in Shut => descriptors'[fd'[p]].closed
    BY <1>0, <1>1, <1>2, <1>3, <1>4 DEF IInv, Core, Open, Opened, Shut, Pid, Became
  <2> QED BY <2>1, <2>2 DEF Open, Pid
<1>10. Made'
  BY <1>0, <1>1, <1>2, <1>3, <1>4, <1>8 DEF IInv, Core, Made, Holding, Critical, Making, Mutex, Above, Below, Became, Kept, Pid
<1>11. Ready'
  BY <1>0, <1>1, <1>2, <1>3, <1>4 DEF IInv, Core, Ready, Done, SetUp, Below, Critical, Making, Mutex, Became, Kept, Own, Holding, Made
<1>12. Announced'
  BY <1>1, <1>4 DEF IInv, Core, Announced, Critical, Announcing, Making, Mutex
<1>13. Clean'
  <2>1. \A j \in Fds : /\ descriptors'[j].opening = descriptors[j].opening
                       /\ descriptors[j].closed => descriptors'[j].closed
    BY <1>2, <1>3 DEF Became
  <2> QED BY <1>1, <1>4, <1>5, <2>1, CleanKept DEF IInv, traffic
<1> QED BY <1>3, <1>5, <1>6, <1>7, <1>9, <1>10, <1>11, <1>12, <1>13 DEF IInv, Core, Kept

\* The write channel is: now every channel is.
LEMMA InitWriteInv ==
  ASSUME IInv, NEW p \in Proc, InitWrite(p)
  PROVE  IInv'
<1>0. PICK i \in Fds : i = fd[p] /\ descriptors[i].owner = p
  BY DEF IInv, Core, Own, Holding, InitWrite
<1> DEFINE d == [descriptors[i] EXCEPT !.w = Further(@)]
<1>1. /\ pc[p] = "init_w" /\ Goto(p, IF descriptors[i].w = "blank" THEN "init_w" ELSE "notify")
      /\ descriptors' = [descriptors EXCEPT ![i] = d]
      /\ UNCHANGED <<lock, used_size, fd, age, traffic, told, unannounced, lost>>
  BY <1>0 DEF InitWrite, history, bounds
<1>2. /\ d \in Descriptor /\ Keeps(descriptors[i], d)
      /\ d.closed = descriptors[i].closed /\ d.pid = descriptors[i].pid /\ d.opening = descriptors[i].opening /\ d.r = descriptors[i].r
      /\ (descriptors[i].w # "blank" => d.w = "ready")
  <2>1. descriptors[i] \in Descriptor /\ p \in Proc /\ age[p] \in Nat
    BY FdType DEF IInv, Core, Types
  <2>2. d \in Descriptor
    BY <2>1 DEF Descriptor, States, Pid, NoPid, Further
  <2> QED BY <2>1, <2>2 DEF Descriptor, States, Keeps, Pid, Further
<1> HIDE DEF d
<1>3. Became(i, d) /\ Kept
  BY <1>1, <1>2, Updated, KeptInPlace DEF IInv, Core
<1>4. /\ pc' \in [Proc -> Label] /\ pc'[p] = IF descriptors[i].w = "blank" THEN "init_w" ELSE "notify"
      /\ \A q \in Proc : q # p => pc'[q] = pc[q]
  BY <1>1, Moved DEF IInv, Label, Critical, Making
<1>5. Types' /\ Fds' = Fds
  BY <1>1, <1>3, <1>4 DEF IInv, Core, Types, Became
<1>6. Mutex' /\ Reserving'
  <2>1. Mutex'
    BY <1>1, <1>4 DEF IInv, Core, Mutex, Critical, Making
  <2>2. Reserving'
    BY <1>1, <1>3, <1>4 DEF IInv, Core, Reserving, Became, Kept
  <2> QED BY <2>1, <2>2
<1>7. Own'
  BY <1>0, <1>1, <1>3, <1>4 DEF IInv, Core, Own, Holding, Became, Kept
<1>8. \A q \in Proc : q # p /\ pc[q] \in Holding =>
        fd[q] \in Fds /\ descriptors'[fd[q]] = descriptors[fd[q]]
  BY <1>0, <1>3, NotShared DEF IInv, Became
<1>9. Open'
  <2>1. ASSUME NEW q \in Proc, q # p
        PROVE  /\ pc'[q] \in Opened \cup {"set_pid"} => ~descriptors'[fd'[q]].closed
               /\ pc'[q] \in Opened => descriptors'[fd'[q]].pid = <<q, age'[q]>>
               /\ pc'[q] \in Shut => descriptors'[fd'[q]].closed
    BY <1>1, <1>4, <1>8, <2>1 DEF IInv, Core, Open, Opened, Shut, Holding, Pid
  <2>2. /\ pc'[p] \in Opened \cup {"set_pid"} => ~descriptors'[fd'[p]].closed
        /\ pc'[p] \in Opened => descriptors'[fd'[p]].pid = <<p, age'[p]>>
        /\ pc'[p] \in Shut => descriptors'[fd'[p]].closed
    BY <1>0, <1>1, <1>2, <1>3, <1>4 DEF IInv, Core, Open, Opened, Shut, Pid, Became
  <2> QED BY <2>1, <2>2 DEF Open, Pid
<1>10. Made'
  BY <1>0, <1>1, <1>2, <1>3, <1>4, <1>8 DEF IInv, Core, Made, Holding, Critical, Making, Mutex, Above, Below, Became, Kept, Pid
<1>11. Ready'
  BY <1>0, <1>1, <1>2, <1>3, <1>4 DEF IInv, Core, Ready, Done, SetUp, Below, Critical, Making, Mutex, Became, Kept, Own, Holding, Made
<1>12. Announced'
  BY <1>1, <1>4 DEF IInv, Core, Announced, Critical, Announcing, Making, Mutex
<1>13. Clean'
  <2>1. \A j \in Fds : /\ descriptors'[j].opening = descriptors[j].opening
                       /\ descriptors[j].closed => descriptors'[j].closed
    BY <1>2, <1>3 DEF Became
  <2> QED BY <1>1, <1>4, <1>5, <2>1, CleanKept DEF IInv, traffic
<1> QED BY <1>3, <1>5, <1>6, <1>7, <1>9, <1>10, <1>11, <1>12, <1>13 DEF IInv, Core, Kept

\* deregister_bus() closes the caller's descriptor and nobody else's.
LEMMA CloseInv ==
  ASSUME IInv, NEW p \in Proc, Close(p)
  PROVE  IInv'
<1>0. PICK i \in Fds : /\ i = fd[p] /\ descriptors[i].owner = p
                       /\ descriptors' = [descriptors EXCEPT ![i].closed = TRUE]
  <2>1. PICK j \in Fds : /\ descriptors[j].owner = p
                         /\ descriptors' = [descriptors EXCEPT ![j].closed = TRUE]
    BY DEF Close, OwnedBy
  <2>2. fd[p] \in Fds /\ descriptors[fd[p]].owner = p
    BY DEF Close, IInv, Core, Own, Holding
  <2>3. j = fd[p]
    BY <2>1, <2>2 DEF IInv, Core, OneEach
  <2> QED BY <2>1, <2>3
<1> DEFINE d == [descriptors[i] EXCEPT !.closed = TRUE]
<1>1. /\ pc[p] = "close" /\ Goto(p, "unset_pid")
      /\ descriptors' = [descriptors EXCEPT ![i] = d]
      /\ UNCHANGED <<lock, used_size, fd, age, traffic, told, unannounced, lost>>
  BY <1>0 DEF Close, history, bounds
<1>2. /\ d \in Descriptor /\ Keeps(descriptors[i], d)
      /\ d.closed /\ d.pid = descriptors[i].pid /\ d.opening = descriptors[i].opening
  <2>1. descriptors[i] \in Descriptor /\ p \in Proc /\ age[p] \in Nat
    BY FdType DEF IInv, Core, Types
  <2>2. d \in Descriptor
    BY <2>1 DEF Descriptor, States, Pid, NoPid
  <2> QED BY <2>1, <2>2 DEF Descriptor, States, Keeps, Pid
<1> HIDE DEF d
<1>3. Became(i, d) /\ Kept
  BY <1>1, <1>2, Updated, KeptInPlace DEF IInv, Core
<1>4. /\ pc' \in [Proc -> Label] /\ pc'[p] = "unset_pid"
      /\ \A q \in Proc : q # p => pc'[q] = pc[q]
  BY <1>1, Moved DEF IInv, Label, Critical, Making
<1>5. Types' /\ Fds' = Fds
  BY <1>1, <1>3, <1>4 DEF IInv, Core, Types, Became
<1>6. Mutex' /\ Reserving'
  <2>1. Mutex'
    BY <1>1, <1>4 DEF IInv, Core, Mutex, Critical, Making
  <2>2. Reserving'
    BY <1>1, <1>3, <1>4 DEF IInv, Core, Reserving, Became, Kept
  <2> QED BY <2>1, <2>2
<1>7. Own'
  BY <1>0, <1>1, <1>3, <1>4 DEF IInv, Core, Own, Holding, Became, Kept
<1>8. \A q \in Proc : q # p /\ pc[q] \in Holding =>
        fd[q] \in Fds /\ descriptors'[fd[q]] = descriptors[fd[q]]
  BY <1>0, <1>3, NotShared DEF IInv, Became
<1>9. Open'
  <2>1. ASSUME NEW q \in Proc, q # p
        PROVE  /\ pc'[q] \in Opened \cup {"set_pid"} => ~descriptors'[fd'[q]].closed
               /\ pc'[q] \in Opened => descriptors'[fd'[q]].pid = <<q, age'[q]>>
               /\ pc'[q] \in Shut => descriptors'[fd'[q]].closed
    BY <1>1, <1>4, <1>8, <2>1 DEF IInv, Core, Open, Opened, Shut, Holding, Pid
  <2>2. /\ pc'[p] \in Opened \cup {"set_pid"} => ~descriptors'[fd'[p]].closed
        /\ pc'[p] \in Opened => descriptors'[fd'[p]].pid = <<p, age'[p]>>
        /\ pc'[p] \in Shut => descriptors'[fd'[p]].closed
    BY <1>0, <1>1, <1>2, <1>3, <1>4 DEF IInv, Core, Open, Opened, Shut, Pid, Became
  <2> QED BY <2>1, <2>2 DEF Open, Pid
<1>10. Made'
  BY <1>0, <1>1, <1>2, <1>3, <1>4, <1>8 DEF IInv, Core, Made, Holding, Critical, Making, Mutex, Above, Below, Became, Kept, Pid
<1>11. Ready'
  BY <1>0, <1>1, <1>2, <1>3, <1>4 DEF IInv, Core, Ready, Done, SetUp, Below, Critical, Making, Mutex, Became, Kept, Own, Holding, Made
<1>12. Announced'
  BY <1>1, <1>4 DEF IInv, Core, Announced, Critical, Announcing, Making, Mutex
<1>13. Clean'
  <2>1. \A j \in Fds : /\ descriptors'[j].opening = descriptors[j].opening
                       /\ descriptors[j].closed => descriptors'[j].closed
    BY <1>2, <1>3 DEF Became
  <2> QED BY <1>1, <1>4, <1>5, <2>1, CleanKept DEF IInv, traffic
<1> QED BY <1>3, <1>5, <1>6, <1>7, <1>9, <1>10, <1>11, <1>12, <1>13 DEF IInv, Core, Kept

\* A restarted owner takes its open descriptor over, under its new pid.
LEMMA FoundOpenInv ==
  ASSUME IInv, NEW p \in Proc, FoundOpen(p)
  PROVE  IInv'
<1>0. PICK i \in Fds : /\ descriptors[i].owner = p /\ ~descriptors[i].closed
                       /\ TakeOver(p, i) /\ fd' = [fd EXCEPT ![p] = i]
  BY DEF FoundOpen, OwnedBy, GiveFd
<1> DEFINE d == [descriptors[i] EXCEPT !.pid = Pid(p)]
<1>1. /\ pc[p] = "scan" /\ Goto(p, "unlock")
      /\ descriptors' = [descriptors EXCEPT ![i] = d]
      /\ UNCHANGED <<lock, used_size, age, traffic, told, unannounced, lost>>
  BY <1>0 DEF FoundOpen, TakeOver, history, bounds
<1>2. /\ d \in Descriptor /\ Keeps(descriptors[i], d)
      /\ d.pid = Pid(p) /\ d.closed = descriptors[i].closed /\ d.opening = descriptors[i].opening
  <2>1. descriptors[i] \in Descriptor /\ p \in Proc /\ age[p] \in Nat
    BY FdType DEF IInv, Core, Types
  <2>2. d \in Descriptor
    BY <2>1 DEF Descriptor, States, Pid, NoPid
  <2> QED BY <2>1, <2>2 DEF Descriptor, States, Keeps, Pid
<1> HIDE DEF d
<1>3. Became(i, d) /\ Kept
  BY <1>1, <1>2, Updated, KeptInPlace DEF IInv, Core
<1>4. /\ pc' \in [Proc -> Label] /\ pc'[p] = "unlock"
      /\ \A q \in Proc : q # p => pc'[q] = pc[q]
      /\ fd' \in [Proc -> Nat] /\ fd'[p] = i
      /\ \A q \in Proc : q # p => fd'[q] = fd[q]
  <2>1. i \in Nat
    BY FdType DEF IInv, Core
  <2> QED BY <1>0, <1>1, <2>1, Moved, Given DEF Label, Critical, IInv, Core
<1>5. Types' /\ Fds' = Fds
  BY <1>1, <1>3, <1>4 DEF IInv, Core, Types, Became
<1>6. Mutex' /\ Reserving'
  <2>1. Mutex'
    BY <1>1, <1>4 DEF IInv, Core, Mutex, Critical, Making
  <2>2. Reserving'
    BY <1>1, <1>3, <1>4 DEF IInv, Core, Reserving, Became, Kept
  <2> QED BY <2>1, <2>2
<1>7. Own'
  BY <1>0, <1>1, <1>3, <1>4 DEF IInv, Core, Own, Holding, Became, Kept
<1>8. \A q \in Proc : q # p /\ pc[q] \in Holding =>
        fd[q] \in Fds /\ descriptors'[fd[q]] = descriptors[fd[q]]
  BY <1>0, <1>3, NotShared DEF IInv, Became
<1>9. Open'
  <2>1. ASSUME NEW q \in Proc, q # p
        PROVE  /\ pc'[q] \in Opened \cup {"set_pid"} => ~descriptors'[fd'[q]].closed
               /\ pc'[q] \in Opened => descriptors'[fd'[q]].pid = <<q, age'[q]>>
               /\ pc'[q] \in Shut => descriptors'[fd'[q]].closed
    BY <1>1, <1>4, <1>8, <2>1 DEF IInv, Core, Open, Opened, Shut, Holding, Pid
  <2>2. /\ pc'[p] \in Opened \cup {"set_pid"} => ~descriptors'[fd'[p]].closed
        /\ pc'[p] \in Opened => descriptors'[fd'[p]].pid = <<p, age'[p]>>
        /\ pc'[p] \in Shut => descriptors'[fd'[p]].closed
    BY <1>0, <1>1, <1>2, <1>3, <1>4 DEF IInv, Core, Open, Opened, Shut, Pid, Became
  <2> QED BY <2>1, <2>2 DEF Open, Pid
<1>10. Made'
  BY <1>0, <1>1, <1>2, <1>3, <1>4, <1>8 DEF IInv, Core, Made, Holding, Critical, Making, Mutex, Above, Below, Became, Kept, Pid
<1>11. Ready'
  BY <1>0, <1>1, <1>2, <1>3, <1>4 DEF IInv, Core, Ready, Done, SetUp, Below, Critical, Making, Mutex, Became, Kept, Own, Holding, Made
<1>12. Announced'
  BY <1>1, <1>4 DEF IInv, Core, Announced, Critical, Announcing, Making, Mutex
<1>13. Clean'
  <2>1. \A j \in Fds : /\ descriptors'[j].opening = descriptors[j].opening
                       /\ descriptors[j].closed => descriptors'[j].closed
    BY <1>2, <1>3 DEF Became
  <2> QED BY <1>1, <1>4, <1>5, <2>1, CleanKept DEF IInv, traffic
<1> QED BY <1>3, <1>5, <1>6, <1>7, <1>9, <1>10, <1>11, <1>12, <1>13 DEF IInv, Core, Kept

\* The descriptor is open again, and a new opening begins with nothing left in it.
LEMMA ReopenInv ==
  ASSUME IInv, NEW p \in Proc, Reopen(p)
  PROVE  IInv'
<1>0. PICK i \in Fds : i = fd[p] /\ descriptors[i].owner = p
  BY DEF IInv, Core, Own, Holding, Reopen
<1> DEFINE d == [descriptors[i] EXCEPT !.closed = FALSE, !.opening = @ + 1]
<1>1. /\ pc[p] = "reopen" /\ Goto(p, "set_pid") /\ unannounced' = unannounced \cup {i}
      /\ descriptors' = [descriptors EXCEPT ![i] = d]
      /\ UNCHANGED <<lock, used_size, fd, age, traffic, told, lost>>
  BY <1>0 DEF Reopen, history, bounds
<1>2. /\ d \in Descriptor /\ Keeps(descriptors[i], d)
      /\ ~d.closed /\ d.opening = descriptors[i].opening + 1
  <2>1. descriptors[i] \in Descriptor /\ p \in Proc /\ age[p] \in Nat
    BY FdType DEF IInv, Core, Types
  <2>2. d \in Descriptor
    <3>1. [descriptors[i] EXCEPT !.closed = FALSE] \in Descriptor
      BY <2>1 DEF Descriptor
    <3>2. descriptors[i].opening + 1 \in Nat
      BY <2>1 DEF Descriptor
    <3>3. \A e \in Descriptor, n \in Nat : [e EXCEPT !.opening = n] \in Descriptor
      BY DEF Descriptor
    <3> QED BY <3>1, <3>2, <3>3
  <2> QED BY <2>1, <2>2 DEF Descriptor, States, Keeps, Pid
<1> HIDE DEF d
<1>3. Became(i, d) /\ Kept
  BY <1>1, <1>2, Updated, KeptInPlace DEF IInv, Core
<1>4. /\ pc' \in [Proc -> Label] /\ pc'[p] = "set_pid"
      /\ \A q \in Proc : q # p => pc'[q] = pc[q]
  BY <1>1, Moved DEF IInv, Label, Critical, Making
<1>5. Types' /\ Fds' = Fds
  BY <1>1, <1>3, <1>4 DEF IInv, Core, Types, Became
<1>6. Mutex' /\ Reserving'
  <2>1. Mutex'
    BY <1>1, <1>4 DEF IInv, Core, Mutex, Critical, Making
  <2>2. Reserving'
    BY <1>1, <1>3, <1>4 DEF IInv, Core, Reserving, Became, Kept
  <2> QED BY <2>1, <2>2
<1>7. Own'
  BY <1>0, <1>1, <1>3, <1>4 DEF IInv, Core, Own, Holding, Became, Kept
<1>8. \A q \in Proc : q # p /\ pc[q] \in Holding =>
        fd[q] \in Fds /\ descriptors'[fd[q]] = descriptors[fd[q]]
  BY <1>0, <1>3, NotShared DEF IInv, Became
<1>9. Open'
  <2>1. ASSUME NEW q \in Proc, q # p
        PROVE  /\ pc'[q] \in Opened \cup {"set_pid"} => ~descriptors'[fd'[q]].closed
               /\ pc'[q] \in Opened => descriptors'[fd'[q]].pid = <<q, age'[q]>>
               /\ pc'[q] \in Shut => descriptors'[fd'[q]].closed
    BY <1>1, <1>4, <1>8, <2>1 DEF IInv, Core, Open, Opened, Shut, Holding, Pid
  <2>2. /\ pc'[p] \in Opened \cup {"set_pid"} => ~descriptors'[fd'[p]].closed
        /\ pc'[p] \in Opened => descriptors'[fd'[p]].pid = <<p, age'[p]>>
        /\ pc'[p] \in Shut => descriptors'[fd'[p]].closed
    BY <1>0, <1>1, <1>2, <1>3, <1>4 DEF IInv, Core, Open, Opened, Shut, Pid, Became
  <2> QED BY <2>1, <2>2 DEF Open, Pid
<1>10. Made'
  BY <1>0, <1>1, <1>2, <1>3, <1>4, <1>8 DEF IInv, Core, Made, Holding, Critical, Making, Mutex, Above, Below, Became, Kept, Pid
<1>11. Ready'
  BY <1>0, <1>1, <1>2, <1>3, <1>4 DEF IInv, Core, Ready, Done, SetUp, Below, Critical, Making, Mutex, Became, Kept, Own, Holding, Made
<1>12. Announced'
  <2>1. lost = 0 => unannounced = {} /\ unannounced' = {i}
    BY <1>1 DEF IInv, Core, Announced, Critical, Announcing, Making
  <2>2. \A q \in Proc : q # p => pc'[q] \notin Critical
    BY <1>1, <1>4 DEF IInv, Core, Mutex, Critical, Making
  <2>3. \A q \in Proc : pc'[q] \in {"registered", "spin_del"} => fd'[q] # i
    <3>1. ASSUME NEW q \in Proc, pc'[q] \in {"registered", "spin_del"}
          PROVE  q # p /\ pc[q] \in Holding
      BY <1>4, <3>1 DEF Holding
    <3> QED BY <1>0, <1>1, <3>1, NotShared DEF IInv
  <2>4. lock'
    BY <1>1 DEF IInv, Core, Mutex, Critical
  <2> QED BY <1>0, <1>1, <1>4, <2>1, <2>2, <2>3, <2>4 DEF Announced, Critical, Announcing, Making
<1>13. Clean'
  <2>1. left' = left /\ straddled' = straddled /\ daemon' = daemon
    BY <1>1 DEF traffic
  <2>2. /\ i \in straddled \/ \A m \in left : m[1] # i
        /\ daemon.fd = i => daemon.stale
    BY <1>0, <1>1 DEF IInv, Clean
  <2>3. left' \subseteq Fds' \X Nat /\ straddled' \subseteq Fds'
        /\ daemon' \in [fd : Fds' \cup {0}, opening : Nat, stale : BOOLEAN]
    BY <1>5, <2>1 DEF IInv, Clean
  <2>4. \A j \in Fds' : descriptors'[j].closed \/ j \in straddled'
          \/ \A m \in left' : m[1] = j => m[2] = descriptors'[j].opening
    BY <1>3, <1>5, <2>1, <2>2 DEF IInv, Clean, Tidy, Opening, Became
  <2>5. \A q \in Proc : pc'[q] # "reopen"
    BY <1>1, <1>4 DEF IInv, Core, Mutex, Critical
  <2>6. daemon'.fd # 0 /\ ~daemon'.stale =>
          descriptors'[daemon'.fd].closed \/ daemon'.opening = descriptors'[daemon'.fd].opening
    BY <1>3, <2>1, <2>2 DEF IInv, Clean, Opening, Became
  <2> QED BY <2>3, <2>4, <2>5, <2>6 DEF Clean, Tidy, Opening
<1> QED BY <1>3, <1>5, <1>6, <1>7, <1>9, <1>10, <1>11, <1>12, <1>13 DEF IInv, Core, Kept

\* The channels of a closed descriptor are cleared before it is opened again; a
\* call of the daemon that is in one of them has been cut in two.
LEMMA ClearChannelsInv ==
  ASSUME IInv, NEW p \in Proc, ClearChannels(p)
  PROVE  IInv'
<1>1. /\ pc[p] = "clear" /\ Goto(p, "reopen")
      /\ UNCHANGED <<lock, used_size, descriptors, fd, age, told, unannounced, lost>>
  BY DEF ClearChannels, memory, history, bounds
<1>2. /\ pc' \in [Proc -> Label] /\ pc'[p] = "reopen"
      /\ \A q \in Proc : q # p => pc'[q] = pc[q]
  BY <1>1, Moved DEF Label, Critical, Making, IInv
<1>3. Layout' /\ OneEach' /\ Fds' = Fds /\ Types'
  BY <1>1, <1>2, SameMemory DEF memory, IInv, Core, Types
<1>4. Mutex' /\ Reserving'
  BY <1>1, <1>2, <1>3 DEF IInv, Core, Mutex, Reserving, Critical, Making
<1>5. Own' /\ Open' /\ Made'
  BY <1>1, <1>2, <1>3 DEF IInv, Core, Types, Own, Open, Made, Holding, Opened, Shut, Above, Below, Pid
<1>6. Ready'
  BY <1>1, <1>2, <1>3 DEF IInv, Core, Ready, Done, Below, SetUp, Critical, Making, Mutex
<1>7. Announced'
  BY <1>1, <1>2, <1>3 DEF IInv, Core, Announced, Critical, Announcing, Making, Mutex
<1>8. Clean'
  <2>1. PICK i \in Fds : i = fd[p] /\ descriptors[i].closed
    BY <1>1 DEF IInv, Core, Own, Holding, Open, Shut
  <2>2. /\ left' = {m \in left : m[1] # i} /\ straddled' = straddled \ {i}
        /\ daemon' = [daemon EXCEPT !.stale = @ \/ daemon.fd = i]
    BY <2>1 DEF ClearChannels
  <2>3. daemon \in [fd : Fds \cup {0}, opening : Nat, stale : BOOLEAN]
    BY DEF IInv, Clean
  <2>4. /\ daemon' \in [fd : Fds \cup {0}, opening : Nat, stale : BOOLEAN]
        /\ daemon'.fd = daemon.fd /\ daemon'.opening = daemon.opening
        /\ daemon'.stale = (daemon.stale \/ daemon.fd = i)
    BY <2>2, <2>3
  <2>5. left' \subseteq Fds' \X Nat /\ straddled' \subseteq Fds'
    BY <1>3, <2>2 DEF IInv, Clean
  <2>6. \A j \in Fds' : descriptors'[j].closed \/ j \in straddled'
          \/ \A m \in left' : m[1] = j => m[2] = descriptors'[j].opening
    BY <1>1, <1>3, <2>1, <2>2 DEF IInv, Clean, Tidy, Opening
  <2>7. \A q \in Proc : pc'[q] = "reopen" =>
          /\ fd'[q] \in straddled' \/ \A m \in left' : m[1] # fd'[q]
          /\ daemon'.fd = fd'[q] => daemon'.stale
    <3>1. \A q \in Proc : pc'[q] = "reopen" => q = p
      BY <1>1, <1>2 DEF IInv, Core, Mutex, Critical
    <3> QED BY <1>1, <2>1, <2>2, <2>4, <3>1
  <2>8. daemon'.fd # 0 /\ ~daemon'.stale =>
          descriptors'[daemon'.fd].closed \/ daemon'.opening = descriptors'[daemon'.fd].opening
    BY <1>1, <2>4 DEF IInv, Clean, Opening
  <2> QED BY <1>3, <2>4, <2>5, <2>6, <2>7, <2>8 DEF Clean, Tidy, Opening
<1> QED BY <1>3, <1>4, <1>5, <1>6, <1>7, <1>8 DEF IInv, Core

-----------------------------------------------------------------------------
(* The steps that add a descriptor *)

\* The new descriptor is blank, and the only one that is not complete.
LEMMA ReserveInv ==
  ASSUME IInv, NEW p \in Proc, Reserve(p)
  PROVE  IInv'
<1>0. PICK n \in Nat : n = Len(descriptors) + 1 /\ Fds = 1 .. n - 1
  BY FdType DEF IInv, Core
<1>1. /\ pc[p] = "reserve" /\ Goto(p, "fill") /\ descriptors' = Append(descriptors, Blank)
      /\ fd' = [fd EXCEPT ![p] = n] /\ unannounced' = unannounced \cup {n}
      /\ UNCHANGED <<lock, used_size, age, traffic, told, lost>>
  BY <1>0 DEF Reserve, GiveFd, bounds
<1>2. /\ used_size + 2 * ChanSize <= shm_size /\ \A i \in Fds : descriptors[i].owner # p
      /\ lock /\ \A q \in Proc : q # p => pc[q] \notin Critical
  BY <1>1 DEF IInv, Core, Reserving, Mutex, Critical
<1>3. /\ Blank \in Descriptor /\ Blank.owner = NoOwner /\ ~Blank.closed /\ Blank.pid = NoPid
      /\ Blank.r_offset = 0 /\ Blank.w_offset = 0
  BY DEF Descriptor, Blank, States
<1>4. /\ descriptors' \in Seq(Descriptor) /\ Len(descriptors') = n
      /\ Fds' = Fds \cup {n} /\ n \notin Fds
      /\ descriptors'[n] = Blank /\ \A j \in Fds : descriptors'[j] = descriptors[j]
  <2>1. descriptors \in Seq(Descriptor)
    BY DEF IInv, Core, Types
  <2>2. descriptors' \in Seq(Descriptor) /\ Len(descriptors') = n
    BY <1>0, <1>1, <1>3, <2>1
  <2>3. Fds' = 1 .. n
    BY <2>2 DEF Fds
  <2>4. descriptors'[n] = Blank /\ \A j \in 1 .. n - 1 : descriptors'[j] = descriptors[j]
    BY <1>0, <1>1, <2>1
  <2> QED BY <1>0, <2>2, <2>3, <2>4
<1>5. /\ pc' \in [Proc -> Label] /\ pc'[p] = "fill"
      /\ \A q \in Proc : q # p => pc'[q] = pc[q]
      /\ fd' \in [Proc -> Nat] /\ fd'[p] = n
      /\ \A q \in Proc : q # p => fd'[q] = fd[q]
  BY <1>1, Moved, Given DEF Label, Critical, Making, IInv, Core
<1>6. Types'
  BY <1>1, <1>4, <1>5 DEF IInv, Core, Types
<1>7. \A i \in Fds : Done(i)
  BY <1>1 DEF IInv, Core, Ready, Critical, Making
<1>8. Layout'
  <2>1. \A i \in Fds : /\ MgrSize <= descriptors'[i].r_offset
                       /\ descriptors'[i].w_offset = descriptors'[i].r_offset + ChanSize
                       /\ descriptors'[i].w_offset + ChanSize <= used_size'
    BY <1>1, <1>4, <1>7 DEF Done, Below
  <2>2. /\ descriptors'[n].r_offset = 0 /\ descriptors'[n].w_offset = 0
        /\ used_size' + 2 * ChanSize <= shm_size /\ lock'
    BY <1>1, <1>2, <1>3, <1>4
  <2>3. ASSUME NEW i \in Fds', NEW j \in Fds', i < j,
               MgrSize <= descriptors'[j].r_offset,
               descriptors'[j].w_offset = descriptors'[j].r_offset + ChanSize
        PROVE  descriptors'[i].w_offset + ChanSize <= descriptors'[j].r_offset
    <3>1. j # n
      BY <2>2, <2>3, MgrAssumption
    <3>2. i \in Fds /\ j \in Fds
      BY <1>0, <1>4, <2>3, <3>1
    <3> QED BY <1>4, <1>7, <2>3, <3>2 DEF IInv, Core, Layout, Done
  <2> QED BY <1>4, <2>1, <2>2, <2>3 DEF Layout, Below, Above, Last
<1>9. OneEach'
  <2>1. \A i \in Fds : descriptors'[i].owner \in Proc
    BY <1>4, <1>7 DEF Done
  <2>2. descriptors'[n].owner \notin Proc
    BY <1>3, <1>4, MgrAssumption DEF NoOwner
  <2>3. \A i \in Fds' : descriptors'[i].owner \in Proc \/ (lock' /\ i = Len(descriptors'))
    BY <1>1, <1>2, <1>4, <2>1
  <2>4. ASSUME NEW i \in Fds', NEW j \in Fds', descriptors'[i].owner = descriptors'[j].owner
        PROVE  i = j
    <3>1. CASE i \in Fds /\ j \in Fds
      BY <1>4, <2>4, <3>1 DEF IInv, Core, OneEach
    <3>2. CASE i = n \/ j = n
      BY <1>4, <2>1, <2>2, <2>4, <3>2
    <3> QED BY <1>4, <3>1, <3>2
  <2> QED BY <2>3, <2>4 DEF OneEach, Last
<1>10. Mutex'
  BY <1>1, <1>2, <1>5 DEF IInv, Core, Mutex, Critical, Making
<1>11. Reserving'
  BY <1>2, <1>4, <1>5 DEF IInv, Core, Reserving, Critical, Making
<1>12. Own'
  <2>1. ASSUME NEW q \in Proc, q # p
        PROVE  /\ fd'[q] \in Fds' \cup {0} /\ pc'[q] # "fill"
               /\ pc'[q] \in Holding => fd'[q] \in Fds' /\ descriptors'[fd'[q]].owner = q
    BY <1>2, <1>4, <1>5, <2>1 DEF IInv, Core, Own, Critical, Making
  <2> QED BY <1>4, <1>5, <2>1 DEF Own, Holding
<1>13. Made'
  <2>1. \A q \in Proc : q # p => pc'[q] \notin {"fill", "init_r", "init_w"}
    BY <1>2, <1>5 DEF Critical, Making
  <2> QED BY <1>1, <1>2, <1>3, <1>4, <1>5, <2>1 DEF Made, Above, Pid
<1>14. \A q \in Proc : q # p /\ pc[q] \in Holding =>
          fd[q] \in Fds /\ descriptors'[fd[q]] = descriptors[fd[q]]
  BY <1>4 DEF IInv, Core, Own
<1>15. Open'
  <2>1. ASSUME NEW q \in Proc, q # p
        PROVE  /\ pc'[q] \in Opened \cup {"set_pid"} => ~descriptors'[fd'[q]].closed
               /\ pc'[q] \in Opened => descriptors'[fd'[q]].pid = <<q, age'[q]>>
               /\ pc'[q] \in Shut => descriptors'[fd'[q]].closed
    BY <1>1, <1>5, <1>14, <2>1 DEF IInv, Core, Open, Opened, Shut, Holding, Pid
  <2>2. pc'[p] \notin Opened \cup Shut \cup {"set_pid"}
    BY <1>5 DEF Opened, Shut
  <2> QED BY <2>1, <2>2 DEF Open, Pid
<1>16. Ready'
  <2>1. \A i \in Fds : Done(i)'
    BY <1>1, <1>4, <1>7 DEF Done, Below, SetUp
  <2>2. \A q \in Proc : pc'[q] \in Critical => q = p
    BY <1>2, <1>5
  <2>3. \A q \in Proc : pc'[q] \in {"registered", "spin_del"} => fd'[q] \in Fds
    BY <1>5, <1>14 DEF Holding
  <2>4. \A i \in told' : i \in Fds
    BY <1>1 DEF IInv, Core, Ready
  <2> QED BY <1>1, <1>2, <1>4, <1>5, <2>1, <2>2, <2>3, <2>4
          DEF Ready, Done, Below, SetUp, Critical, Making
<1>17. Announced'
  <2>1. lost = 0 => unannounced = {} /\ unannounced' = {n}
    BY <1>1 DEF IInv, Core, Announced, Critical, Announcing, Making
  <2>2. \A q \in Proc : pc'[q] \in {"registered", "spin_del"} => fd'[q] # n
    BY <1>4, <1>5, <1>14 DEF Holding
  <2> QED BY <1>1, <1>2, <1>5, <2>1, <2>2 DEF Announced, Critical, Announcing, Making
<1>18. Clean'
  BY <1>1, <1>4, <1>5, CleanKept DEF IInv, traffic
<1> QED BY <1>6, <1>8, <1>9, <1>10, <1>11, <1>12, <1>13, <1>15, <1>16, <1>17, <1>18 DEF IInv, Core

\* A field of it is written, which only its maker relies on.
LEMMA FillInv ==
  ASSUME IInv, NEW p \in Proc, Fill(p)
  PROVE  IInv'
<1>0. PICK i \in Fds :
        /\ i = fd[p] /\ i = Len(descriptors) /\ lock
        /\ descriptors[i].owner \in {NoOwner, p} /\ descriptors[i].pid \in {NoPid, Pid(p)}
        /\ Above(i) /\ ~descriptors[i].closed
  BY DEF Fill, IInv, Core, Own, Made, Mutex, Critical, Making
<1>1. /\ pc[p] = "fill"
      /\ UNCHANGED <<lock, used_size, pc, fd, age, traffic, told, unannounced, lost>>
  BY DEF Fill, history, bounds
<1>2. PICK d \in Descriptor :
        /\ descriptors' = [descriptors EXCEPT ![i] = d]
        /\ d.owner \in {NoOwner, p} /\ d.pid \in {NoPid, Pid(p)} /\ ~d.closed
        /\ d.r_offset \in {0, used_size} /\ d.w_offset \in {0, used_size + ChanSize}
        /\ d.opening = descriptors[i].opening
  <2>1. /\ descriptors[i] \in Descriptor /\ p \in Proc /\ Pid(p) \in Proc \X Nat
        /\ used_size \in Nat /\ used_size + ChanSize \in Nat
    BY FdType, MgrAssumption DEF IInv, Core, Types, Pid
  <2>2. \A o \in Proc : [descriptors[i] EXCEPT !.owner = o] \in Descriptor
    BY <2>1 DEF Descriptor
  <2>3. \A o \in Proc \X Nat : [descriptors[i] EXCEPT !.pid = o] \in Descriptor
    BY <2>1 DEF Descriptor
  <2>4. \A o \in Nat : /\ [descriptors[i] EXCEPT !.r_offset = o] \in Descriptor
                       /\ [descriptors[i] EXCEPT !.w_offset = o] \in Descriptor
    BY <2>1 DEF Descriptor
  <2>5. CASE descriptors' = [descriptors EXCEPT ![i].owner = p]
    BY <1>0, <2>1, <2>2, <2>5 DEF Descriptor, Above
  <2>6. CASE descriptors' = [descriptors EXCEPT ![i].pid = Pid(p)]
    BY <1>0, <2>1, <2>3, <2>6 DEF Descriptor, Above
  <2>7. CASE descriptors' = [descriptors EXCEPT ![i].r_offset = used_size]
    <3> DEFINE e == [descriptors[i] EXCEPT !.r_offset = used_size]
    <3>1. /\ e.owner = descriptors[i].owner /\ e.pid = descriptors[i].pid /\ ~e.closed
          /\ e.r_offset = used_size /\ e.w_offset = descriptors[i].w_offset
          /\ e.opening = descriptors[i].opening
      BY <1>0, <2>1 DEF Descriptor
    <3>2. e \in Descriptor /\ descriptors' = [descriptors EXCEPT ![i] = e]
      BY <2>1, <2>4, <2>7
    <3> HIDE DEF e
    <3> QED BY <1>0, <3>1, <3>2 DEF Above
  <2>8. CASE descriptors' = [descriptors EXCEPT ![i].w_offset = used_size + ChanSize]
    <3> DEFINE e == [descriptors[i] EXCEPT !.w_offset = used_size + ChanSize]
    <3>1. /\ e.owner = descriptors[i].owner /\ e.pid = descriptors[i].pid /\ ~e.closed
          /\ e.r_offset = descriptors[i].r_offset /\ e.w_offset = used_size + ChanSize
          /\ e.opening = descriptors[i].opening
      BY <1>0, <2>1 DEF Descriptor
    <3>2. e \in Descriptor /\ descriptors' = [descriptors EXCEPT ![i] = e]
      BY <2>1, <2>4, <2>8
    <3> HIDE DEF e
    <3> QED BY <1>0, <3>1, <3>2 DEF Above
  <2> QED BY <1>0, <2>5, <2>6, <2>7, <2>8 DEF Fill
<1>3. Became(i, d)
  BY <1>2, Updated DEF IInv, Core
<1>4. Types' /\ Fds' = Fds
  BY <1>1, <1>3 DEF IInv, Core, Types, Became
<1>5. \A q \in Proc : q # p => pc[q] \notin Critical /\ fd[q] = fd[q]
  BY <1>1 DEF IInv, Core, Mutex, Critical, Making
<1>6. \A q \in Proc : q # p /\ pc[q] \in Holding =>
        fd[q] \in Fds /\ descriptors'[fd[q]] = descriptors[fd[q]]
  BY <1>0, <1>3, NotShared DEF IInv, Became
<1>7. Layout'
  <2>1. d.r_offset \in {0, used_size} /\ d.w_offset \in {0, used_size + ChanSize}
        /\ used_size + 2 * ChanSize <= shm_size
    BY <1>0, <1>2 DEF Above
  <2>2. ~(MgrSize <= d.r_offset /\ d.w_offset = d.r_offset + ChanSize
          /\ d.w_offset + ChanSize <= used_size)
    BY <2>1, MgrAssumption DEF IInv, Core, Types
  <2>3. \A j \in Fds : j # i => descriptors'[j] = descriptors[j] /\ Below(j)
    BY <1>0, <1>3 DEF IInv, Core, Layout, Last, Became
  <2>4. descriptors'[i] = d
    BY <1>3 DEF Became
  <2>5. \A j \in Fds' : Below(j)' \/ (Last(j)' /\ Above(j)')
    BY <1>0, <1>1, <1>3, <1>4, <2>1, <2>3, <2>4 DEF Below, Above, Last, Became
  <2>6. ASSUME NEW j \in Fds', NEW k \in Fds', j < k, Below(j)', Below(k)'
        PROVE  descriptors'[j].w_offset + ChanSize <= descriptors'[k].r_offset
    <3>1. j # i /\ k # i
      BY <1>1, <2>2, <2>4, <2>6 DEF Below
    <3> QED BY <1>4, <2>3, <2>6, <3>1 DEF IInv, Core, Layout
  <2> QED BY <2>5, <2>6 DEF Layout
<1>8. OneEach' /\ Reserving'
  <2>1. \A j \in Fds : j # i =>
          descriptors'[j] = descriptors[j] /\ descriptors[j].owner # p /\ descriptors[j].owner \in Proc
    BY <1>0, <1>1, <1>3 DEF IInv, Core, Reserving, OneEach, Last, Became
  <2>2. descriptors'[i].owner \in {NoOwner, p} /\ NoOwner \notin Proc
    BY <1>2, <1>3, MgrAssumption DEF Became, NoOwner
  <2>3. OneEach'
    BY <1>0, <1>1, <1>3, <1>4, <2>1, <2>2 DEF IInv, Core, OneEach, Last, Became
  <2>4. Reserving'
    BY <1>0, <1>1, <1>4, <1>5, <2>1 DEF Reserving, Critical, Making
  <2> QED BY <2>3, <2>4
<1>9. Mutex' /\ Announced'
  BY <1>1 DEF IInv, Core, Mutex, Announced
<1>10. Own'
  BY <1>1, <1>0, <1>3, <1>4, <1>6 DEF IInv, Core, Own, Holding, Became
<1>11. Open'
  BY <1>1, <1>6 DEF IInv, Core, Open, Opened, Shut, Holding, Pid
<1>12. Made'
  <2>1. \A q \in Proc : q # p => pc'[q] \notin {"fill", "init_r", "init_w"}
    BY <1>1, <1>5 DEF Critical, Making
  <2> QED BY <1>0, <1>1, <1>2, <1>3, <2>1 DEF Made, Above, Pid, Became
<1>13. Ready'
  <2>1. \A j \in Fds : j # i => Done(j) /\ descriptors'[j] = descriptors[j]
    BY <1>0, <1>1, <1>3 DEF IInv, Core, Ready, Making, Became
  <2>2. \A j \in Fds : j # i => Done(j)'
    BY <1>1, <2>1 DEF Done, Below, SetUp
  <2>3. \A q \in Proc : pc'[q] \in {"registered", "spin_del"} => fd'[q] \in Fds /\ fd'[q] # i
    <3>1. ASSUME NEW q \in Proc, pc[q] \in {"registered", "spin_del"}
          PROVE  q # p /\ pc[q] \in Holding
      BY <1>1, <3>1 DEF Holding
    <3> QED BY <1>0, <1>1, <3>1, NotShared DEF IInv
  <2>4. \A j \in told' : j \in Fds /\ j # i
    BY <1>0, <1>1, MgrAssumption DEF IInv, Core, Ready, Done, Below, Above, Types
  <2> QED BY <1>0, <1>1, <1>4, <1>5, <2>2, <2>3, <2>4
          DEF Ready, Done, Below, SetUp, Critical, Making
<1>14. Clean'
  <2>1. \A j \in Fds : /\ descriptors'[j].opening = descriptors[j].opening
                       /\ descriptors[j].closed => descriptors'[j].closed
    BY <1>0, <1>2, <1>3 DEF Became
  <2> QED BY <1>1, <1>4, <2>1, CleanKept DEF IInv, traffic
<1> QED BY <1>4, <1>7, <1>8, <1>9, <1>10, <1>11, <1>12, <1>13, <1>14 DEF IInv, Core

\* The descriptor is written, and its place belongs to the part that is used.
LEMMA FilledInv ==
  ASSUME IInv, NEW p \in Proc, Filled(p)
  PROVE  IInv'
<1>0. PICK i \in Fds :
        /\ i = fd[p] /\ i = Len(descriptors) /\ lock
        /\ descriptors[i].owner = p /\ descriptors[i].pid = Pid(p)
        /\ descriptors[i].r_offset = used_size /\ descriptors[i].w_offset = used_size + ChanSize
        /\ used_size + 2 * ChanSize <= shm_size /\ ~descriptors[i].closed
  BY DEF Filled, Placed, Above, IInv, Core, Own, Made, Mutex, Critical, Making
<1>1. /\ pc[p] = "fill" /\ Goto(p, "init_r") /\ used_size' = used_size + 2 * ChanSize
      /\ UNCHANGED <<lock, descriptors, fd, age, traffic, told, unannounced, lost>>
  BY DEF Filled, history, bounds
<1>2. /\ pc' \in [Proc -> Label] /\ pc'[p] = "init_r"
      /\ \A q \in Proc : q # p => pc'[q] = pc[q]
  BY <1>1, Moved DEF IInv, Label, Critical, Making
<1>3. /\ used_size \in Nat /\ MgrSize \in Nat /\ MgrSize <= used_size /\ ChanSize \in Nat \ {0}
      /\ shm_size \in Nat /\ Fds' = Fds
      /\ \A j \in Fds : j \in Nat /\ descriptors[j].r_offset \in Nat /\ descriptors[j].w_offset \in Nat
  BY <1>1, MgrAssumption, FdType DEF IInv, Core, Types, Fds, Descriptor
<1>4. Types'
  <2>1. used_size' \in MgrSize .. shm_size
    BY <1>0, <1>1, <1>3
  <2> QED BY <1>1, <1>2, <2>1 DEF IInv, Core, Types
<1>5. \A q \in Proc : q # p => pc[q] \notin Critical
  BY <1>1 DEF IInv, Core, Mutex, Critical, Making
<1>6. \A j \in Fds : Below(j) => Below(j)'
  BY <1>1, <1>3 DEF Below
<1>7. Below(i)'
  BY <1>0, <1>1, <1>3 DEF Below
<1>8. Layout'
  <2>1. \A j \in Fds : j # i => Below(j)
    BY <1>0 DEF IInv, Core, Layout, Last
  <2>2. \A j \in Fds' : Below(j)'
    BY <1>3, <1>6, <1>7, <2>1
  <2>3. ASSUME NEW j \in Fds', NEW k \in Fds', j < k
        PROVE  descriptors'[j].w_offset + ChanSize <= descriptors'[k].r_offset
    <3>1. j \in Fds /\ k \in Fds /\ j # i
      BY <1>0, <1>3, <2>3, FdType DEF IInv, Core
    <3>2. CASE k = i
      BY <1>0, <1>1, <2>1, <3>1, <3>2 DEF Below
    <3>3. CASE k # i
      BY <1>1, <2>1, <2>3, <3>1, <3>3 DEF IInv, Core, Layout
    <3> QED BY <3>2, <3>3
  <2> QED BY <2>2, <2>3 DEF Layout
<1>9. OneEach' /\ Mutex' /\ Reserving'
  <2>1. OneEach'
    BY <1>1, <1>3 DEF IInv, Core, OneEach, Last
  <2>2. Mutex'
    BY <1>1, <1>2 DEF IInv, Core, Mutex, Critical, Making
  <2>3. Reserving'
    BY <1>2, <1>5 DEF Reserving, Critical, Making
  <2> QED BY <2>1, <2>2, <2>3
<1>10. Own' /\ Open'
  <2>1. Own'
    BY <1>0, <1>1, <1>2, <1>3 DEF IInv, Core, Own, Holding
  <2>2. Open'
    BY <1>0, <1>1, <1>2 DEF IInv, Core, Open, Opened, Shut, Pid
  <2> QED BY <2>1, <2>2
<1>11. Made'
  <2>1. \A q \in Proc : q # p => pc'[q] \notin {"fill", "init_r", "init_w"}
    BY <1>2, <1>5 DEF Critical, Making
  <2> QED BY <1>0, <1>1, <1>2, <1>7, <2>1 DEF Made, Below
<1>12. Ready'
  <2>1. \A j \in Fds : Done(j) => Done(j)'
    BY <1>1, <1>6 DEF Done, SetUp
  <2> QED BY <1>1, <1>2, <1>3, <2>1, <1>5 DEF IInv, Core, Ready, Done, Below, SetUp, Critical, Making, Mutex, Own, Holding
<1>13. Announced'
  BY <1>1, <1>2 DEF IInv, Core, Announced, Critical, Announcing, Making, Mutex
<1>14. Clean'
  BY <1>1, <1>2, <1>3, CleanKept DEF IInv, traffic
<1> QED BY <1>4, <1>8, <1>9, <1>10, <1>11, <1>12, <1>13, <1>14 DEF IInv, Core
-----------------------------------------------------------------------------
(* Messages *)

\* They touch no descriptor.
LEMMA SameCore ==
  ASSUME Core, UNCHANGED <<lock, used_size, descriptors, pc, fd, age, told, unannounced, lost>>
  PROVE  Core' /\ Fds' = Fds
<1>1. Fds' = Fds /\ Types' /\ Mutex' /\ OneEach'
  BY DEF Core, Types, Mutex, OneEach, Last, Fds
<1>2. Layout' /\ Made'
  BY <1>1 DEF Core, Layout, Made, Below, Above, Last, Pid
<1>3. Reserving' /\ Own' /\ Open' /\ Announced'
  BY <1>1 DEF Core, Reserving, Own, Open, Announced, Pid
<1>4. Ready'
  BY <1>1 DEF Core, Ready, Done, Below, SetUp
<1> QED BY <1>1, <1>2, <1>3, <1>4 DEF Core

\* A registered process uses channels of the present opening.
LEMMA TrafficInv ==
  ASSUME IInv, NEW p \in Proc, Traffic(p)
  PROVE  IInv'
<1>0. PICK i \in Fds : i = fd[p] /\ descriptors[i].owner = p /\ ~descriptors[i].closed
  BY DEF Traffic, IInv, Core, Own, Holding, Open, Opened
<1>1. /\ UNCHANGED <<lock, used_size, descriptors, pc, fd, age, told, unannounced, lost>>
      /\ left' = left \cup {<<i, descriptors[i].opening>>} /\ daemon' = daemon
      /\ straddled' = straddled
  BY <1>0 DEF Traffic, memory, history, bounds, Opening
<1>2. Core' /\ Fds' = Fds
  BY <1>1, SameCore DEF IInv
<1>3. /\ descriptors[i].opening \in Nat
      /\ <<i, descriptors[i].opening>>[1] = i
      /\ <<i, descriptors[i].opening>>[2] = descriptors[i].opening
  BY FdType DEF IInv, Core, Descriptor
<1>4. left' \subseteq Fds' \X Nat /\ straddled' \subseteq Fds'
      /\ daemon' \in [fd : Fds' \cup {0}, opening : Nat, stale : BOOLEAN]
  BY <1>1, <1>2, <1>3 DEF IInv, Clean
<1>5. \A j \in Fds' : descriptors'[j].closed \/ j \in straddled'
        \/ \A m \in left' : m[1] = j => m[2] = descriptors'[j].opening
  BY <1>1, <1>2, <1>3 DEF IInv, Clean, Tidy, Opening
<1>6. \A q \in Proc : pc'[q] = "reopen" =>
        /\ fd'[q] \in straddled' \/ \A m \in left' : m[1] # fd'[q]
        /\ daemon'.fd = fd'[q] => daemon'.stale
  <2>1. \A q \in Proc : pc[q] = "reopen" => fd[q] # i
    BY <1>0 DEF IInv, Core, Open, Shut
  <2> QED BY <1>1, <1>3, <2>1 DEF IInv, Clean
<1>7. daemon'.fd # 0 /\ ~daemon'.stale =>
        descriptors'[daemon'.fd].closed \/ daemon'.opening = descriptors'[daemon'.fd].opening
  BY <1>1 DEF IInv, Clean, Opening
<1> QED BY <1>2, <1>4, <1>5, <1>6, <1>7 DEF IInv, Clean, Tidy, Opening

\* The daemon enters a channel of an open descriptor.
LEMMA DaemonInInv ==
  ASSUME IInv, NEW i \in Fds, ~descriptors[i].closed, DaemonIn(i),
         UNCHANGED <<lock, used_size, descriptors, pc, fd, age, left, straddled, told, unannounced, lost>>
  PROVE  IInv'
<1>1. Core' /\ Fds' = Fds
  BY SameCore DEF IInv
<1>2. /\ daemon' = [fd |-> i, opening |-> descriptors[i].opening, stale |-> FALSE]
      /\ descriptors[i].opening \in Nat
  BY FdType DEF DaemonIn, Opening, IInv, Core, Descriptor
<1>3. \A q \in Proc : pc[q] = "reopen" => fd[q] # i
  BY DEF IInv, Core, Open, Shut
<1>4. left' \subseteq Fds' \X Nat /\ straddled' \subseteq Fds'
      /\ daemon' \in [fd : Fds' \cup {0}, opening : Nat, stale : BOOLEAN]
  BY <1>1, <1>2 DEF IInv, Clean
<1>5. \A j \in Fds' : descriptors'[j].closed \/ j \in straddled'
        \/ \A m \in left' : m[1] = j => m[2] = descriptors'[j].opening
  BY <1>1 DEF IInv, Clean, Tidy, Opening
<1>6. \A q \in Proc : pc'[q] = "reopen" =>
        /\ fd'[q] \in straddled' \/ \A m \in left' : m[1] # fd'[q]
        /\ daemon'.fd = fd'[q] => daemon'.stale
  BY <1>2, <1>3 DEF IInv, Clean
<1>7. daemon'.opening = descriptors'[daemon'.fd].opening
  BY <1>2
<1> QED BY <1>1, <1>4, <1>5, <1>6, <1>7 DEF IInv, Clean, Tidy, Opening

\* It finds one only where closed is 0.
LEMMA FoundIsOpen ==
  ASSUME Core, NEW b \in Proc, find_read_channel(b) # NoChannel
  PROVE  FirstOf(b) \in Fds /\ ~descriptors[FirstOf(b)].closed
<1>1. OwnedBy(b) # {} /\ get_read_channel(FirstOf(b)) # NoChannel
  BY DEF find_read_channel
<1>2. PICK i \in Fds : descriptors[i].owner = b
  BY <1>1 DEF OwnedBy
<1>3. OwnedBy(b) = {i} /\ i <= i
  BY <1>2, FdType DEF OwnedBy, Core, OneEach
<1>4. FirstOf(b) = i
  BY <1>3 DEF FirstOf
<1> QED BY <1>1, <1>4 DEF get_read_channel

\* What it leaves behind is of the present opening, or its call was cut in two, or
\* the descriptor is closed and still to be cleared.
LEMMA DaemonEndInv ==
  ASSUME IInv, DaemonEnd
  PROVE  IInv'
<1>0. PICK i \in Fds, o \in Nat, s \in BOOLEAN : daemon = [fd |-> i, opening |-> o, stale |-> s]
  BY DEF IInv, Clean, DaemonEnd
<1>1. /\ UNCHANGED <<lock, used_size, descriptors, pc, fd, age, told, unannounced, lost>>
      /\ daemon' = [fd |-> 0, opening |-> 0, stale |-> FALSE] /\ left' = left \cup {<<i, o>>}
      /\ straddled' = IF s THEN straddled \cup {i} ELSE straddled
      /\ <<i, o>>[1] = i /\ <<i, o>>[2] = o
  BY <1>0 DEF DaemonEnd, memory, history, bounds
<1>2. Core' /\ Fds' = Fds /\ 0 \notin Fds
  BY <1>1, SameCore, FdType DEF IInv, Core
<1>3. left' \subseteq Fds' \X Nat /\ straddled' \subseteq Fds' /\ straddled \subseteq straddled'
      /\ daemon' \in [fd : Fds' \cup {0}, opening : Nat, stale : BOOLEAN]
  BY <1>0, <1>1, <1>2 DEF IInv, Clean
<1>4. s \/ descriptors[i].closed \/ o = descriptors[i].opening
  BY <1>0, <1>2 DEF IInv, Clean, Opening
<1>5. ASSUME NEW j \in Fds'
      PROVE  descriptors'[j].closed \/ j \in straddled'
             \/ \A m \in left' : m[1] = j => m[2] = descriptors'[j].opening
  <2>1. descriptors[j].closed \/ Tidy(j) \/ j \in straddled
    BY <1>2 DEF IInv, Clean
  <2>2. CASE j = i /\ s
    BY <1>1, <2>2
  <2>3. CASE j # i \/ ~s
    BY <1>1, <1>3, <1>4, <2>1, <2>3 DEF Tidy, Opening
  <2> QED BY <2>2, <2>3
<1>6. ASSUME NEW q \in Proc, pc'[q] = "reopen"
      PROVE  /\ fd'[q] \in straddled' \/ \A m \in left' : m[1] # fd'[q]
             /\ daemon'.fd # fd'[q]
  <2>1. /\ fd[q] \in straddled \/ \A m \in left : m[1] # fd[q]
        /\ i = fd[q] => s
        /\ fd[q] \in Fds
    BY <1>0, <1>1, <1>6 DEF IInv, Clean, Core, Own, Holding
  <2>2. CASE fd[q] = i
    BY <1>1, <1>2, <2>1, <2>2
  <2>3. CASE fd[q] # i
    BY <1>1, <1>2, <1>3, <2>1, <2>3
  <2> QED BY <2>2, <2>3
<1>7. daemon'.fd = 0
  BY <1>1
<1> QED BY <1>2, <1>3, <1>5, <1>6, <1>7 DEF IInv, Clean, Tidy, Opening

\* Every step of the daemon.
LEMMA DaemonInv ==
  ASSUME IInv, Daemon
  PROVE  IInv'
<1>1. ASSUME NEW b \in Proc, DaemonPush(b) PROVE IInv'
  <2>1. FirstOf(b) \in Fds /\ ~descriptors[FirstOf(b)].closed
    BY <1>1, FoundIsOpen DEF DaemonPush, IInv
  <2> QED BY <1>1, <2>1, DaemonInInv DEF DaemonPush, memory, history, bounds
<1>2. ASSUME NEW b \in Proc, DaemonAstray(b) PROVE IInv'
  <2>1. UNCHANGED <<lock, used_size, descriptors, pc, fd, age, daemon, left, straddled,
                    told, unannounced, lost>>
    BY <1>2 DEF DaemonAstray, memory, history, bounds
  <2>2. Core' /\ Fds' = Fds
    BY <2>1, SameCore DEF IInv
  <2>3. Clean'
    BY <2>1, <2>2 DEF IInv, Clean, Tidy, Opening
  <2> QED BY <2>2, <2>3 DEF IInv
<1>3. ASSUME NEW i \in Fds, DaemonPop(i) PROVE IInv'
  <2>1. ~descriptors[i].closed
    BY <1>3 DEF DaemonPop, get_write_channel
  <2> QED BY <1>3, <2>1, DaemonInInv DEF DaemonPop, memory, history, bounds
<1> QED BY <1>1, <1>2, <1>3, DaemonEndInv DEF Daemon
-----------------------------------------------------------------------------
(* The theorems *)

\* A fresh registry.
LEMMA InitInv == Init => IInv
<1> SUFFICES ASSUME Init PROVE IInv
  OBVIOUS
<1>1. Types /\ Fds = {}
  <2>1. used_size \in MgrSize .. shm_size /\ lost \in Nat
    BY MgrAssumption DEF Init
  <2>2. descriptors \in Seq(Descriptor) /\ DOMAIN descriptors = {}
    BY DEF Init
  <2>3. pc \in [Proc -> Label] /\ fd \in [Proc -> Nat] /\ age \in [Proc -> Nat]
    BY DEF Init, Label
  <2>4. lock \in BOOLEAN
    BY DEF Init
  <2> QED BY <2>1, <2>2, <2>3, <2>4 DEF Types, Fds
<1>2. \A p \in Proc : pc[p] = "idle" /\ fd[p] = 0
  BY DEF Init
<1>3. Mutex /\ Layout /\ OneEach /\ Reserving
  BY <1>1, <1>2 DEF Mutex, Layout, OneEach, Reserving, Critical, Making
<1>4. Own /\ Made /\ Open
  BY <1>1, <1>2 DEF Own, Made, Open, Holding, Opened, Shut
<1>5. Ready /\ Announced
  BY <1>1, <1>2 DEF Init, Ready, Announced, Critical, Making, Announcing
<1>6. Clean
  BY <1>1, <1>2 DEF Init, Clean
<1> QED BY <1>1, <1>3, <1>4, <1>5, <1>6 DEF IInv, Core

\* Every step preserves the invariant.
LEMMA NextInv == IInv /\ [Next]_vars => IInv'
<1> SUFFICES ASSUME IInv, [Next]_vars PROVE IInv'
  OBVIOUS
<1>1. ASSUME NEW p \in Proc, Step(p) PROVE IInv'
  BY <1>1, LockedInv, FoundOpenInv, FoundClosedInv, ClearChannelsInv, ReopenInv, SetPidInv,
     NoRoomInv, NotFoundInv, ReserveInv, FillInv, FilledInv, InitReadInv, InitWriteInv,
     NotifyInv, UnlockInv, LeaveInv, CloseInv, UnsetPidInv, NotifyClosedInv DEF Step
<1>2. ASSUME NEW p \in Proc, Register(p) \/ Traffic(p) \/ Deregister(p) \/ Crash(p) PROVE IInv'
  BY <1>2, RegisterInv, TrafficInv, DeregisterInv, LeaveInv
<1>3. CASE UNCHANGED vars
  <2>1. Core' /\ Fds' = Fds
    BY <1>3, SameCore DEF vars, IInv, memory, history, bounds
  <2>2. Clean'
    BY <1>3, <2>1 DEF vars, traffic, memory, IInv, Clean, Tidy, Opening
  <2> QED BY <2>1, <2>2 DEF IInv
<1> QED BY <1>1, <1>2, <1>3, DaemonInv DEF Next

\* The inductive invariant holds in every reachable state.
THEOREM Invariance == Spec => []IInv
BY InitInv, NextInv, PTL DEF Spec

\* The channels of all descriptors lie apart in the segment and a bus id has
\* one descriptor, whoever registers at the same time and wherever one dies; a
\* descriptor that is not written to its end is the last, under a lock that is held.
THEOREM Apart == Spec => []ChannelsApart
<1>1. IInv /\ astray \in BOOLEAN => ChannelsApart
  <2> SUFFICES ASSUME IInv, astray \in BOOLEAN PROVE ChannelsApart
    OBVIOUS
  <2>0. /\ MgrSize \in Nat \ {0} /\ ChanSize \in Nat \ {0} /\ shm_size \in Nat
        /\ used_size \in MgrSize .. shm_size
    BY MgrAssumption DEF IInv, Core, Types
  <2>1. \A i \in Fds : /\ i \in Nat /\ descriptors[i] \in Descriptor
                       /\ descriptors[i].r_offset \in Nat /\ descriptors[i].w_offset \in Nat
    BY FdType DEF IInv, Core, Descriptor
  <2>2. TypeOK
    <3>1. \A p \in Proc : fd[p] \in Fds \cup {0}
      BY DEF IInv, Core, Own
    <3>2. \A i \in Fds :
            /\ descriptors[i].owner \in Proc \cup {NoOwner} /\ descriptors[i].closed \in BOOLEAN
            /\ descriptors[i].r \in States /\ descriptors[i].w \in States
            /\ descriptors[i].opening \in Nat
      BY <2>1 DEF Descriptor
    <3>3. daemon.fd \in Fds \cup {0} /\ straddled \subseteq Fds
      BY DEF IInv, Clean
    <3> QED BY <2>0, <2>1, <3>1, <3>2, <3>3 DEF TypeOK, IInv, Core, Types, States
  \* Where a descriptor's channels lie, as far as they are placed.
  <2>3. ASSUME NEW i \in Fds
        PROVE  /\ Below(i) => /\ MgrSize <= descriptors[i].r_offset
                              /\ descriptors[i].w_offset = descriptors[i].r_offset + ChanSize
                              /\ descriptors[i].w_offset + ChanSize <= used_size
               /\ ~Below(i) => /\ i = Len(descriptors) /\ lock
                               /\ descriptors[i].r_offset \in {0, used_size}
                               /\ descriptors[i].w_offset \in {0, used_size + ChanSize}
                               /\ used_size + 2 * ChanSize <= shm_size
    BY DEF IInv, Core, Layout, Below, Above, Last
  <2>4. ASSUME NEW i \in Fds
        PROVE  /\ \A o \in Places(i) : Extent(o) \subseteq MgrSize .. shm_size - 1
               /\ Placed(i) => Extent(descriptors[i].r_offset) \cap Extent(descriptors[i].w_offset) = {}
               /\ (Placed(i) /\ descriptors[i].owner # NoOwner) \/ (i = Len(descriptors) /\ lock)
    <3>1. \A o \in Places(i) : o \in Nat /\ MgrSize <= o /\ o + ChanSize <= shm_size
      BY <2>0, <2>1, <2>3 DEF Places
    <3>2. \A o \in Places(i) : Extent(o) \subseteq MgrSize .. shm_size - 1
      BY <2>0, <3>1 DEF Extent
    <3>3. Placed(i) => descriptors[i].w_offset = descriptors[i].r_offset + ChanSize
      BY <2>0, <2>1, <2>3 DEF Placed
    <3>4. Placed(i) => Extent(descriptors[i].r_offset) \cap Extent(descriptors[i].w_offset) = {}
      BY <2>0, <2>1, <3>3 DEF Extent
    <3>5. (Placed(i) /\ descriptors[i].owner # NoOwner) \/ (i = Len(descriptors) /\ lock)
      <4>1. Below(i) => Placed(i)
        BY <2>0, <2>1, <2>3 DEF Placed
      <4>2. descriptors[i].owner # NoOwner \/ (i = Len(descriptors) /\ lock)
        BY MgrAssumption DEF IInv, Core, OneEach, Last, NoOwner
      <4> QED BY <2>3, <4>1, <4>2
    <3> QED BY <3>2, <3>4, <3>5
  <2>5. ASSUME NEW i \in Fds, NEW j \in Fds, i < j
        PROVE  \A o \in Places(i), q \in Places(j) : Extent(o) \cap Extent(q) = {}
    <3>1. Below(i)
      BY <2>1, <2>3, <2>5, FdType DEF IInv, Core
    <3>2. \A q \in Places(j) : q \in Nat /\ descriptors[i].w_offset + ChanSize <= q
      <4>1. CASE Below(j)
        <5>1. descriptors[i].w_offset + ChanSize <= descriptors[j].r_offset
          BY <2>5, <3>1, <4>1 DEF IInv, Core, Layout
        <5>2. descriptors[j].w_offset = descriptors[j].r_offset + ChanSize
          BY <2>3, <4>1
        <5>3. \A q \in Places(j) : q = descriptors[j].r_offset \/ q = descriptors[j].w_offset
          BY DEF Places
        <5> QED BY <2>0, <2>1, <5>1, <5>2, <5>3
      <4>2. CASE ~Below(j)
        <5>1. descriptors[i].w_offset + ChanSize <= used_size
          BY <2>3, <3>1
        <5>2. /\ descriptors[j].r_offset \in {0, used_size}
              /\ descriptors[j].w_offset \in {0, used_size + ChanSize}
          BY <2>3, <4>2
        <5>3. \A q \in Places(j) : q \in {used_size, used_size + ChanSize}
          BY <2>0, <2>1, <5>2 DEF Places
        <5> QED BY <2>0, <2>1, <5>1, <5>3
      <4> QED BY <4>1, <4>2
    <3>3. \A o \in Places(i) : o \in Nat /\ o <= descriptors[i].w_offset
      BY <2>0, <2>1, <2>3, <3>1 DEF Places
    <3> QED BY <2>0, <2>1, <3>2, <3>3 DEF Extent
  <2>6. ASSUME NEW i \in Fds, NEW j \in Fds, i # j
        PROVE  /\ descriptors[i].owner # descriptors[j].owner
               /\ \A o \in Places(i), q \in Places(j) : Extent(o) \cap Extent(q) = {}
    <3>1. descriptors[i].owner # descriptors[j].owner
      BY <2>6 DEF IInv, Core, OneEach
    <3>2. i < j \/ j < i
      BY <2>1, <2>6
    <3> QED BY <2>5, <3>1, <3>2
  <2> QED BY <2>2, <2>4, <2>6 DEF ChannelsApart
<1>2. Spec => [](astray \in BOOLEAN)
  <2>1. Init => astray \in BOOLEAN
    BY DEF Init
  <2>2. astray \in BOOLEAN /\ [Next]_vars => (astray \in BOOLEAN)'
    <3> SUFFICES ASSUME astray \in BOOLEAN, [Next]_vars PROVE astray' \in BOOLEAN
      OBVIOUS
    <3>1. ASSUME NEW p \in Proc, Step(p) PROVE astray' = astray
      BY <3>1 DEF Step, traffic, Locked, FoundOpen, FoundClosed, ClearChannels, Reopen, SetPid,
         NoRoom, NotFound, Reserve, Fill, Filled, InitRead, InitWrite, Notify, Unlock,
         UnlockFailed, Close, UnsetPid, NotifyClosed, UnlockClosed
    <3>2. ASSUME NEW p \in Proc, Register(p) \/ Traffic(p) \/ Deregister(p) \/ Crash(p)
          PROVE  astray' = astray
      BY <3>2 DEF Register, Traffic, Deregister, Crash, traffic
    <3>3. CASE Daemon
      BY <3>3 DEF Daemon, DaemonEnd, DaemonPush, DaemonAstray, DaemonPop
    <3>4. CASE UNCHANGED vars
      BY <3>4 DEF vars, traffic
    <3>5. CASE Next
      <4>1. Daemon \/ \E p \in Proc : Step(p) \/ (Register(p) \/ Traffic(p) \/ Deregister(p) \/ Crash(p))
        BY <3>5, Zenon DEF Next
      <4> QED BY <3>1, <3>2, <3>3, <4>1
    <3> QED BY <3>4, <3>5
  <2> QED BY <2>1, <2>2, PTL DEF Spec
<1> QED BY <1>1, <1>2, Invariance, PTL

\* The daemon is told only of descriptors whose channels are set up, and one that is
\* open holds nothing of an earlier opening, unless a call of the daemon was cut in
\* two by clear().
THEOREM ToldReady == Spec => []ToldOnlyWhenReady
<1>1. IInv => ToldOnlyWhenReady
  <2> SUFFICES ASSUME IInv PROVE ToldOnlyWhenReady
    OBVIOUS
  <2>1. \A i \in told : SetUp(i)
    BY DEF IInv, Core, Ready, Done
  <2>2. \A p \in Proc : pc[p] = "clear" => SetUp(fd[p])
    BY DEF IInv, Core, Ready, Done, Critical, Making, Own, Holding
  <2>3. \A i \in Fds : descriptors[i].closed \/ Tidy(i) \/ i \in straddled
    BY DEF IInv, Clean
  <2> QED BY <2>1, <2>2, <2>3 DEF ToldOnlyWhenReady
<1> QED BY <1>1, Invariance, PTL

\* What a successful register_bus() leaves stands until deregister_bus().
THEOREM Stands == Spec => []RegistrationStands
<1>1. IInv => RegistrationStands
  <2> SUFFICES ASSUME IInv, NEW p \in Proc, pc[p] = "registered"
               PROVE  LET d == descriptors[fd[p]] IN
                      /\ d.owner = p /\ ~d.closed /\ d.pid = Pid(p)
                      /\ get_write_channel(fd[p]) = d.w_offset /\ find_read_channel(p) = d.r_offset
                      /\ lost = 0 => fd[p] \notin unannounced
    BY DEF RegistrationStands
  <2>1. PICK i \in Fds : i = fd[p] /\ descriptors[i].owner = p
    BY DEF IInv, Core, Own, Holding
  <2>2. ~descriptors[i].closed /\ descriptors[i].pid = Pid(p) /\ SetUp(i)
    BY <2>1 DEF IInv, Core, Open, Opened, Ready, Done
  <2>3. get_write_channel(i) = descriptors[i].w_offset
        /\ get_read_channel(i) = descriptors[i].r_offset
    BY <2>2 DEF get_write_channel, get_read_channel, SetUp, HasMagic
  <2>4. find_read_channel(p) = descriptors[i].r_offset
    <3>1. OwnedBy(p) = {i}
      BY <2>1 DEF OwnedBy, IInv, Core, OneEach
    <3>2. i <= i
      BY FdType DEF IInv, Core
    <3>3. FirstOf(p) = i
      BY <3>1, <3>2 DEF FirstOf
    <3> QED BY <2>3, <3>1, <3>3 DEF find_read_channel
  <2>5. lost = 0 => i \notin unannounced
    BY <2>1 DEF IInv, Core, Announced
  <2> QED BY <2>1, <2>2, <2>3, <2>4, <2>5
<1> QED BY <1>1, Invariance, PTL
=============================================================================
