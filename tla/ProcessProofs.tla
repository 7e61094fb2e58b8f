---------------------------- MODULE ProcessProofs ----------------------------
(***************************************************************************)
(* The proofs of what MCProcess says of the server, of its shared memory,  *)
(* of the coroutine scheduler, of the link between two daemons, of unique  *)
(* ids and of the loggers.  The first four are proved on their own, from   *)
(* their own steps, and carried over to the process by the lemmas here     *)
(* first; the others have an invariant of the process.                     *)
(***************************************************************************)
EXTENDS MCProcess, SequenceTheorems, TLAPS

(* What is proved of a part holds of it here, among the others: its steps   *)
(* are its own and the others leave it alone.                               *)

LEMMA ServerPart == Spec => Process!Spec
<1>1. Init => Process!Init
  BY DEF Init
<1>2. UNCHANGED serverVars => UNCHANGED Process!vars
  BY DEF serverVars, Process!vars, Process!watcher, Process!signals, Process!stopping,
         Process!shared, Process!counts
<1>3. [Next]_vars => [Process!Next]_(Process!vars)
  <2>1. UNCHANGED vars => UNCHANGED serverVars
    BY DEF vars
  <2> QED  BY <1>2, <2>1, Zenon DEF Next
<1> QED  BY <1>1, <1>3, PTL DEF Spec, Process!Spec

LEMMA MemoryPart == Spec => Memory!Spec
<1>1. Init => Memory!Init
  BY DEF Init
<1>2. UNCHANGED memoryVars => UNCHANGED Memory!vars
  BY DEF memoryVars, Memory!vars, Memory!table
<1>3. [Next]_vars => [Memory!Next]_(Memory!vars)
  <2>1. UNCHANGED vars => UNCHANGED memoryVars
    BY DEF vars
  <2> QED  BY <1>2, <2>1, Zenon DEF Next
<1> QED  BY <1>1, <1>3, PTL DEF Spec, Memory!Spec

LEMMA SchedulerPart == Spec => Scheduler!Spec
<1>1. Init => Scheduler!Init
  BY DEF Init
<1>2. UNCHANGED coroutineVars => UNCHANGED Scheduler!vars
  BY DEF coroutineVars, Scheduler!vars
<1>3. [Next]_vars => [Scheduler!Next]_(Scheduler!vars)
  <2>1. UNCHANGED vars => UNCHANGED coroutineVars
    BY DEF vars
  <2> QED  BY <1>2, <2>1, Zenon DEF Next
<1> QED  BY <1>1, <1>3, PTL DEF Spec, Scheduler!Spec

LEMMA LinkPart == Spec => Link!Spec
<1>1. Init => Link!Init
  BY DEF Init
<1>2. UNCHANGED linkVars => UNCHANGED Link!vars
  BY DEF linkVars, Link!vars, Link!sender, Link!receiver
<1>3. [Next]_vars => [Link!Next]_(Link!vars)
  <2>1. UNCHANGED vars => UNCHANGED linkVars
    BY DEF vars
  <2> QED  BY <1>2, <2>1, Zenon DEF Next
<1> QED  BY <1>1, <1>3, PTL DEF Spec, Link!Spec

(* The server: the proof of ExitIsClean, for any number of starts, signals   *)
(* and messages.                                                             *)

LEMMA ServerInit == Process!Init => Process!IInv
  BY DEF Process!Init, Process!IInv, Process!Types, Process!Holds, Process!Way, Process!Phases,
         Process!Starting, Process!Ending, Process!Ended

\* A process that starts.
LEMMA StartingSteps ==
  ASSUME Process!IInv,
         Process!init_buf \/ Process!init_shm \/ Process!lock_pid \/ Process!register_bus
           \/ Process!create_watcher \/ Process!watch_signal
           \/ Process!start_watcher \/ Process!on_init
  PROVE  Process!IInv'
<1> USE DEF Process!IInv, Process!Types, Process!Holds, Process!Way, Process!Phases, Process!Starting,
            Process!Ending, Process!Ended,
            Process!watcher, Process!signals, Process!stopping, Process!shared, Process!counts
<1>1. CASE Process!init_buf \/ Process!lock_pid \/ Process!create_watcher \/ Process!watch_signal
  \/ Process!on_init
  BY <1>1 DEF Process!init_buf, Process!lock_pid, Process!create_watcher, Process!watch_signal,
              Process!on_init
<1>2. CASE Process!init_shm
  <2> PICK resume \in BOOLEAN : /\ phase' = IF resume = shm THEN "lock_pid" ELSE "failed"
                                /\ shm' = (shm \/ ~resume)
    BY <1>2 DEF Process!init_shm
  <2>1. CASE resume = shm  BY <1>2, <2>1 DEF Process!init_shm
  <2>2. CASE resume # shm  BY <1>2, <2>2 DEF Process!init_shm
  <2> QED  BY <2>1, <2>2
<1>3. CASE Process!register_bus
  BY <1>3 DEF Process!register_bus
<1>4. CASE Process!start_watcher
  BY <1>4 DEF Process!start_watcher
<1> QED  BY <1>1, <1>2, <1>3, <1>4

\* The event loop.
LEMMA LoopSteps ==
  ASSUME Process!IInv, phase = "loop",
         Process!on_signal_event \/ (\E s \in Process!Stops : Process!stop(s)) \/ Process!reload
           \/ Process!hotfix \/ Process!recv_bus_msg
           \/ Process!ReadEnds \/ Process!on_stop_timeout \/ Process!RunEnds
  PROVE  Process!IInv'
<1> USE DEF Process!IInv, Process!Types, Process!Holds, Process!Way, Process!Phases, Process!Starting,
            Process!Ending, Process!Ended,
            Process!watcher, Process!signals, Process!stopping, Process!shared, Process!counts
<1>1. CASE Process!on_signal_event \/ Process!reload \/ Process!ReadEnds
  BY <1>1 DEF Process!on_signal_event, Process!reload, Process!ReadEnds
<1>2. CASE \E s \in Process!Stops : Process!stop(s)
  <2>1. PICK s \in Process!Stops : Process!stop(s)
    BY <1>2
  <2>2. CASE stop_timer # "none"
    BY <2>1, <2>2 DEF Process!stop
  <2>3. CASE stop_timer = "none"
    BY <2>1, <2>3 DEF Process!stop, Process!StopPolling
  <2> QED  BY <2>2, <2>3
<1>3. CASE Process!hotfix
  BY <1>3 DEF Process!hotfix
<1>4. CASE Process!recv_bus_msg
  BY <1>4 DEF Process!recv_bus_msg
<1>5. CASE Process!on_stop_timeout
  BY <1>5 DEF Process!on_stop_timeout, Process!Rearm
<1>6. CASE Process!RunEnds
  BY <1>6 DEF Process!RunEnds
<1> QED  BY <1>1, <1>2, <1>3, <1>4, <1>5, <1>6

\* fini(), and what comes from outside.
LEMMA OtherSteps ==
  ASSUME Process!IInv,
         Process!Start \/ Process!delete_sig_watcher \/ Process!deregister_bus \/ Process!shm_fini
           \/ (\E s \in Process!Signals : Process!Kill(s)) \/ Process!Deliver
  PROVE  Process!IInv'
<1> USE DEF Process!IInv, Process!Types, Process!Holds, Process!Way, Process!Phases, Process!Starting,
            Process!Ending, Process!Ended,
            Process!watcher, Process!signals, Process!stopping, Process!shared, Process!counts
<1>1. CASE Process!Start
  BY <1>1 DEF Process!Start
<1>2. CASE Process!delete_sig_watcher
  BY <1>2 DEF Process!delete_sig_watcher
<1>3. CASE Process!deregister_bus
  BY <1>3 DEF Process!deregister_bus
<1>4. CASE Process!shm_fini
  BY <1>4 DEF Process!shm_fini
<1>5. CASE \E s \in Process!Signals : Process!Kill(s)
  BY <1>5 DEF Process!Kill
<1>6. CASE Process!Deliver
  BY <1>6 DEF Process!Deliver
<1> QED  BY <1>1, <1>2, <1>3, <1>4, <1>5, <1>6

\* The server on its own: IInv of Server is inductive.
LEMMA ServerEnds == Process!Spec => []Process!ExitIsClean
<1>1. Process!IInv /\ [Process!Next]_(Process!vars) => Process!IInv'
  <2> SUFFICES ASSUME Process!IInv, [Process!Next]_(Process!vars) PROVE Process!IInv'
    OBVIOUS
  <2>1. CASE UNCHANGED Process!vars
    BY <2>1 DEF Process!vars, Process!IInv, Process!Types, Process!Holds, Process!Way, Process!watcher,
                Process!signals, Process!stopping, Process!shared, Process!counts
  <2>2. CASE Process!Next
    BY <2>2, StartingSteps, LoopSteps, OtherSteps DEF Process!Next, Process!Process
  <2> QED  BY <2>1, <2>2
<1>2. Process!IInv => Process!ExitIsClean
  BY DEF Process!IInv, Process!Types, Process!Holds, Process!Way, Process!ExitIsClean, Process!Phases,
         Process!Starting, Process!Ending, Process!Ended
<1> QED  BY <1>1, <1>2, ServerInit, PTL DEF Process!Spec

\* A server process ends as ExitIsClean says, in any number of starts, with
\* any signals and messages.
THEOREM CleanExit == Spec => []ExitIsClean
BY ServerEnds, ServerPart, PTL DEF ExitIsClean
------------------------------------------------------------------------------
(* Shared memory: IInv of ShmLifecycle is inductive. *)

LEMMA EntryChanged ==
  ASSUME NEW e \in Memory!Entry, NEW x \in Int
  PROVE  [e EXCEPT !.used = x] \in Memory!Entry /\ [e EXCEPT !.real = x] \in Memory!Entry
<1> e = [addr |-> e.addr, used |-> e.used, real |-> e.real]
  BY DEF Memory!Entry
<1>1. [e EXCEPT !.used = x] = [addr |-> e.addr, used |-> x, real |-> e.real]
  OBVIOUS
<1>2. [e EXCEPT !.real = x] = [addr |-> e.addr, used |-> e.used, real |-> x]
  OBVIOUS
<1>3. e.addr \in BOOLEAN /\ e.used \in Int /\ e.real \in Int
  BY DEF Memory!Entry
<1> QED  BY <1>1, <1>2, <1>3 DEF Memory!Entry

LEMMA MemoryInit == Memory!Init => Memory!IInv
<1> SUFFICES ASSUME Memory!Init PROVE Memory!IInv
  OBVIOUS
<1>1. Memory!Types
  <2>1. Memory!Fresh \in [Memory!Blocks -> Memory!Entry]
    BY DEF Memory!Fresh, Memory!NoBlock, Memory!Entry
  <2>2. job \in [b : Memory!Blocks, n : Nat, init : BOOLEAN]
    BY DEF Memory!Init, Memory!Blocks
  <2>3. object \in [Memory!Blocks \cup {Memory!Mgr} -> Int]
    BY DEF Memory!Init, Memory!Absent
  <2> QED  BY <2>1, <2>2, <2>3 DEF Memory!Init, Memory!Types
<1>2. Memory!Around /\ Memory!Progress /\ Memory!Growing /\ Memory!Removing /\ Memory!MemoryIsUsable
  BY DEF Memory!Init, Memory!Around, Memory!Progress, Memory!Growing, Memory!Removing,
         Memory!MemoryIsUsable, Memory!Nothing, Memory!Making, Memory!Between
<1> QED  BY <1>1, <1>2 DEF Memory!IInv

\* Every step keeps the types.
LEMMA MemoryTypes ==
  ASSUME MmapSize \in Nat, MaxRequest \in Nat, Memory!Types, Memory!Next
  PROVE  Memory!Types'
<1> USE DEF Memory!Types, Memory!Same, Memory!Size, Memory!Unlink, Memory!Goes, Memory!Blocks, Memory!Mgr,
            Memory!Meta, Memory!User, Memory!Absent, Memory!table
<1>1. CASE Memory!OpenMgr \/ Memory!SizeMgr
  BY <1>1 DEF Memory!OpenMgr, Memory!SizeMgr
<1>2. CASE Memory!MapMgr
  <2>1. Memory!Fresh \in [Memory!Blocks -> Memory!Entry]
    BY DEF Memory!Fresh, Memory!NoBlock, Memory!Entry
  <2>2. [b |-> Memory!Meta, n |-> 1, init |-> TRUE] \in [b : Memory!Blocks, n : Nat, init : BOOLEAN]
    OBVIOUS
  <2>3. object' \in [Memory!Blocks \cup {Memory!Mgr} -> Int] /\ named' \in BOOLEAN
    <3>1. CASE object' = object /\ named' = TRUE
      BY <3>1
    <3>2. CASE Memory!Unlink(Memory!Mgr) /\ named' = named
      BY <3>2
    <3> QED  BY <1>2, <3>1, <3>2 DEF Memory!MapMgr
  <2>4. ready' = FALSE /\ block' = Memory!Fresh /\ job' = [b |-> Memory!Meta, n |-> 1, init |-> TRUE] /\ torn' = torn
    BY <1>2 DEF Memory!MapMgr
  <2> HIDE DEF Memory!Blocks
  <2> QED  BY <2>1, <2>2, <2>3, <2>4
<1>3. CASE Memory!OpenBlock \/ Memory!SizeBlock \/ Memory!MapBlock
  BY <1>3 DEF Memory!OpenBlock, Memory!SizeBlock, Memory!MapBlock, Memory!CreatedNot, Memory!FailedUnlinks
<1>4. CASE Memory!StoreAddr
  BY <1>4 DEF Memory!StoreAddr, Memory!Entry
<1>5. CASE Memory!StoreSizes
  <2>1. [addr |-> block[job.b].addr, used |-> 0, real |-> object[job.b]] \in Memory!Entry
    <3>1. block[job.b].addr \in BOOLEAN /\ object[job.b] \in Int
      BY DEF Memory!Entry
    <3> QED  BY <3>1 DEF Memory!Entry
  <2>2. block' \in [Memory!Blocks -> Memory!Entry]
    BY <1>5, <2>1 DEF Memory!StoreSizes
  <2> QED  BY <1>5, <2>2 DEF Memory!StoreSizes
<1>6. CASE Memory!StoreReal \/ Memory!Construct
  <2>1. [block[job.b] EXCEPT !.real = object[job.b]] \in Memory!Entry
    <3>1. block[job.b] \in Memory!Entry /\ object[job.b] \in Int
      OBVIOUS
    <3> QED  BY <3>1, EntryChanged
  <2>2. [block[Memory!Meta] EXCEPT !.used = 1] \in Memory!Entry
    <3>1. block[Memory!Meta] \in Memory!Entry /\ 1 \in Int
      OBVIOUS
    <3> QED  BY <3>1, EntryChanged, Zenon
  <2>3. block' \in [Memory!Blocks -> Memory!Entry]
    BY <1>6, <2>1, <2>2 DEF Memory!StoreReal, Memory!Construct
  <2>4. UNCHANGED <<object, named, job, torn>> /\ ready' \in BOOLEAN
    BY <1>6 DEF Memory!StoreReal, Memory!Construct
  <2> QED  BY <2>3, <2>4
<1>7. CASE Memory!Take
  BY <1>7 DEF Memory!Take, Memory!Entry
<1>8. CASE \E b \in Memory!Blocks, n \in 1 .. MaxRequest : Memory!sbrk(b, n)
  <2>1. PICK b \in Memory!Blocks, n \in 1 .. MaxRequest : Memory!sbrk(b, n)
    BY <1>8
  <2>2. job' \in [b : Memory!Blocks, n : Nat, init : BOOLEAN]
    BY <2>1 DEF Memory!sbrk
  <2> QED  BY <2>1, <2>2 DEF Memory!sbrk
<1>9. CASE Memory!Resize
  BY <1>9 DEF Memory!Resize, Memory!NewSize, Memory!Entry
<1>10. CASE Memory!Fini
  <2>1. job' \in [b : Memory!Blocks, n : Nat, init : BOOLEAN]
    BY <1>10 DEF Memory!Fini
  <2> QED  BY <1>10, <2>1 DEF Memory!Fini
<1>11. CASE Memory!Resume \/ Memory!UnlinkBlock \/ Memory!UnlinkMgr
  BY <1>11 DEF Memory!Resume, Memory!UnlinkBlock, Memory!UnlinkMgr
<1>12. CASE Memory!Die
  <2>1. torn' \in BOOLEAN
    BY <1>12, Zenon DEF Memory!Die
  <2> QED  BY <1>12, <2>1 DEF Memory!Die
<1>13. CASE Memory!ClearBlock
  BY <1>13 DEF Memory!ClearBlock, Memory!NoBlock, Memory!Entry
<1> QED  BY <1>1, <1>2, <1>3, <1>4, <1>5, <1>6, <1>7, <1>8, <1>9, <1>10, <1>11, <1>12, <1>13,
            Zenon DEF Memory!Next

\* Every step but a death keeps the rest.
LEMMA MemoryKept ==
  ASSUME MmapSize \in Nat, MaxRequest \in Nat, 1 <= MmapSize, MaxRequest <= MmapSize,
         Memory!IInv, Memory!Next, ~torn, ~torn'
  PROVE  Memory!Around' /\ Memory!Progress' /\ Memory!Growing' /\ Memory!Removing' /\ Memory!MemoryIsUsable'
<1> USE DEF Memory!IInv, Memory!Types, Memory!Entry, Memory!Around, Memory!Progress, Memory!Growing,
            Memory!Removing, Memory!MemoryIsUsable, Memory!Nothing, Memory!Whole, Memory!Intact,
            Memory!Making, Memory!Between, Memory!Blocks, Memory!Mgr, Memory!Meta, Memory!User,
            Memory!Absent, Memory!Same, Memory!Size, Memory!Unlink, Memory!Goes, Memory!table
<1>1. CASE Memory!OpenMgr
  BY <1>1 DEF Memory!OpenMgr
<1>2. CASE Memory!SizeMgr
  BY <1>2 DEF Memory!SizeMgr
<1>3. CASE Memory!MapMgr
  BY <1>3 DEF Memory!MapMgr, Memory!Fresh, Memory!NoBlock
<1>4. CASE Memory!OpenBlock
  BY <1>4 DEF Memory!OpenBlock, Memory!CreatedNot
<1>5. CASE Memory!SizeBlock
  BY <1>5 DEF Memory!SizeBlock, Memory!CreatedNot, Memory!FailedUnlinks
<1>6. CASE Memory!MapBlock
  BY <1>6 DEF Memory!MapBlock, Memory!CreatedNot, Memory!FailedUnlinks
<1>7. CASE Memory!StoreAddr
  BY <1>7 DEF Memory!StoreAddr
<1>8. CASE Memory!StoreSizes
  <2>1. block'[job.b] = [addr |-> block[job.b].addr, used |-> 0, real |-> object[job.b]]
    BY <1>8 DEF Memory!StoreSizes
  <2>2. \A b \in Memory!Blocks \ {job.b} : block'[b] = block[b]
    BY <1>8 DEF Memory!StoreSizes
  <2>3. UNCHANGED <<object, named, ready, job>> /\ at = "store_sizes"
    BY <1>8 DEF Memory!StoreSizes
  <2>4. CASE job.init
    <3>1. at' = "construct" /\ job.b = Memory!Meta /\ object[Memory!Meta] = 1 /\ object[Memory!Mgr] = 1 /\ named
      BY <1>8, <2>3, <2>4 DEF Memory!StoreSizes
    <3>2. object[Memory!User] = Memory!Absent /\ ~block'[Memory!User].addr
      BY <2>2, <2>3, <2>4, <3>1
    <3>3. block[Memory!Meta].addr = TRUE
      BY <2>3, <3>1
    <3>4. block'[Memory!Meta] = [addr |-> TRUE, used |-> 0, real |-> 1]
      BY <2>1, <3>1, <3>3
    <3> HIDE DEF Memory!Whole, Memory!Nothing
    <3> QED  BY <2>3, <3>1, <3>2, <3>4
  <2>5. CASE ~job.init
    <3>1. at' = "take" /\ ~torn' /\ job.b = Memory!User
      BY <1>8, <2>3, <2>5 DEF Memory!StoreSizes
    <3>2. block'[Memory!User].addr /\ object[Memory!User] = job.n /\ block'[Memory!Meta] = block[Memory!Meta]
      BY <2>1, <2>2, <2>3, <2>5, <3>1
    <3>3. Memory!Whole'
      BY <2>1, <2>3, <2>5, <3>1, <3>2
    <3>4. Memory!Room(job.b)' >= job.n
      BY <2>1, <2>3, <3>1, <3>2 DEF Memory!Room
    <3> HIDE DEF Memory!Whole
    <3> QED  BY <2>3, <3>1, <3>2, <3>3, <3>4
  <2> QED  BY <2>4, <2>5
<1>9. CASE Memory!Construct
  BY <1>9 DEF Memory!Construct
<1>10. CASE \E b \in Memory!Blocks, n \in 1 .. MaxRequest : Memory!sbrk(b, n)
  BY <1>10 DEF Memory!sbrk, Memory!Room
<1>11. CASE Memory!Resize
  BY <1>11 DEF Memory!Resize, Memory!NewSize
<1>12. CASE Memory!StoreReal
  BY <1>12 DEF Memory!StoreReal, Memory!NewSize, Memory!Room
<1>13. CASE Memory!Take
  BY <1>13 DEF Memory!Take, Memory!Room
<1>14. CASE Memory!Resume
  BY <1>14 DEF Memory!Resume
<1>15. CASE Memory!Fini
  BY <1>15 DEF Memory!Fini
<1>16. CASE Memory!ClearBlock
  BY <1>16 DEF Memory!ClearBlock, Memory!AfterBlock, Memory!NoBlock
<1>17. CASE Memory!UnlinkBlock
  BY <1>17 DEF Memory!UnlinkBlock, Memory!AfterBlock
<1>18. CASE Memory!UnlinkMgr
  BY <1>18 DEF Memory!UnlinkMgr
<1>19. CASE Memory!Die
  BY <1>19 DEF Memory!Die
<1> QED  BY <1>1, <1>2, <1>3, <1>4, <1>5, <1>6, <1>7, <1>8, <1>9, <1>10, <1>11, <1>12, <1>13,
            <1>14, <1>15, <1>16, <1>17, <1>18, <1>19, Zenon DEF Memory!Next

\* Whichever calls of create_block(), sbrk(), resize_block(), shm_fini() and
\* shm_init() fail, and whenever a process dies that is not within a change,
\* the memory it leaves can be created anew or be resumed: for every size, as
\* long as one request fits the address space, which create_block() does not
\* check, and for every number of processes.
LEMMA MemoryAlone ==
  ASSUME MmapSize \in Nat, MaxRequest \in Nat, 1 <= MmapSize, MaxRequest <= MmapSize
  PROVE  Memory!Spec => []Memory!MemoryIsUsable
<1>1. Memory!IInv /\ [Memory!Next]_(Memory!vars) => Memory!IInv'
  <2> SUFFICES ASSUME Memory!IInv, [Memory!Next]_(Memory!vars) PROVE Memory!IInv'
    OBVIOUS
  <2>1. CASE UNCHANGED Memory!vars
    BY <2>1 DEF Memory!vars, Memory!table, Memory!IInv, Memory!Types, Memory!Around, Memory!Progress,
                Memory!Growing, Memory!Removing, Memory!MemoryIsUsable,
                Memory!Nothing, Memory!Whole, Memory!Intact, Memory!Room, Memory!NewSize
  <2>2. CASE Memory!Next
    <3>1. Memory!Types'
      BY <2>2, MemoryTypes DEF Memory!IInv
    <3>2. torn => torn'
      BY <2>2 DEF Memory!Next, Memory!Same, Memory!OpenMgr, Memory!SizeMgr, Memory!MapMgr, Memory!OpenBlock,
                  Memory!SizeBlock, Memory!MapBlock, Memory!StoreAddr,
                  Memory!StoreSizes, Memory!Construct, Memory!sbrk, Memory!Resize, Memory!StoreReal,
                  Memory!Take, Memory!Resume, Memory!Fini, Memory!ClearBlock,
                  Memory!UnlinkBlock, Memory!UnlinkMgr, Memory!Die, Memory!IInv, Memory!Types
    <3> QED  BY <3>1, <3>2, <2>2, MemoryKept DEF Memory!IInv
  <2> QED  BY <2>1, <2>2
<1>2. Memory!IInv => Memory!MemoryIsUsable
  BY DEF Memory!IInv, Memory!MemoryIsUsable
<1> QED  BY <1>1, <1>2, MemoryInit, PTL DEF Memory!Spec

\* What a process leaves in shared memory can be used, for every size of a
\* mapping and all requests up to that size.
THEOREM MemoryUsable ==
  ASSUME MmapSize \in Nat, MaxRequest \in Nat, 1 <= MmapSize, MaxRequest <= MmapSize
  PROVE  Spec => []MemoryIsUsable
<1>1. Memory!Spec => []Memory!MemoryIsUsable
  BY MemoryAlone
<1> QED  BY <1>1, MemoryPart, PTL DEF MemoryIsUsable
------------------------------------------------------------------------------
(* The scheduler *)

\* What is in a queue one more coroutine has joined, or the first has left.
LEMMA Queued ==
  ASSUME NEW S, NEW q \in Seq(S), NEW c \in S, Scheduler!Once(q), c \notin Scheduler!ToSet(q)
  PROVE  Append(q, c) \in Seq(S) /\ Scheduler!Once(Append(q, c)) /\ Scheduler!ToSet(Append(q, c)) = Scheduler!ToSet(q) \cup {c}
<1>1. /\ Append(q, c) \in Seq(S) /\ Len(Append(q, c)) = Len(q) + 1
      /\ \A k \in 1 .. Len(q) : Append(q, c)[k] = q[k]
      /\ Append(q, c)[Len(q) + 1] = c
  OBVIOUS
<1>2. DOMAIN q = 1 .. Len(q) /\ DOMAIN Append(q, c) = 1 .. Len(q) + 1 /\ Len(q) \in Nat
  BY <1>1
<1>3. \A k \in 1 .. Len(q) : q[k] # c
  BY <1>2 DEF Scheduler!ToSet
<1>4. Scheduler!Once(Append(q, c))
  BY <1>1, <1>2, <1>3 DEF Scheduler!Once
<1>5. Scheduler!ToSet(Append(q, c)) = Scheduler!ToSet(q) \cup {c}
  BY <1>1, <1>2 DEF Scheduler!ToSet
<1> QED  BY <1>1, <1>4, <1>5

LEMMA Unqueued ==
  ASSUME NEW S, NEW q \in Seq(S), q # <<>>, Scheduler!Once(q)
  PROVE  /\ Head(q) \in S /\ Tail(q) \in Seq(S) /\ Scheduler!Once(Tail(q))
         /\ Scheduler!ToSet(Tail(q)) = Scheduler!ToSet(q) \ {Head(q)} /\ Head(q) \in Scheduler!ToSet(q)
<1>1. /\ Tail(q) \in Seq(S) /\ Len(Tail(q)) = Len(q) - 1 /\ Len(q) \in Nat \ {0}
      /\ \A k \in 1 .. Len(q) - 1 : Tail(q)[k] = q[k + 1]
      /\ Head(q) = q[1]
  OBVIOUS
<1>2. DOMAIN q = 1 .. Len(q) /\ DOMAIN Tail(q) = 1 .. Len(q) - 1
  BY <1>1
<1>3. Scheduler!Once(Tail(q))
  BY <1>1, <1>2 DEF Scheduler!Once
<1>4. Scheduler!ToSet(Tail(q)) = {q[k] : k \in 2 .. Len(q)}
  <2>1. ASSUME NEW k \in 1 .. Len(q) - 1 PROVE k + 1 \in 2 .. Len(q) /\ Tail(q)[k] = q[k + 1]
    BY <1>1
  <2>2. ASSUME NEW k \in 2 .. Len(q) PROVE k - 1 \in 1 .. Len(q) - 1 /\ Tail(q)[k - 1] = q[k]
    BY <1>1
  <2>3. Scheduler!ToSet(Tail(q)) = {Tail(q)[k] : k \in 1 .. Len(q) - 1}
    BY <1>2 DEF Scheduler!ToSet
  <2>4. \A x : x \in {Tail(q)[k] : k \in 1 .. Len(q) - 1} => x \in {q[k] : k \in 2 .. Len(q)}
    BY <2>1
  <2>5. \A x : x \in {q[k] : k \in 2 .. Len(q)} => x \in {Tail(q)[k] : k \in 1 .. Len(q) - 1}
    BY <2>2
  <2> QED  BY <2>3, <2>4, <2>5
<1>5. Scheduler!ToSet(q) = {q[k] : k \in 2 .. Len(q)} \cup {q[1]}
  BY <1>1, <1>2 DEF Scheduler!ToSet
<1>6. q[1] \notin {q[k] : k \in 2 .. Len(q)}
  BY <1>1, <1>2 DEF Scheduler!Once
<1> QED  BY <1>1, <1>2, <1>3, <1>4, <1>5, <1>6

\* The scheduler on its own: IInv of Coroutine is inductive.
LEMMA SchedulerKept ==
  ASSUME Started \in Seq(Coroutines), Scheduler!Once(Started),
         Scheduler!Nobody \notin Coroutines, Scheduler!Uv \notin Coroutines
  PROVE  Scheduler!Spec => []Scheduler!CoroutinesKept
<1> USE DEF Scheduler!Nobody, Scheduler!Uv
<1>1. Scheduler!Init => Scheduler!IInv
  BY DEF Scheduler!Init, Scheduler!IInv, Scheduler!Types, Scheduler!LoopLast, Scheduler!CoroutinesKept
<1>2. Scheduler!IInv /\ [Scheduler!Next]_(Scheduler!vars) => Scheduler!IInv'
  <2> SUFFICES ASSUME Scheduler!IInv, [Scheduler!Next]_(Scheduler!vars) PROVE Scheduler!IInv'
    OBVIOUS
  <2> USE DEF Scheduler!IInv, Scheduler!Types, Scheduler!LoopLast, Scheduler!CoroutinesKept
  <2>1. CASE UNCHANGED Scheduler!vars
    BY <2>1 DEF Scheduler!vars
  <2>2. CASE Scheduler!ScheduleNext
    <3>1. /\ Head(runnable) \in Coroutines /\ Tail(runnable) \in Seq(Coroutines) /\ Scheduler!Once(Tail(runnable))
          /\ Scheduler!ToSet(Tail(runnable)) = Scheduler!ToSet(runnable) \ {Head(runnable)}
          /\ Head(runnable) \in Scheduler!ToSet(runnable)
      BY <2>2, Unqueued DEF Scheduler!ScheduleNext
    <3> QED  BY <2>2, <3>1 DEF Scheduler!ScheduleNext, Scheduler!Becomes
  <2>3. CASE Scheduler!ScheduleUv
    BY <2>3 DEF Scheduler!ScheduleUv
  <2>4. ASSUME NEW c \in Coroutines, Scheduler!yield(c) PROVE Scheduler!IInv'
    <3>1. /\ Append(runnable, c) \in Seq(Coroutines) /\ Scheduler!Once(Append(runnable, c))
          /\ Scheduler!ToSet(Append(runnable, c)) = Scheduler!ToSet(runnable) \cup {c}
      BY <2>4, Queued DEF Scheduler!yield
    <3> QED  BY <2>4, <3>1 DEF Scheduler!yield, Scheduler!Becomes
  <2>5. ASSUME NEW c \in Coroutines, Scheduler!sleep(c) PROVE Scheduler!IInv'
    BY <2>5 DEF Scheduler!sleep, Scheduler!Becomes
  <2>6. ASSUME NEW c \in Coroutines, Scheduler!finish(c) PROVE Scheduler!IInv'
    BY <2>6 DEF Scheduler!finish, Scheduler!Becomes, Scheduler!Destroyed
  <2>7. ASSUME NEW c \in Coroutines, Scheduler!TimerFires(c) PROVE Scheduler!IInv'
    <3>1. /\ Append(runnable, c) \in Seq(Coroutines) /\ Scheduler!Once(Append(runnable, c))
          /\ Scheduler!ToSet(Append(runnable, c)) = Scheduler!ToSet(runnable) \cup {c}
      <4>1. state[c] = "sleeping" /\ runnable \in Seq(Coroutines) /\ Scheduler!Once(runnable)
        BY <2>7 DEF Scheduler!TimerFires
      <4>2. c \notin Scheduler!ToSet(runnable)
        BY <4>1
      <4> QED  BY <4>1, <4>2, Queued
    <3> QED  BY <2>7, <3>1 DEF Scheduler!TimerFires, Scheduler!Becomes, Scheduler!Wake, Scheduler!Erase
  <2>8. ASSUME NEW c \in Coroutines, NEW d \in Coroutines, Scheduler!create(c, d) PROVE Scheduler!IInv'
    <3>1. PICK result \in Scheduler!InitResults(d) :
            IF result = "ok"
            THEN Scheduler!Becomes(d, "runnable") /\ runnable' = Append(runnable, d) /\ stacks' = Scheduler!Prepared(stacks, d, result)
            ELSE UNCHANGED <<state, runnable>> /\ stacks' = Scheduler!Destroyed(Scheduler!Prepared(stacks, d, result), d)
      BY <2>8 DEF Scheduler!create
    <3>2. CASE result = "ok"
      <4>1. /\ Append(runnable, d) \in Seq(Coroutines) /\ Scheduler!Once(Append(runnable, d))
            /\ Scheduler!ToSet(Append(runnable, d)) = Scheduler!ToSet(runnable) \cup {d}
        BY <2>8, Queued DEF Scheduler!create
      <4> QED  BY <2>8, <3>1, <3>2, <4>1 DEF Scheduler!create, Scheduler!Becomes, Scheduler!Prepared
    <3>3. CASE result # "ok"
      BY <2>8, <3>1, <3>3 DEF Scheduler!create, Scheduler!Prepared, Scheduler!Destroyed
    <3> QED  BY <3>2, <3>3
  <2>9. CASE Scheduler!TimerCloses \/ Scheduler!TimersDeleted
    BY <2>9 DEF Scheduler!TimerCloses, Scheduler!TimersDeleted
  <2>10. CASE Scheduler!UvReturns
    <3>1. Scheduler!ToSet(runnable) = {}
      BY <2>10 DEF Scheduler!UvReturns, Scheduler!ToSet
    <3> QED  BY <2>10, <3>1 DEF Scheduler!UvReturns
  <2> QED  BY <2>1, <2>2, <2>3, <2>4, <2>5, <2>6, <2>7, <2>8, <2>9, <2>10 DEF Scheduler!Next
<1>3. Scheduler!IInv => Scheduler!CoroutinesKept
  BY DEF Scheduler!IInv
<1> QED  BY <1>1, <1>2, <1>3, PTL DEF Scheduler!Spec

\* No coroutine is lost, queued twice, or left without a stack while it lives
\* or with one afterwards, and schedule() returns only when all are done:
\* whichever coroutines there are and are created first, however often each
\* gives up control and whichever stacks cannot be made.
THEOREM Kept ==
  ASSUME Started \in Seq(Coroutines), Scheduler!Once(Started),
         Scheduler!Nobody \notin Coroutines, Scheduler!Uv \notin Coroutines
  PROVE  Spec => []CoroutinesKept
BY SchedulerKept, SchedulerPart, PTL DEF CoroutinesKept
------------------------------------------------------------------------------
(* The link: what is in the buffer and the pipe of a connection is a chain *)
(* of whole messages, the next of which is the one after those handled:    *)
(* first sequences, then what a step does to a chain, then to a            *)
(* connection, then to the link.                                           *)

\* Units in three parts, put together either way
LEMMA Regrouped ==
  ASSUME NEW u \in Seq(Link!Unit), NEW q \in Seq(Link!Unit), NEW r \in Seq(Link!Unit)
  PROVE  (u \o q) \o r = u \o (q \o r)
BY ConcatAssociative

\* Taking units from the pipe into the buffer leaves the whole as it is.
LEMMA Moved ==
  ASSUME NEW u \in Seq(Link!Unit), NEW p \in Seq(Link!Unit), NEW n \in 1 .. Len(p)
  PROVE  /\ SubSeq(p, 1, n) \in Seq(Link!Unit) /\ Len(SubSeq(p, 1, n)) = n
         /\ u \o SubSeq(p, 1, n) \in Seq(Link!Unit) /\ Len(u \o SubSeq(p, 1, n)) = Len(u) + n
         /\ SubSeq(p, n + 1, Len(p)) \in Seq(Link!Unit)
         /\ (u \o SubSeq(p, 1, n)) \o SubSeq(p, n + 1, Len(p)) = u \o p
<1> DEFINE q == SubSeq(p, 1, n)
           r == SubSeq(p, n + 1, Len(p))
<1>1. q \in Seq(Link!Unit) /\ Len(q) = n /\ r \in Seq(Link!Unit)
  OBVIOUS
<1>2. q \o r = SubSeq(p, 1, Len(p))
  BY ConcatAdjacentSubSeq
<1>3. SubSeq(p, 1, Len(p)) = p
  BY SubSeqFull
<1> HIDE DEF q, r
<1>4. (u \o q) \o r = u \o (q \o r)
  <2>1. q \in Seq(Link!Unit) /\ r \in Seq(Link!Unit)
    BY <1>1
  <2> QED  BY <2>1, Regrouped
<1>5. u \o q \in Seq(Link!Unit) /\ Len(u \o q) = Len(u) + n
  BY <1>1, ConcatProperties
<1> QED  BY <1>1, <1>2, <1>3, <1>4, <1>5, Zenon DEF q, r

\* Consuming units at the front of the buffer takes them from the whole.
LEMMA Dropped ==
  ASSUME NEW u \in Seq(Link!Unit), NEW p \in Seq(Link!Unit), NEW n \in 1 .. Len(u)
  PROVE  /\ SubSeq(u, n + 1, Len(u)) \in Seq(Link!Unit) /\ Len(SubSeq(u, n + 1, Len(u))) = Len(u) - n
         /\ SubSeq(u, n + 1, Len(u)) \o p = SubSeq(u \o p, n + 1, Len(u \o p))
         /\ SubSeq(u, 1, n) = SubSeq(u \o p, 1, n)
         /\ u[1] = (u \o p)[1] /\ Len(u \o p) >= n
<1> DEFINE r == SubSeq(u, n + 1, Len(u))
           w == u \o p
           z == SubSeq(w, n + 1, Len(w))
<1>1. r \in Seq(Link!Unit) /\ Len(r) = Len(u) - n /\ \A x \in 1 .. Len(u) - n : r[x] = u[x + n]
  <2>1. \A x \in n + 1 .. Len(u) : u[x] \in Link!Unit
    OBVIOUS
  <2> QED  BY <2>1, SubSeqProperties
<1>2. w \in Seq(Link!Unit) /\ Len(w) = Len(u) + Len(p)
  BY ConcatProperties
<1>3. \A x \in 1 .. Len(u) + Len(p) : w[x] = IF x <= Len(u) THEN u[x] ELSE p[x - Len(u)]
  BY ConcatProperties
<1> HIDE DEF r, w
<1>4. r \o p \in Seq(Link!Unit) /\ Len(r \o p) = Len(r) + Len(p)
  BY <1>1, ConcatProperties
<1>5. \A x \in 1 .. Len(r) + Len(p) : (r \o p)[x] = IF x <= Len(r) THEN r[x] ELSE p[x - Len(r)]
  BY <1>1, ConcatProperties
<1>6. z \in Seq(Link!Unit) /\ Len(z) = Len(u) - n + Len(p) /\ \A x \in 1 .. Len(u) - n + Len(p) : z[x] = w[x + n]
  <2>1. \A x \in n + 1 .. Len(w) : w[x] \in Link!Unit
    BY <1>2
  <2>2. z \in Seq(Link!Unit) /\ Len(z) = IF n + 1 <= Len(w) THEN Len(w) - (n + 1) + 1 ELSE 0
    BY <1>2, <2>1, SubSeqProperties
  <2>3. \A x \in 1 .. Len(w) - (n + 1) + 1 : z[x] = w[n + 1 + x - 1]
    BY <1>2, <2>1, SubSeqProperties
  <2> HIDE DEF z
  <2> QED  BY <1>2, <2>2, <2>3
<1> HIDE DEF z
<1>7. ASSUME NEW x \in 1 .. Len(u) - n + Len(p) PROVE (r \o p)[x] = z[x]
  <2>1. (r \o p)[x] = IF x <= Len(r) THEN r[x] ELSE p[x - Len(r)]
    BY <1>1, <1>5
  <2>2. z[x] = w[x + n]
    BY <1>6
  <2>3. x + n \in 1 .. Len(u) + Len(p)
    OBVIOUS
  <2>4. w[x + n] = IF x + n <= Len(u) THEN u[x + n] ELSE p[x + n - Len(u)]
    BY <1>3, <2>3
  <2> QED  BY <1>1, <2>1, <2>2, <2>4
<1>8. r \o p = z
  <2>1. Len(r \o p) = Len(z) /\ \A x \in 1 .. Len(r \o p) : (r \o p)[x] = z[x]
    BY <1>1, <1>4, <1>6, <1>7
  <2> QED  BY <1>4, <1>6, <2>1, SeqEqual
<1>9. SubSeq(u, 1, n) = SubSeq(w, 1, n)
  BY SubSeqOfConcat1 DEF w
<1>10. u[1] = w[1] /\ Len(w) >= n
  <2>1. 1 \in 1 .. Len(u) + Len(p) /\ 1 <= Len(u)
    OBVIOUS
  <2> QED  BY <1>2, <1>3, <2>1
<1> QED  BY <1>1, <1>8, <1>9, <1>10 DEF r, w, z

\* A header has a size, bodies and buffers have one or are empty.
LinkConstants == HeadUnits \in Nat \ {0} /\ ReadUnits \in Nat /\ FirstUnits \in Nat
             /\ \A m \in Messages : m.length \in Nat /\ m.far \in BOOLEAN

\* The units of a message, of which there is at least one
LEMMA UnitsOf ==
  ASSUME LinkConstants, NEW m \in Link!Message
  PROVE  /\ Link!Total(m) \in Nat \ {0} /\ Link!Units(m) \in Seq(Link!Unit) /\ Len(Link!Units(m)) = Link!Total(m)
         /\ \A x \in 1 .. Link!Total(m) : Link!Units(m)[x] = [m |-> m, i |-> x]
<1>1. Link!Total(m) \in Nat \ {0}
  BY DEF LinkConstants, Link!Message, Link!Total
<1>2. \A x \in 1 .. Link!Total(m) : [m |-> m, i |-> x] \in Link!Unit
  BY <1>1 DEF Link!Unit
<1> QED  BY <1>1, <1>2 DEF Link!Units

\* What a unit is made of
LEMMA UnitType ==
  ASSUME LinkConstants, NEW s \in Seq(Link!Unit)
  PROVE  \A x \in 1 .. Len(s) : /\ s[x].m \in Link!Message /\ s[x].i \in Nat
                                /\ s[x].m.seq \in Nat /\ Link!Total(s[x].m) \in Nat
<1> SUFFICES ASSUME NEW x \in 1 .. Len(s)
             PROVE  s[x].m \in Link!Message /\ s[x].i \in Nat /\ s[x].m.seq \in Nat /\ Link!Total(s[x].m) \in Nat
  OBVIOUS
<1>1. s[x] \in Link!Unit
  OBVIOUS
<1>2. s[x].m \in Link!Message /\ s[x].i \in Nat
  BY <1>1 DEF Link!Unit
<1>3. s[x].m.seq \in Nat
  BY <1>2 DEF Link!Message
<1> QED  BY <1>2, <1>3, UnitsOf

\* A message is written behind the others.
LEMMA ChainGrows ==
  ASSUME LinkConstants, NEW s \in Seq(Link!Unit), NEW given \in Seq(Link!Message), NEW k \in Nat, Link!Chain(s, given, k, FALSE),
         NEW m \in Link!Message, m.seq = Len(given) + 1
  PROVE  Link!Chain(s \o Link!Units(m), Append(given, m), k, FALSE)
<1> DEFINE t == s \o Link!Units(m)
           all == Append(given, m)
<1>1. /\ Link!Total(m) \in Nat \ {0} /\ Link!Units(m) \in Seq(Link!Unit) /\ Len(Link!Units(m)) = Link!Total(m)
      /\ \A x \in 1 .. Link!Total(m) : Link!Units(m)[x] = [m |-> m, i |-> x]
  BY UnitsOf
<1>2. t \in Seq(Link!Unit) /\ Len(t) = Len(s) + Link!Total(m)
  <2>1. t \in Seq(Link!Unit) /\ Len(t) = Len(s) + Len(Link!Units(m))
    BY <1>1, ConcatProperties
  <2> HIDE DEF t
  <2> QED  BY <1>1, <2>1
<1>3. \A x \in 1 .. Len(s) + Link!Total(m) : t[x] = IF x <= Len(s) THEN s[x] ELSE Link!Units(m)[x - Len(s)]
  BY <1>1, ConcatProperties
<1>4. \A x \in 1 .. Len(t) : x <= Len(s) => x \in 1 .. Len(s) /\ t[x] = s[x]
  <2> HIDE DEF t
  <2> QED  BY <1>1, <1>2, <1>3
<1>5. \A x \in 1 .. Len(t) : x > Len(s) => t[x].m = m /\ t[x].i = x - Len(s) /\ x - Len(s) \in 1 .. Link!Total(m)
  <2> SUFFICES ASSUME NEW x \in 1 .. Len(t), x > Len(s)
               PROVE  t[x].m = m /\ t[x].i = x - Len(s) /\ x - Len(s) \in 1 .. Link!Total(m)
    OBVIOUS
  <2>1. x - Len(s) \in 1 .. Link!Total(m) /\ x \in 1 .. Len(s) + Link!Total(m) /\ ~(x <= Len(s))
    BY <1>1, <1>2
  <2>2. t[x] = Link!Units(m)[x - Len(s)]
    BY <1>3, <2>1
  <2>3. Link!Units(m)[x - Len(s)] = [m |-> m, i |-> x - Len(s)]
    BY <1>1, <2>1
  <2> HIDE DEF t
  <2> QED  BY <2>1, <2>2, <2>3
<1>6. /\ all \in Seq(Link!Message) /\ Len(all) = Len(given) + 1 /\ all[Len(given) + 1] = m
      /\ \A j \in 1 .. Len(given) : all[j] = given[j]
  OBVIOUS
<1>7. \A x \in 1 .. Len(s) : s[x].m \in Link!Message /\ s[x].i \in Nat /\ s[x].m.seq \in Nat /\ Link!Total(s[x].m) \in Nat
  BY UnitType
<1>8. \A x \in 1 .. Len(s) :
        s[x].i \in 1 .. Link!Total(s[x].m) /\ s[x].m.seq \in 1 .. Len(given) /\ s[x].m = given[s[x].m.seq]
  BY DEF Link!Chain
<1>9. \A x, y \in 1 .. Len(s) :
        x <= y /\ s[x].i + (y - x) <= Link!Total(s[x].m) => s[y].m = s[x].m /\ s[y].i = s[x].i + (y - x)
  BY DEF Link!Chain
<1>10. \A x, y \in 1 .. Len(s) :
        y = x + 1 /\ s[x].i = Link!Total(s[x].m) => s[y].i = 1 /\ s[y].m.seq = s[x].m.seq + 1
  BY DEF Link!Chain
<1>11. /\ s = <<>> => k = Len(given)
       /\ s # <<>> => /\ s[1].i = 1 /\ s[1].m.seq = k + 1
                      /\ s[Len(s)].i = Link!Total(s[Len(s)].m) /\ s[Len(s)].m.seq = Len(given)
  BY DEF Link!Chain
<1>12. Len(s) \in Nat /\ Len(given) \in Nat /\ (s # <<>> => Len(s) \in 1 .. Len(s) /\ 1 \in 1 .. Len(s)) /\ (s = <<>> => Len(s) = 0)
  OBVIOUS
<1> HIDE DEF t, all
<1>13. ASSUME NEW x \in 1 .. Len(t)
       PROVE  t[x].i \in 1 .. Link!Total(t[x].m) /\ t[x].m.seq \in 1 .. Len(all) /\ t[x].m = all[t[x].m.seq]
  <2>1. CASE x <= Len(s)
    <3>1. x \in 1 .. Len(s) /\ t[x] = s[x]
      BY <1>4, <2>1
    <3>2. s[x].i \in 1 .. Link!Total(s[x].m) /\ s[x].m.seq \in 1 .. Len(given) /\ s[x].m = given[s[x].m.seq]
      BY <1>8, <3>1
    <3>3. given[s[x].m.seq] = all[s[x].m.seq] /\ s[x].m.seq \in 1 .. Len(all)
      BY <1>6, <1>12, <3>2
    <3> QED  BY <3>1, <3>2, <3>3
  <2>2. CASE x > Len(s)
    <3>1. t[x].m = m /\ t[x].i = x - Len(s) /\ x - Len(s) \in 1 .. Link!Total(m)
      BY <1>5, <2>2
    <3> QED  BY <1>6, <1>12, <3>1
  <2> QED  BY <1>2, <1>12, <2>1, <2>2
<1>14. ASSUME NEW x \in 1 .. Len(t), NEW y \in 1 .. Len(t), x <= y, t[x].i + (y - x) <= Link!Total(t[x].m)
       PROVE  t[y].m = t[x].m /\ t[y].i = t[x].i + (y - x)
  <2>1. CASE y <= Len(s)
    <3>1. x \in 1 .. Len(s) /\ y \in 1 .. Len(s) /\ t[x] = s[x] /\ t[y] = s[y]
      BY <1>4, <1>12, <1>14, <2>1
    <3> QED  BY <1>9, <1>14, <3>1
  <2>2. CASE x > Len(s)
    <3>1. t[x].m = m /\ t[x].i = x - Len(s)
      BY <1>5, <2>2
    <3>2. y > Len(s)
      BY <1>2, <1>12, <1>14, <2>2
    <3>3. t[y].m = m /\ t[y].i = y - Len(s)
      BY <1>5, <3>2
    <3> QED  BY <1>12, <3>1, <3>3
  <2>3. CASE x <= Len(s) /\ y > Len(s)
    <3>1. x \in 1 .. Len(s) /\ t[x] = s[x]
      BY <1>4, <2>3
    <3>2. s # <<>> /\ Len(s) \in 1 .. Len(s)
      BY <1>12, <3>1
    <3>3. s[x].i \in Nat /\ Link!Total(s[x].m) \in Nat
      BY <1>7, <3>1
    <3>4. s[x].i + (Len(s) - x) < s[x].i + (y - x)
      BY <1>12, <2>3, <3>3
    <3>5. s[x].i + (Len(s) - x) < Link!Total(s[x].m)
      BY <1>12, <1>14, <2>3, <3>1, <3>3, <3>4
    <3>6. s[Len(s)].m = s[x].m /\ s[Len(s)].i = s[x].i + (Len(s) - x)
      <4>1. x <= Len(s) /\ s[x].i + (Len(s) - x) <= Link!Total(s[x].m)
        BY <1>12, <2>3, <3>1, <3>3, <3>5
      <4> QED  BY <1>9, <3>1, <3>2, <4>1
    <3>7. s[Len(s)].i = Link!Total(s[Len(s)].m)
      BY <1>11, <3>2
    <3> QED  BY <1>12, <3>3, <3>5, <3>6, <3>7
  <2> QED  BY <1>2, <1>12, <2>1, <2>2, <2>3
<1>15. ASSUME NEW x \in 1 .. Len(t), NEW y \in 1 .. Len(t), y = x + 1, t[x].i = Link!Total(t[x].m)
       PROVE  t[y].i = 1 /\ t[y].m.seq = t[x].m.seq + 1
  <2>1. CASE y <= Len(s)
    <3>1. x \in 1 .. Len(s) /\ y \in 1 .. Len(s) /\ t[x] = s[x] /\ t[y] = s[y]
      BY <1>4, <1>12, <1>15, <2>1
    <3> QED  BY <1>10, <1>15, <3>1
  <2>2. CASE y = Len(s) + 1
    <3>1. x = Len(s) /\ x \in 1 .. Len(s) /\ t[x] = s[x] /\ s # <<>>
      BY <1>4, <1>12, <1>15, <2>2
    <3>2. t[y].m = m /\ t[y].i = 1
      BY <1>5, <1>12, <2>2
    <3> QED  BY <1>11, <3>1, <3>2
  <2>3. CASE y > Len(s) + 1
    <3>1. t[x].m = m /\ t[x].i = x - Len(s) /\ y - Len(s) \in 1 .. Link!Total(m)
      BY <1>5, <1>12, <1>15, <2>3
    <3> QED  BY <1>1, <1>12, <1>15, <3>1
  <2> QED  BY <1>2, <1>12, <2>1, <2>2, <2>3
<1>16. t # <<>> /\ 1 \in 1 .. Len(t) /\ Len(t) \in 1 .. Len(t)
  BY <1>1, <1>2, <1>12
<1>17. t[1].i = 1 /\ t[1].m.seq = k + 1
  <2>1. CASE s = <<>>
    BY <1>5, <1>11, <1>12, <1>16, <2>1
  <2>2. CASE s # <<>>
    BY <1>4, <1>11, <1>12, <1>16, <2>2
  <2> QED  BY <2>1, <2>2
<1>18. t[Len(t)].i = Link!Total(t[Len(t)].m) /\ t[Len(t)].m.seq = Len(all)
  <2>1. Len(t) > Len(s)
    BY <1>1, <1>2, <1>12
  <2>2. t[Len(t)].m = m /\ t[Len(t)].i = Len(t) - Len(s)
    BY <1>5, <1>16, <2>1
  <2> QED  BY <1>1, <1>2, <1>6, <1>12, <2>2
<1>19. Link!Chain(t, all, k, FALSE)
  BY <1>13, <1>14, <1>15, <1>16, <1>17, <1>18 DEF Link!Chain
<1> QED  BY <1>19 DEF t, all

\* The connection has ended: what is sent is not written, and the pipe may be
\* dropped.
LEMMA ChainEnds ==
  ASSUME LinkConstants, NEW u \in Seq(Link!Unit), NEW p \in Seq(Link!Unit), NEW given \in Seq(Link!Message), NEW k \in Nat,
         NEW ended \in BOOLEAN, Link!Chain(u \o p, given, k, ended)
  PROVE  /\ Link!Chain(u \o p, given, k, TRUE) /\ Link!Chain(u \o <<>>, given, k, TRUE)
         /\ \A m \in Link!Message : Link!Chain(u \o p, Append(given, m), k, TRUE)
<1> DEFINE s == u \o p
<1>1. s \in Seq(Link!Unit) /\ Len(s) = Len(u) + Len(p) /\ u \o <<>> = u
  <2>1. u \o <<>> = u
    BY ConcatEmptySeq
  <2>2. s \in Seq(Link!Unit) /\ Len(s) = Len(u) + Len(p)
    BY ConcatProperties
  <2> QED  BY <2>1, <2>2
<1>2. \A x \in 1 .. Len(u) : x \in 1 .. Len(s) /\ u[x] = s[x]
  <2>1. \A x \in 1 .. Len(u) + Len(p) : s[x] = IF x <= Len(u) THEN u[x] ELSE p[x - Len(u)]
    BY ConcatProperties
  <2> HIDE DEF s
  <2> QED  BY <1>1, <2>1
<1>3. Link!Chain(s, given, k, ended)
  OBVIOUS
<1> HIDE DEF s
<1>4. Link!Chain(s, given, k, TRUE)
  BY <1>3 DEF Link!Chain
<1>5. Link!Chain(u, given, k, TRUE)
  <2>1. u # <<>> => s # <<>> /\ u[1] = s[1]
    <3>1. u # <<>> => 1 \in 1 .. Len(u)
      OBVIOUS
    <3>2. u # <<>> => 1 \in 1 .. Len(s)
      BY <1>2, <3>1
    <3> QED  BY <1>1, <1>2, <3>1, <3>2
  <2>2. \A x \in 1 .. Len(u) :
          u[x].i \in 1 .. Link!Total(u[x].m) /\ u[x].m.seq \in 1 .. Len(given) /\ u[x].m = given[u[x].m.seq]
    BY <1>2, <1>3, Zenon DEF Link!Chain
  <2>3. \A x, y \in 1 .. Len(u) :
          x <= y /\ u[x].i + (y - x) <= Link!Total(u[x].m) => u[y].m = u[x].m /\ u[y].i = u[x].i + (y - x)
    <3> SUFFICES ASSUME NEW x \in 1 .. Len(u), NEW y \in 1 .. Len(u)
                 PROVE  x <= y /\ u[x].i + (y - x) <= Link!Total(u[x].m) => u[y].m = u[x].m /\ u[y].i = u[x].i + (y - x)
      OBVIOUS
    <3>1. x <= y /\ s[x].i + (y - x) <= Link!Total(s[x].m) => s[y].m = s[x].m /\ s[y].i = s[x].i + (y - x)
      BY <1>2, <1>3, Zenon DEF Link!Chain
    <3>2. u[x] = s[x] /\ u[y] = s[y]
      BY <1>2
    <3> QED  BY <3>1, <3>2, Zenon
  <2>4. \A x, y \in 1 .. Len(u) :
          y = x + 1 /\ u[x].i = Link!Total(u[x].m) => u[y].i = 1 /\ u[y].m.seq = u[x].m.seq + 1
    <3> SUFFICES ASSUME NEW x \in 1 .. Len(u), NEW y \in 1 .. Len(u)
                 PROVE  y = x + 1 /\ u[x].i = Link!Total(u[x].m) => u[y].i = 1 /\ u[y].m.seq = u[x].m.seq + 1
      OBVIOUS
    <3>1. y = x + 1 /\ s[x].i = Link!Total(s[x].m) => s[y].i = 1 /\ s[y].m.seq = s[x].m.seq + 1
      BY <1>2, <1>3, Zenon DEF Link!Chain
    <3>2. u[x] = s[x] /\ u[y] = s[y]
      BY <1>2
    <3> QED  BY <3>1, <3>2, Zenon
  <2>5. u # <<>> => u[1].i = 1 /\ u[1].m.seq = k + 1
    BY <1>3, <2>1, Zenon DEF Link!Chain
  <2> QED  BY <2>2, <2>3, <2>4, <2>5 DEF Link!Chain
<1>6. ASSUME NEW m \in Link!Message PROVE Link!Chain(s, Append(given, m), k, TRUE)
  <2> DEFINE all == Append(given, m)
  <2>1. Len(all) = Len(given) + 1 /\ (\A j \in 1 .. Len(given) : all[j] = given[j]) /\ Len(given) \in Nat
    OBVIOUS
  <2> HIDE DEF all
  <2>2. \A j \in 1 .. Len(given) : j \in 1 .. Len(all) /\ all[j] = given[j]
    BY <2>1
  <2>3. \A x \in 1 .. Len(s) : s[x].i \in 1 .. Link!Total(s[x].m) /\ s[x].m.seq \in 1 .. Len(all) /\ s[x].m = all[s[x].m.seq]
    BY <1>3, <2>2 DEF Link!Chain
  <2>4. Link!Chain(s, all, k, TRUE)
    BY <1>4, <2>3 DEF Link!Chain
  <2> QED  BY <2>4 DEF all
<1> QED  BY <1>1, <1>4, <1>5, <1>6, Zenon DEF s

\* The first message is taken away.
LEMMA ChainConsumed ==
  ASSUME LinkConstants, NEW s \in Seq(Link!Unit), NEW given \in Seq(Link!Message), NEW k \in Nat, NEW ended \in BOOLEAN,
         Link!Chain(s, given, k, ended), s # <<>>, Len(s) >= Link!Total(s[1].m)
  PROVE  /\ k + 1 <= Len(given) /\ s[1].m = given[k + 1] /\ s[1].m.seq = k + 1
         /\ SubSeq(s, 1, Link!Total(s[1].m)) = Link!Units(s[1].m)
         /\ Link!Chain(SubSeq(s, Link!Total(s[1].m) + 1, Len(s)), given, k + 1, ended)
<1> DEFINE m == s[1].m
           n == Link!Total(m)
           t == SubSeq(s, n + 1, Len(s))
<1>1. 1 \in 1 .. Len(s) /\ Len(s) \in Nat /\ Len(given) \in Nat
  OBVIOUS
<1>2. m \in Link!Message /\ s[1].i = 1 /\ m.seq = k + 1 /\ m.seq \in 1 .. Len(given) /\ m = given[m.seq]
  <2>1. s[1] \in Link!Unit
    BY <1>1
  <2>2. m \in Link!Message
    BY <2>1 DEF Link!Unit
  <2> QED  BY <1>1, <2>2, Zenon DEF Link!Chain
<1>3. n \in Nat \ {0} /\ n <= Len(s)
  BY <1>2, UnitsOf
<1>4. \A x \in 1 .. n : s[x] \in Link!Unit /\ s[x].m = m /\ s[x].i = x
  <2> SUFFICES ASSUME NEW x \in 1 .. n PROVE s[x] \in Link!Unit /\ s[x].m = m /\ s[x].i = x
    OBVIOUS
  <2>1. x \in 1 .. Len(s) /\ 1 <= x /\ 1 + (x - 1) = x /\ x <= n
    BY <1>1, <1>3
  <2>2. s[1].i + (x - 1) <= Link!Total(s[1].m) => s[x].m = s[1].m /\ s[x].i = s[1].i + (x - 1)
    BY <1>1, <2>1, Zenon DEF Link!Chain
  <2> QED  BY <1>2, <2>1, <2>2
<1>5. SubSeq(s, 1, n) = Link!Units(m)
  <2>1. \A x \in 1 .. n : s[x] \in Link!Unit
    BY <1>4
  <2>2. SubSeq(s, 1, n) \in Seq(Link!Unit) /\ Len(SubSeq(s, 1, n)) = IF 1 <= n THEN n - 1 + 1 ELSE 0
    BY <1>3, <2>1, SubSeqProperties
  <2>3. \A x \in 1 .. n - 1 + 1 : SubSeq(s, 1, n)[x] = s[1 + x - 1]
    BY <1>3, <2>1, SubSeqProperties
  <2>4. Link!Units(m) \in Seq(Link!Unit) /\ Len(Link!Units(m)) = n /\ \A x \in 1 .. n : Link!Units(m)[x] = [m |-> m, i |-> x]
    BY <1>2, UnitsOf
  <2> DEFINE q == SubSeq(s, 1, n)
             r == Link!Units(m)
  <2>5. q \in Seq(Link!Unit) /\ Len(q) = n /\ \A x \in 1 .. n : q[x] = s[x]
    <3> HIDE DEF q
    <3>1. /\ q \in Seq(Link!Unit) /\ Len(q) = IF 1 <= n THEN n - 1 + 1 ELSE 0
          /\ \A x \in 1 .. n - 1 + 1 : q[x] = s[1 + x - 1]
      BY <2>2, <2>3 DEF q
    <3> HIDE DEF n
    <3> QED  BY <1>3, <3>1
  <2>6. ASSUME NEW x \in 1 .. n PROVE q[x] = r[x]
    <3>1. s[x] = [m |-> m, i |-> x]
      <4>1. s[x] = [m |-> s[x].m, i |-> s[x].i]
        BY <1>4 DEF Link!Unit
      <4> QED  BY <1>4, <4>1
    <3> QED  BY <2>4, <2>5, <3>1
  <2> HIDE DEF q, r, n, m
  <2>7. r \in Seq(Link!Unit) /\ Len(r) = n
    BY <2>4 DEF r
  <2>8. Len(q) = Len(r) /\ \A x \in 1 .. Len(q) : q[x] = r[x]
    BY <2>5, <2>6, <2>7
  <2>9. q = r
    BY <2>5, <2>7, <2>8, SeqEqual
  <2> QED  BY <2>9 DEF q, r
<1>6. t \in Seq(Link!Unit) /\ Len(t) = Len(s) - n /\ \A x \in 1 .. Len(t) : n + x \in 1 .. Len(s) /\ t[x] = s[n + x]
  <2>1. \A x \in n + 1 .. Len(s) : s[x] \in Link!Unit
    BY <1>3
  <2>2. t \in Seq(Link!Unit) /\ Len(t) = IF n + 1 <= Len(s) THEN Len(s) - (n + 1) + 1 ELSE 0
    BY <1>1, <1>3, <2>1, SubSeqProperties
  <2>3. \A x \in 1 .. Len(s) - (n + 1) + 1 : t[x] = s[n + 1 + x - 1]
    BY <1>1, <1>3, <2>1, SubSeqProperties
  <2> HIDE DEF t, n
  <2> QED  BY <1>1, <1>3, <2>2, <2>3
<1> HIDE DEF t
<1>7. n \in 1 .. Len(s) /\ s[n].m = m /\ s[n].i = n
  BY <1>1, <1>3, <1>4
<1>8. \A x \in 1 .. Len(t) :
        t[x].i \in 1 .. Link!Total(t[x].m) /\ t[x].m.seq \in 1 .. Len(given) /\ t[x].m = given[t[x].m.seq]
  <2>1. \A x \in 1 .. Len(s) :
          s[x].i \in 1 .. Link!Total(s[x].m) /\ s[x].m.seq \in 1 .. Len(given) /\ s[x].m = given[s[x].m.seq]
    BY DEF Link!Chain
  <2> QED  BY <1>6, <2>1, Zenon
<1>9. \A x, y \in 1 .. Len(t) :
        x <= y /\ t[x].i + (y - x) <= Link!Total(t[x].m) => t[y].m = t[x].m /\ t[y].i = t[x].i + (y - x)
  <2> SUFFICES ASSUME NEW x \in 1 .. Len(t), NEW y \in 1 .. Len(t),
                      x <= y, t[x].i + (y - x) <= Link!Total(t[x].m)
               PROVE  t[y].m = t[x].m /\ t[y].i = t[x].i + (y - x)
    OBVIOUS
  <2>1. (n + y) - (n + x) = y - x /\ n + x <= n + y
    BY <1>3, <1>6
  <2>2. n + x <= n + y /\ s[n + x].i + ((n + y) - (n + x)) <= Link!Total(s[n + x].m)
        => s[n + y].m = s[n + x].m /\ s[n + y].i = s[n + x].i + ((n + y) - (n + x))
    BY <1>6, Zenon DEF Link!Chain
  <2> QED  BY <1>6, <2>1, <2>2
<1>10. \A x, y \in 1 .. Len(t) :
        y = x + 1 /\ t[x].i = Link!Total(t[x].m) => t[y].i = 1 /\ t[y].m.seq = t[x].m.seq + 1
  <2> SUFFICES ASSUME NEW x \in 1 .. Len(t), NEW y \in 1 .. Len(t), y = x + 1, t[x].i = Link!Total(t[x].m)
               PROVE  t[y].i = 1 /\ t[y].m.seq = t[x].m.seq + 1
    OBVIOUS
  <2>1. n + y = n + x + 1
    BY <1>3, <1>6
  <2>2. n + y = (n + x) + 1 /\ s[n + x].i = Link!Total(s[n + x].m)
        => s[n + y].i = 1 /\ s[n + y].m.seq = s[n + x].m.seq + 1
    BY <1>6, Zenon DEF Link!Chain
  <2> QED  BY <1>6, <2>1, <2>2
<1>11. t # <<>> => t[1].i = 1 /\ t[1].m.seq = (k + 1) + 1
  <2> SUFFICES ASSUME t # <<>> PROVE t[1].i = 1 /\ t[1].m.seq = (k + 1) + 1
    OBVIOUS
  <2>1. 1 \in 1 .. Len(t)
    BY <1>6
  <2>2. n + 1 \in 1 .. Len(s) /\ t[1] = s[n + 1]
    BY <1>6, <2>1
  <2>3. n + 1 = n + 1 /\ s[n].i = Link!Total(s[n].m) => s[n + 1].i = 1 /\ s[n + 1].m.seq = s[n].m.seq + 1
    BY <1>7, <2>2, Zenon DEF Link!Chain
  <2> QED  BY <1>2, <1>7, <2>2, <2>3
<1>12. ~ended => s[Len(s)].i = Link!Total(s[Len(s)].m) /\ s[Len(s)].m.seq = Len(given)
  BY DEF Link!Chain
<1>13. ~ended /\ t = <<>> => k + 1 = Len(given)
  <2> SUFFICES ASSUME ~ended, t = <<>> PROVE k + 1 = Len(given)
    OBVIOUS
  <2>1. Len(s) = n
    BY <1>1, <1>3, <1>6
  <2> QED  BY <1>2, <1>7, <1>12, <2>1
<1>14. ~ended /\ t # <<>> => t[Len(t)].i = Link!Total(t[Len(t)].m) /\ t[Len(t)].m.seq = Len(given)
  <2> SUFFICES ASSUME ~ended, t # <<>> PROVE t[Len(t)] = s[Len(s)]
    BY <1>12
  <2>1. Len(t) \in 1 .. Len(t)
    BY <1>6
  <2>2. n + Len(t) = Len(s)
    BY <1>1, <1>3, <1>6
  <2> QED  BY <1>6, <2>1, <2>2
<1>15. Link!Chain(t, given, k + 1, ended)
  BY <1>8, <1>9, <1>10, <1>11, <1>13, <1>14 DEF Link!Chain
<1>16. k + 1 <= Len(given) /\ s[1].m = given[k + 1] /\ s[1].m.seq = k + 1
  BY <1>1, <1>2
<1> QED  BY <1>5, <1>15, <1>16 DEF t

\* A new connection carries nothing.
LEMMA Fresh == ASSUME LinkConstants PROVE Link!NewConn \in Link!Connection /\ Link!Carries(Link!NewConn)
<1> DEFINE c == Link!NewConn
<1>1. c \in Link!Connection
  BY DEF Link!NewConn, Link!EmptyBuffer, Link!Connection, Link!Buffer, LinkConstants
<1>2. /\ c.sent = <<>> /\ c.handled = <<>> /\ c.incoming.units = <<>> /\ c.pipe = <<>> /\ c.end = "none"
      /\ Link!windex(c.incoming) = 0 /\ c.incoming.capacity = FirstUnits
  BY DEF Link!NewConn, Link!EmptyBuffer, Link!windex
<1>3. Link!Chain(<<>>, <<>>, 0, FALSE)
  BY DEF Link!Chain
<1>4. <<>> \o <<>> = <<>> /\ Len(<<>>) = 0
  OBVIOUS
<1> HIDE DEF c
<1>5. Link!Chain(c.incoming.units \o c.pipe, c.sent, Len(c.handled), c.end # "none")
  BY <1>2, <1>3, <1>4
<1>6. Link!Carries(c)
  BY <1>2, <1>4, <1>5 DEF Link!Carries, LinkConstants
<1> QED  BY <1>1, <1>6 DEF c

\* A message is written to the connection.
LEMMA Written ==
  ASSUME LinkConstants, NEW c \in Link!Connection, Link!Carries(c), NEW m \in Link!Message, m.seq = Len(c.sent) + 1
  PROVE  /\ Link!Write(c, m) \in Link!Connection /\ Link!Carries(Link!Write(c, m)) /\ Len(Link!Write(c, m).sent) = Len(c.sent) + 1
         /\ Link!Write(c, m).state = c.state /\ Link!Write(c, m).handled = c.handled
<1> DEFINE d == Link!Write(c, m)
           u == c.incoming.units
<1>1. /\ c.sent \in Seq(Link!Message) /\ c.pipe \in Seq(Link!Unit) /\ c.end \in {"none", "eof", "error"}
      /\ c.incoming \in Link!Buffer /\ u \in Seq(Link!Unit) /\ c.handled \in Seq(Link!Message)
  BY DEF Link!Connection, Link!Buffer
<1>2. /\ d.sent = Append(c.sent, m) /\ d.pipe = (IF c.end = "none" THEN c.pipe \o Link!Units(m) ELSE c.pipe)
      /\ d.end = c.end /\ d.state = c.state /\ d.incoming = c.incoming /\ d.handled = c.handled
  BY DEF Link!Write, Link!Connection
<1>3. Link!Units(m) \in Seq(Link!Unit)
  BY UnitsOf
<1>4. d.sent \in Seq(Link!Message) /\ d.pipe \in Seq(Link!Unit)
  <2>1. c.pipe \o Link!Units(m) \in Seq(Link!Unit)
    BY <1>1, <1>3, ConcatProperties
  <2> QED  BY <1>1, <1>2, <2>1
<1>5. d \in Link!Connection
  <2>1. d = [c EXCEPT !.sent = d.sent, !.pipe = d.pipe]
    BY <1>2 DEF Link!Write
  <2> HIDE DEF d
  <2> QED  BY <1>4, <2>1 DEF Link!Connection
<1> HIDE DEF d
<1>6. /\ Len(d.sent) = Len(c.sent) + 1 /\ (\A j \in 1 .. Len(c.sent) : d.sent[j] = c.sent[j])
      /\ d.sent[Len(c.sent) + 1] = m /\ Len(c.sent) \in Nat /\ Len(c.handled) \in Nat
  BY <1>1, <1>2
<1>7. Link!Chain(u \o d.pipe, d.sent, Len(c.handled), c.end # "none")
  <2>1. Link!Chain(u \o c.pipe, c.sent, Len(c.handled), c.end # "none")
    BY DEF Link!Carries
  <2>2. CASE c.end = "none"
    <3>1. Link!Chain(u \o c.pipe, c.sent, Len(c.handled), FALSE)
      BY <2>1, <2>2
    <3>2. u \o c.pipe \in Seq(Link!Unit)
      BY <1>1, ConcatProperties
    <3>3. Link!Chain((u \o c.pipe) \o Link!Units(m), Append(c.sent, m), Len(c.handled), FALSE)
      BY <1>1, <1>6, <3>1, <3>2, ChainGrows
    <3>4. (u \o c.pipe) \o Link!Units(m) = u \o (c.pipe \o Link!Units(m))
      <4> DEFINE p == c.pipe
                 v == Link!Units(m)
      <4>1. u \in Seq(Link!Unit) /\ p \in Seq(Link!Unit) /\ v \in Seq(Link!Unit)
        BY <1>1, <1>3
      <4> HIDE DEF u, p, v
      <4>2. (u \o p) \o v = u \o (p \o v)
        BY <4>1, Regrouped
      <4> QED  BY <4>2 DEF p, v
    <3> QED  BY <1>2, <2>2, <3>3, <3>4
  <2>3. CASE c.end # "none"
    <3>1. Link!Chain(u \o c.pipe, c.sent, Len(c.handled), TRUE)
      BY <2>1, <2>3
    <3>2. \A q \in Link!Message : Link!Chain(u \o c.pipe, Append(c.sent, q), Len(c.handled), TRUE)
      <4>1. TRUE \in BOOLEAN
        OBVIOUS
      <4> HIDE DEF u
      <4> QED  BY <1>1, <1>6, <3>1, <4>1, ChainEnds
    <3> QED  BY <1>2, <2>3, <3>2
  <2> QED  BY <2>2, <2>3
<1>8. Link!Carries(d)
  <2>1. \A j \in 1 .. Len(d.sent) : d.sent[j].seq = j
    BY <1>6 DEF Link!Carries
  <2>2. Len(c.handled) <= Len(d.sent) /\ \A j \in 1 .. Len(c.handled) : c.handled[j] = d.sent[j]
    BY <1>6 DEF Link!Carries
  <2> QED  BY <1>2, <1>7, <2>1, <2>2 DEF Link!Carries
<1> QED  BY <1>2, <1>5, <1>6, <1>8 DEF d

\* The connection ends, and the pipe is dropped after an error.
LEMMA EndedOne ==
  ASSUME LinkConstants, NEW c \in Link!Connection, Link!Carries(c), NEW how \in {"eof", "error"}
  PROVE  /\ Link!Ended(c, how) \in Link!Connection /\ Link!Carries(Link!Ended(c, how)) /\ Link!Ended(c, how).sent = c.sent
         /\ Link!Ended(c, how).handled = c.handled /\ Link!Ended(c, how).state = c.state
<1> DEFINE p == IF how = "error" THEN <<>> ELSE c.pipe
           d == [c EXCEPT !.end = how, !.pipe = p]
           u == c.incoming.units
<1>0. p = <<>> \/ p = c.pipe
  OBVIOUS
<1> HIDE DEF p
<1>1. /\ c.sent \in Seq(Link!Message) /\ c.pipe \in Seq(Link!Unit) /\ c.end \in {"none", "eof", "error"}
      /\ c.incoming \in Link!Buffer /\ u \in Seq(Link!Unit) /\ c.handled \in Seq(Link!Message)
  BY DEF Link!Connection, Link!Buffer
<1>2. /\ d.sent = c.sent /\ d.pipe = p /\ d.end = how /\ d.state = c.state
      /\ d.incoming = c.incoming /\ d.handled = c.handled
  BY DEF Link!Connection
<1>3. d \in Link!Connection
  <2>1. <<>> \in Seq(Link!Unit)
    BY EmptySeq
  <2>2. p \in Seq(Link!Unit)
    BY <1>1, <1>0, <2>1, Zenon
  <2> QED  BY <2>2 DEF Link!Connection
<1>4. Link!Chain(u \o p, c.sent, Len(c.handled), TRUE)
  <2>1. Link!Chain(u \o c.pipe, c.sent, Len(c.handled), c.end # "none")
    BY DEF Link!Carries
  <2>2. Link!Chain(u \o c.pipe, c.sent, Len(c.handled), TRUE) /\ Link!Chain(u \o <<>>, c.sent, Len(c.handled), TRUE)
    <3> DEFINE ended == c.end # "none"
    <3>1. ended \in BOOLEAN /\ Len(c.handled) \in Nat /\ Link!Chain(u \o c.pipe, c.sent, Len(c.handled), ended)
      BY <1>1, <2>1
    <3> HIDE DEF ended
    <3> QED  BY <1>1, <3>1, ChainEnds
  <2> QED  BY <1>0, <2>2
<1> HIDE DEF d
<1>5. Link!Carries(d)
  BY <1>2, <1>4 DEF Link!Carries
<1>6. d = Link!Ended(c, how)
  BY DEF d, p, Link!Ended
<1> QED  BY <1>2, <1>3, <1>5, <1>6

\* The receiver takes the connection, or removes it.
LEMMA Accepted ==
  ASSUME NEW c \in Link!Connection, Link!Carries(c), NEW to \in {"connected", "disconnected"}
  PROVE  \E d \in Link!Connection :
           /\ d = [c EXCEPT !.state = to] /\ Link!Carries(d) /\ d.sent = c.sent /\ d.handled = c.handled /\ d.state = to
<1> DEFINE d == [c EXCEPT !.state = to]
<1>1. d \in Link!Connection
  BY DEF Link!Connection
<1>2. /\ d.sent = c.sent /\ d.pipe = c.pipe /\ d.end = c.end /\ d.state = to
      /\ d.incoming = c.incoming /\ d.handled = c.handled
  BY DEF Link!Connection
<1> HIDE DEF d
<1>3. Link!Carries(d)
  BY <1>2 DEF Link!Carries
<1> QED  BY <1>1, <1>2, <1>3 DEF d

\* prepare() makes room for what is read.
LEMMA Prepared ==
  ASSUME LinkConstants, NEW b \in Link!Buffer, Link!windex(b) <= b.capacity
  PROVE  /\ Link!prepare(b, ReadUnits) \in Link!Buffer /\ Link!prepare(b, ReadUnits).units = b.units
         /\ Link!windex(Link!prepare(b, ReadUnits)) + ReadUnits <= Link!prepare(b, ReadUnits).capacity
<1>1. b.units \in Seq(Link!Unit) /\ b.rindex \in Nat /\ b.capacity \in Nat /\ Len(b.units) \in Nat /\ ReadUnits \in Nat
  BY DEF Link!Buffer, LinkConstants
<1> DEFINE big == Link!windex(b) + ReadUnits
<1>2. big \in Nat /\ big >= Len(b.units) + ReadUnits
  BY <1>1 DEF Link!windex
<1>3. CASE b.capacity - Link!windex(b) >= ReadUnits
  BY <1>1, <1>3 DEF Link!prepare, Link!windex
<1>4. CASE ~(b.capacity - Link!windex(b) >= ReadUnits) /\ b.rindex + b.capacity - Link!windex(b) >= ReadUnits
  <2> DEFINE a == [b EXCEPT !.rindex = 0]
  <2>1. Link!prepare(b, ReadUnits) = a
    BY <1>4 DEF Link!prepare
  <2>2. a \in Link!Buffer /\ a.units = b.units /\ a.rindex = 0 /\ a.capacity = b.capacity
    BY DEF Link!Buffer
  <2> HIDE DEF a
  <2> QED  BY <1>1, <1>4, <2>1, <2>2 DEF Link!windex
<1>5. CASE ~(b.capacity - Link!windex(b) >= ReadUnits) /\ ~(b.rindex + b.capacity - Link!windex(b) >= ReadUnits)
  <2> DEFINE a == [b EXCEPT !.rindex = 0, !.capacity = big]
  <2>1. Link!prepare(b, ReadUnits) = a
    BY <1>5 DEF Link!prepare, Link!Grown
  <2> HIDE DEF big
  <2>2. a \in Link!Buffer /\ a.units = b.units /\ a.rindex = 0 /\ a.capacity = big
    BY <1>2 DEF Link!Buffer
  <2> HIDE DEF a
  <2> QED  BY <1>1, <1>2, <2>1, <2>2 DEF Link!windex
<1> QED  BY <1>3, <1>4, <1>5

\* A read fits into the buffer and changes nothing of what is to be handled.
LEMMA ReadIn ==
  ASSUME LinkConstants, NEW c \in Link!Connection, Link!Carries(c), NEW n \in 1 .. ReadUnits, n <= Len(c.pipe),
         NEW b, b = Link!prepare(c.incoming, ReadUnits)
  PROVE  /\ Link!windex(b) + n <= b.capacity
         /\ Link!Read(c, b, n) \in Link!Connection /\ Link!Carries(Link!Read(c, b, n)) /\ Link!Read(c, b, n).sent = c.sent
         /\ Link!Read(c, b, n).handled = c.handled /\ Link!Read(c, b, n).state = c.state
<1> DEFINE u == c.incoming.units
           q == SubSeq(c.pipe, 1, n)
           r == SubSeq(c.pipe, n + 1, Len(c.pipe))
           a == Link!commit(b, q)
           d == [c EXCEPT !.incoming = a, !.pipe = r]
<1>1. /\ c.pipe \in Seq(Link!Unit) /\ c.incoming \in Link!Buffer /\ u \in Seq(Link!Unit) /\ Link!windex(c.incoming) <= c.incoming.capacity
      /\ ReadUnits \in Nat
  BY DEF Link!Connection, Link!Buffer, Link!Carries, LinkConstants
<1>2. n \in 1 .. Len(c.pipe)
  BY <1>1
<1>3. b \in Link!Buffer /\ b.units = u /\ Link!windex(b) + ReadUnits <= b.capacity
  BY <1>1, Prepared
<1>4. b.rindex \in Nat /\ b.capacity \in Nat /\ Len(u) \in Nat /\ Link!windex(b) = b.rindex + Len(u)
  BY <1>1, <1>3 DEF Link!Buffer, Link!windex
<1>5. /\ q \in Seq(Link!Unit) /\ Len(q) = n /\ u \o q \in Seq(Link!Unit) /\ Len(u \o q) = Len(u) + n /\ r \in Seq(Link!Unit)
      /\ (u \o q) \o r = u \o c.pipe
  <2> DEFINE p == c.pipe
  <2>1. u \in Seq(Link!Unit) /\ p \in Seq(Link!Unit) /\ n \in 1 .. Len(p)
    BY <1>1, <1>2
  <2> HIDE DEF u, p
  <2>2. /\ SubSeq(p, 1, n) \in Seq(Link!Unit) /\ Len(SubSeq(p, 1, n)) = n
        /\ u \o SubSeq(p, 1, n) \in Seq(Link!Unit) /\ Len(u \o SubSeq(p, 1, n)) = Len(u) + n
        /\ SubSeq(p, n + 1, Len(p)) \in Seq(Link!Unit)
        /\ (u \o SubSeq(p, 1, n)) \o SubSeq(p, n + 1, Len(p)) = u \o p
    BY <2>1, Moved
  <2> QED  BY <2>2 DEF p
<1> HIDE DEF q, r, u
<1>6. a \in Link!Buffer /\ a.units = u \o q /\ a.rindex = b.rindex /\ a.capacity = b.capacity
  BY <1>3, <1>5 DEF Link!commit, Link!Buffer
<1> HIDE DEF a
<1>7. Link!windex(a) <= a.capacity /\ Link!windex(b) + n <= b.capacity
  <2>1. Link!windex(a) = b.rindex + (Len(u) + n)
    BY <1>5, <1>6 DEF Link!windex
  <2> QED  BY <1>1, <1>3, <1>4, <1>6, <2>1
<1>8. d \in Link!Connection
  BY <1>5, <1>6 DEF Link!Connection
<1>9. /\ d.sent = c.sent /\ d.pipe = r /\ d.end = c.end /\ d.state = c.state
      /\ d.incoming = a /\ d.handled = c.handled
  BY DEF Link!Connection
<1> HIDE DEF d
<1>10. Link!Carries(d)
  <2>1. Link!Chain(u \o c.pipe, c.sent, Len(c.handled), c.end # "none")
    BY DEF Link!Carries, u
  <2>2. Link!Chain(d.incoming.units \o d.pipe, d.sent, Len(d.handled), d.end # "none")
    BY <1>5, <1>6, <1>9, <2>1
  <2> QED  BY <1>7, <1>9, <2>2 DEF Link!Carries
<1>11. d = Link!Read(c, b, n)
  BY DEF d, a, q, r, Link!Read
<1> QED  BY <1>7, <1>8, <1>9, <1>10, <1>11

\* The message at the front of the buffer is the next that was sent.
LEMMA HandledOne ==
  ASSUME LinkConstants, NEW c \in Link!Connection, Link!Carries(c), Link!Complete(c.incoming), c.state = "connected",
         NEW m, m = Head(c.incoming.units).m
  PROVE  /\ m \in Link!Message /\ SubSeq(c.incoming.units, 1, Link!Total(m)) = Link!Units(m) /\ m.seq = Len(c.handled) + 1
         /\ Link!Handled(c, m) \in Link!Connection /\ Link!Carries(Link!Handled(c, m)) /\ Link!Handled(c, m).sent = c.sent
         /\ Len(Link!Handled(c, m).handled) = Len(c.handled) + 1 /\ Link!Handled(c, m).state = c.state
<1> DEFINE b == c.incoming
           u == b.units
           p == c.pipe
           s == u \o p
           n == Link!Total(m)
           k == Len(c.handled)
           ended == c.end # "none"
           r == SubSeq(u, n + 1, Len(u))
           a == Link!consume(b, n)
           h == Append(c.handled, m)
           d == [c EXCEPT !.handled = h, !.incoming = a]
<1>1. /\ p \in Seq(Link!Unit) /\ b \in Link!Buffer /\ u \in Seq(Link!Unit) /\ Link!windex(b) <= b.capacity
      /\ b.rindex \in Nat /\ b.capacity \in Nat /\ Len(u) \in Nat
      /\ c.sent \in Seq(Link!Message) /\ c.handled \in Seq(Link!Message) /\ k \in Nat /\ ended \in BOOLEAN
  BY DEF Link!Connection, Link!Buffer, Link!Carries
<1>2. u # <<>> /\ m = u[1].m /\ Len(u) >= n /\ 1 \in 1 .. Len(u)
  BY <1>1 DEF Link!Complete, LinkConstants
<1>3. m \in Link!Message /\ n \in Nat \ {0}
  <2>1. u[1] \in Link!Unit
    BY <1>1, <1>2
  <2>2. m \in Link!Message
    BY <1>2, <2>1 DEF Link!Unit
  <2> QED  BY <2>2, UnitsOf
<1>4. n \in 1 .. Len(u)
  BY <1>1, <1>2, <1>3
<1>5. Link!Chain(s, c.sent, k, ended)
  BY DEF Link!Carries
<1> HIDE DEF u, p, n, k, ended
<1>6. /\ r \in Seq(Link!Unit) /\ Len(r) = Len(u) - n /\ r \o p = SubSeq(s, n + 1, Len(s))
      /\ SubSeq(u, 1, n) = SubSeq(s, 1, n) /\ u[1] = s[1] /\ Len(s) >= n
  <2>1. u \in Seq(Link!Unit) /\ p \in Seq(Link!Unit)
    BY <1>1
  <2> QED  BY <1>4, <2>1, Dropped
<1>7. s \in Seq(Link!Unit) /\ s # <<>>
  <2>1. s \in Seq(Link!Unit) /\ Len(s) = Len(u) + Len(p)
    BY <1>1, ConcatProperties
  <2> HIDE DEF s
  <2> QED  BY <1>1, <1>4, <2>1
<1> HIDE DEF s, r
<1>8. Link!Total(s[1].m) = n /\ s[1].m = m
  BY <1>2, <1>6 DEF n
<1>9. /\ k + 1 <= Len(c.sent) /\ s[1].m = c.sent[k + 1] /\ s[1].m.seq = k + 1
      /\ SubSeq(s, 1, Link!Total(s[1].m)) = Link!Units(s[1].m)
      /\ Link!Chain(SubSeq(s, Link!Total(s[1].m) + 1, Len(s)), c.sent, k + 1, ended)
  <2>1. Len(s) >= Link!Total(s[1].m)
    BY <1>6, <1>8
  <2> DEFINE q == c.sent
  <2>2. q \in Seq(Link!Message) /\ k \in Nat /\ ended \in BOOLEAN /\ Link!Chain(s, q, k, ended)
    BY <1>1, <1>5
  <2> HIDE DEF q
  <2>3. /\ k + 1 <= Len(q) /\ s[1].m = q[k + 1] /\ s[1].m.seq = k + 1
        /\ SubSeq(s, 1, Link!Total(s[1].m)) = Link!Units(s[1].m)
        /\ Link!Chain(SubSeq(s, Link!Total(s[1].m) + 1, Len(s)), q, k + 1, ended)
    BY <1>7, <2>1, <2>2, ChainConsumed
  <2> QED  BY <2>3 DEF q
<1>10. /\ k + 1 <= Len(c.sent) /\ m = c.sent[k + 1] /\ m.seq = k + 1 /\ SubSeq(u, 1, n) = Link!Units(m)
       /\ Link!Chain(r \o p, c.sent, k + 1, ended)
  BY <1>6, <1>8, <1>9
<1>11. a \in Link!Buffer /\ a.units = r /\ Link!windex(a) <= a.capacity
  <2> DEFINE x == IF n >= Len(u) THEN 0 ELSE b.rindex + n
  <2>1. a = [b EXCEPT !.units = r, !.rindex = x]
    BY DEF Link!consume, r, u
  <2>2. x \in Nat /\ x + (Len(u) - n) <= b.rindex + Len(u)
    BY <1>1, <1>3, <1>4
  <2>3. b \in Link!Buffer /\ x \in Nat /\ r \in Seq(Link!Unit)
    BY <1>1, <1>6, <2>2
  <2> HIDE DEF x, a, b
  <2>4. a \in Link!Buffer /\ a.units = r /\ a.rindex = x /\ a.capacity = b.capacity
    BY <2>1, <2>3 DEF Link!Buffer
  <2>5. Link!windex(b) = b.rindex + Len(u) /\ Link!windex(a) = x + Len(r)
    BY <2>4 DEF Link!windex, u
  <2>6. Link!windex(a) = x + (Len(u) - n) /\ Link!windex(b) <= b.capacity /\ Link!windex(b) = b.rindex + Len(u)
    BY <1>1, <1>6, <2>5
  <2>7. /\ x \in Nat /\ Len(u) \in Nat /\ n \in Nat /\ b.rindex \in Nat /\ b.capacity \in Nat
        /\ x + (Len(u) - n) <= b.rindex + Len(u) /\ a.capacity = b.capacity
    BY <1>1, <1>3, <2>2, <2>4
  <2>8. Link!windex(a) <= a.capacity
    BY <2>6, <2>7
  <2> QED  BY <2>4, <2>8
<1>12. /\ h \in Seq(Link!Message) /\ Len(h) = k + 1 /\ h[k + 1] = m /\ \A j \in 1 .. k : h[j] = c.handled[j]
  BY <1>1, <1>3 DEF k
<1> HIDE DEF a, h
<1>13. d \in Link!Connection
  BY <1>11, <1>12 DEF Link!Connection
<1>14. /\ d.sent = c.sent /\ d.pipe = p /\ d.end = c.end /\ d.state = c.state
       /\ d.incoming = a /\ d.handled = h
  BY DEF Link!Connection, p
<1> HIDE DEF d
<1>15. Link!Carries(d)
  <2>1. Len(d.handled) <= Len(d.sent) /\ \A j \in 1 .. Len(d.handled) : d.handled[j] = d.sent[j]
    <3>1. \A j \in 1 .. k : c.handled[j] = c.sent[j]
      BY DEF Link!Carries, k
    <3> QED  BY <1>1, <1>10, <1>12, <1>14, <3>1
  <2>2. \A j \in 1 .. Len(d.sent) : d.sent[j].seq = j
    BY <1>14 DEF Link!Carries
  <2>3. Link!Chain(d.incoming.units \o d.pipe, d.sent, Len(d.handled), d.end # "none")
    BY <1>10, <1>11, <1>12, <1>14 DEF ended
  <2> QED  BY <1>11, <1>14, <2>1, <2>2, <2>3 DEF Link!Carries
<1>16. d = Link!Handled(c, m)
  BY DEF d, h, a, n, Link!Handled
<1>17. SubSeq(c.incoming.units, 1, Link!Total(m)) = Link!Units(m) /\ m.seq = Len(c.handled) + 1
  BY <1>10 DEF n, u, k
<1>18. Len(d.handled) = Len(c.handled) + 1
  BY <1>12, <1>14 DEF k
<1> QED  BY <1>3, <1>13, <1>14, <1>15, <1>16, <1>17, <1>18

\* One connection of several is replaced.
LEMMA Replaced ==
  ASSUME NEW q \in Seq(Link!Connection), NEW c \in 1 .. Len(q), NEW d \in Link!Connection
  PROVE  /\ [q EXCEPT ![c] = d] \in Seq(Link!Connection) /\ Len([q EXCEPT ![c] = d]) = Len(q)
         /\ [q EXCEPT ![c] = d][c] = d /\ \A e \in 1 .. Len(q) : e # c => [q EXCEPT ![c] = d][e] = q[e]
BY ExceptSeq

\* A connection is replaced by one with the same state and handled messages.
LEMMA OneChanged ==
  ASSUME Link!IInv, NEW c \in 1 .. Len(conns), NEW d \in Link!Connection, Link!Carries(d),
         d.state = conns[c].state, d.handled = conns[c].handled,
         conns' = [conns EXCEPT ![c] = d], UNCHANGED <<host2seq, broken, excuse>>
  PROVE  /\ conns' \in Seq(Link!Connection) /\ Len(conns') = Len(conns) /\ conns'[c] = d
         /\ \A e \in 1 .. Len(conns) : e # c => conns'[e] = conns[e]
         /\ \A e \in 1 .. Len(conns) : Link!Carries(conns'[e]) /\ conns'[e].state = conns[e].state
         /\ excuse' \/ Link!InTurn'
         /\ \A e, f \in 1 .. Len(conns) : e < f /\ conns'[e].state = "backlog" => conns'[f].state = "backlog"
<1>1. conns \in Seq(Link!Connection)
  BY DEF Link!IInv, Link!Types
<1>2. /\ conns' \in Seq(Link!Connection) /\ Len(conns') = Len(conns) /\ conns'[c] = d
      /\ \A e \in 1 .. Len(conns) : e # c => conns'[e] = conns[e]
  BY <1>1, Replaced
<1>3. \A e \in 1 .. Len(conns) :
        Link!Carries(conns'[e]) /\ conns'[e].state = conns[e].state /\ conns'[e].handled = conns[e].handled
  BY <1>2 DEF Link!IInv
<1>4. excuse' \/ Link!InTurn'
  <2>1. excuse \/ Link!InTurn
    BY DEF Link!IInv
  <2> QED  BY <1>2, <1>3, <2>1 DEF Link!InTurn
<1>5. \A e, f \in 1 .. Len(conns) : e < f /\ conns'[e].state = "backlog" => conns'[f].state = "backlog"
  BY <1>3 DEF Link!IInv
<1> QED  BY <1>2, <1>3, <1>4, <1>5

\* What endpoint::send() makes of a message
LEMMA IsNumbered ==
  ASSUME LinkConstants, NEW m \in Messages, NEW n \in Nat
  PROVE  Link!Numbered(m, n) \in Link!Message /\ Link!Numbered(m, n).seq = n
BY DEF LinkConstants, Link!Numbered, Link!Message

\* A message is written to the endpoint's connection.
LEMMA WriteKeeps ==
  ASSUME LinkConstants, Link!IInv, client = "connected", NEW m \in Messages, UNCHANGED <<Link!receiver, client>>,
         conns' = [conns EXCEPT ![Link!Current] = Link!Write(@, Link!Numbered(m, seed + 1))], seed' = seed + 1,
         queue' \in Seq(Messages)
  PROVE  Link!IInv'
<1> DEFINE d == Link!Write(conns[Link!Current], Link!Numbered(m, seed + 1))
<1>1. /\ Link!Current \in 1 .. Len(conns) /\ seed = Len(conns[Link!Current].sent) /\ seed \in Nat
      /\ conns \in Seq(Link!Connection) /\ conns[Link!Current] \in Link!Connection /\ Link!Carries(conns[Link!Current])
  BY DEF Link!IInv, Link!Types, Link!Current
<1>2. Link!Numbered(m, seed + 1) \in Link!Message /\ Link!Numbered(m, seed + 1).seq = seed + 1
  BY <1>1, IsNumbered
<1>3. /\ d \in Link!Connection /\ Link!Carries(d) /\ Len(d.sent) = seed + 1
      /\ d.state = conns[Link!Current].state /\ d.handled = conns[Link!Current].handled
  BY <1>1, <1>2, Written
<1>4. conns' = [conns EXCEPT ![Link!Current] = d]
  BY Zenon
<1> HIDE DEF d
<1>5. /\ conns' \in Seq(Link!Connection) /\ Len(conns') = Len(conns) /\ conns'[Link!Current] = d
      /\ \A e \in 1 .. Len(conns) : Link!Carries(conns'[e]) /\ conns'[e].state = conns[e].state
      /\ excuse' \/ Link!InTurn'
      /\ \A e, f \in 1 .. Len(conns) : e < f /\ conns'[e].state = "backlog" => conns'[f].state = "backlog"
  <2>1. UNCHANGED <<host2seq, broken, excuse>>
    BY DEF Link!receiver
  <2> DEFINE c == Link!Current
  <2>2. c \in 1 .. Len(conns) /\ d.state = conns[c].state /\ d.handled = conns[c].handled /\ conns' = [conns EXCEPT ![c] = d]
    BY <1>1, <1>3, <1>4
  <2> HIDE DEF c
  <2>3. /\ conns' \in Seq(Link!Connection) /\ Len(conns') = Len(conns) /\ conns'[c] = d
        /\ \A e \in 1 .. Len(conns) : Link!Carries(conns'[e]) /\ conns'[e].state = conns[e].state
        /\ excuse' \/ Link!InTurn'
        /\ \A e, f \in 1 .. Len(conns) : e < f /\ conns'[e].state = "backlog" => conns'[f].state = "backlog"
    BY <1>3, <2>1, <2>2, OneChanged
  <2> QED  BY <2>3 DEF c
<1>6. Link!Types'
  BY <1>1, <1>5 DEF Link!IInv, Link!Types, Link!receiver
<1>7. Link!Current' > 0 /\ seed' = Len(conns'[Link!Current'].sent)
  <2>1. Link!Current' = Link!Current
    BY <1>5, Zenon DEF Link!Current
  <2>2. conns'[Link!Current'] = d /\ Link!Current > 0
    BY <1>1, <1>5, <2>1
  <2> QED  BY <1>3, <2>1, <2>2, Zenon
<1>8. serving' # 0 => serving' \in 1 .. Len(conns') /\ conns'[serving'].state = "connected"
  BY <1>5 DEF Link!IInv, Link!receiver
<1> QED  BY <1>5, <1>6, <1>7, <1>8 DEF Link!IInv

\* The endpoint's connection ends, by itself or with the sending daemon.
LEMMA EndsKeeps ==
  ASSUME LinkConstants, Link!IInv, NEW how \in {"eof", "error"}, Link!Ends(how), UNCHANGED Link!receiver,
         UNCHANGED <<client, seed>> \/ client' = "disconnected",
         client' \in {"disconnected", "connecting", "connected", "failed"}, seed' \in Nat, queue' \in Seq(Messages)
  PROVE  Link!IInv'
<1> DEFINE c == Link!Current
           d == Link!Ended(conns[c], how)
<1>1. /\ c \in 1 .. Len(conns) /\ conns \in Seq(Link!Connection) /\ conns[c] \in Link!Connection /\ Link!Carries(conns[c])
  BY DEF Link!IInv, Link!Types, Link!Current, Link!Ends
<1>3. d \in Link!Connection /\ Link!Carries(d) /\ d.sent = conns[c].sent /\ d.handled = conns[c].handled /\ d.state = conns[c].state
  BY <1>1, EndedOne
<1>4. conns' = [conns EXCEPT ![c] = d]
  BY Zenon DEF Link!Ends
<1> HIDE DEF d
<1> HIDE DEF c
<1>5. /\ conns' \in Seq(Link!Connection) /\ Len(conns') = Len(conns) /\ conns'[c] = d
      /\ \A e \in 1 .. Len(conns) : Link!Carries(conns'[e]) /\ conns'[e].state = conns[e].state
      /\ excuse' \/ Link!InTurn'
      /\ \A e, f \in 1 .. Len(conns) : e < f /\ conns'[e].state = "backlog" => conns'[f].state = "backlog"
  <2>1. UNCHANGED <<host2seq, broken, excuse>>
    BY DEF Link!receiver
  <2>2. d.state = conns[c].state /\ d.handled = conns[c].handled /\ Link!Carries(d)
    BY <1>3
  <2>3. c \in 1 .. Len(conns) /\ d \in Link!Connection
    BY <1>1, <1>3
  <2> QED  BY <1>4, <2>1, <2>2, <2>3, OneChanged
<1>6. Link!Types'
  BY <1>5 DEF Link!IInv, Link!Types, Link!receiver
<1>7. client' = "connected" => Link!Current' > 0 /\ seed' = Len(conns'[Link!Current'].sent)
  <2>1. Link!Current' = c
    BY <1>5, Zenon DEF Link!Current, c
  <2>2. conns'[Link!Current'] = d /\ c > 0
    BY <1>1, <1>5, <2>1
  <2>3. client' = "connected" => seed' = Len(conns[c].sent)
    BY DEF Link!IInv, c
  <2> QED  BY <1>3, <2>1, <2>2, <2>3, Zenon
<1>8. serving' # 0 => serving' \in 1 .. Len(conns') /\ conns'[serving'].state = "connected"
  BY <1>5 DEF Link!IInv, Link!receiver
<1> QED  BY <1>5, <1>6, <1>7, <1>8 DEF Link!IInv

\* A step of the receiving daemon.
LEMMA ReceiverKeeps ==
  ASSUME LinkConstants, Link!IInv, NEW c \in 1 .. Len(conns)
  PROVE  Link!on_accept(c) \/ Link!on_end(c) \/ Link!on_message(c) \/ Link!read_done(c) \/ (\E n \in 1 .. ReadUnits : Link!on_read(c, n)) => Link!IInv'
<1>1. /\ conns \in Seq(Link!Connection) /\ conns[c] \in Link!Connection /\ Link!Carries(conns[c])
      /\ host2seq \in Nat \cup {Link!None} /\ broken \in BOOLEAN /\ excuse \in BOOLEAN /\ serving \in Nat
      /\ Len(conns) \in Nat
  BY DEF Link!IInv, Link!Types
<1>2. ASSUME UNCHANGED Link!sender, NEW d \in Link!Connection, Link!Carries(d), conns' = [conns EXCEPT ![c] = d], d.sent = conns[c].sent
      PROVE  /\ conns' \in Seq(Link!Connection) /\ Len(conns') = Len(conns) /\ conns'[c] = d
             /\ \A e \in 1 .. Len(conns) : e # c => conns'[e] = conns[e]
             /\ \A e \in 1 .. Len(conns) : Link!Carries(conns'[e])
             /\ client' = "connected" => Link!Current' > 0 /\ seed' = Len(conns'[Link!Current'].sent)
             /\ client' \in {"disconnected", "connecting", "connected", "failed"} /\ seed' \in Nat /\ queue' \in Seq(Messages)
  <2>1. /\ conns' \in Seq(Link!Connection) /\ Len(conns') = Len(conns) /\ conns'[c] = d
        /\ \A e \in 1 .. Len(conns) : e # c => conns'[e] = conns[e]
    BY <1>1, <1>2, Replaced
  <2>2. \A e \in 1 .. Len(conns) : Link!Carries(conns'[e]) /\ conns'[e].sent = conns[e].sent
    BY <1>2, <2>1 DEF Link!IInv
  <2>3. client' = "connected" => Link!Current' > 0 /\ seed' = Len(conns'[Link!Current'].sent)
    <3> SUFFICES ASSUME client' = "connected" PROVE Link!Current' > 0 /\ seed' = Len(conns'[Link!Current'].sent)
      OBVIOUS
    <3>1. Link!Current' = Link!Current /\ seed' = seed /\ client = "connected"
      BY <1>2, <2>1, Zenon DEF Link!Current, Link!sender
    <3>2. Link!Current > 0 /\ seed = Len(conns[Link!Current].sent)
      BY <3>1 DEF Link!IInv
    <3>3. Link!Current \in 1 .. Len(conns)
      BY <1>1, <3>2 DEF Link!Current
    <3>4. conns'[Link!Current].sent = conns[Link!Current].sent
      BY <2>2, <3>3
    <3> QED  BY <3>1, <3>2, <3>4, Zenon
  <2>4. client' \in {"disconnected", "connecting", "connected", "failed"} /\ seed' \in Nat /\ queue' \in Seq(Messages)
    BY <1>2 DEF Link!sender, Link!IInv, Link!Types
  <2> QED  BY <2>1, <2>2, <2>3, <2>4
<1>3. ASSUME Link!on_accept(c) PROVE Link!IInv'
  <2>1. PICK d \in Link!Connection :
          /\ d = [conns[c] EXCEPT !.state = "connected"] /\ Link!Carries(d)
          /\ d.sent = conns[c].sent /\ d.handled = conns[c].handled /\ d.state = "connected"
    BY <1>1, Accepted
  <2>2. conns' = [conns EXCEPT ![c] = d] /\ UNCHANGED Link!sender
    BY <1>3, <2>1 DEF Link!on_accept
  <2>3. /\ conns' \in Seq(Link!Connection) /\ Len(conns') = Len(conns) /\ conns'[c] = d
        /\ \A e \in 1 .. Len(conns) : e # c => conns'[e] = conns[e]
        /\ \A e \in 1 .. Len(conns) : Link!Carries(conns'[e])
        /\ client' = "connected" => Link!Current' > 0 /\ seed' = Len(conns'[Link!Current'].sent)
        /\ client' \in {"disconnected", "connecting", "connected", "failed"} /\ seed' \in Nat /\ queue' \in Seq(Messages)
    BY <1>2, <2>1, <2>2
  <2>4. /\ ~broken /\ serving = 0 /\ serving' = 0 /\ broken' = broken /\ host2seq' = 0 /\ conns[c].state = "backlog"
        /\ \A e \in 1 .. c - 1 : conns[e].state # "backlog"
        /\ excuse' = (excuse \/ \E e \in 1 .. c - 1 : conns[e].state = "connected")
    BY <1>3 DEF Link!on_accept, Link!Idle
  <2>5. Link!Types'
    BY <1>1, <2>3, <2>4 DEF Link!Types
  <2>6. \A e, f \in 1 .. Len(conns') : e < f /\ conns'[e].state = "backlog" => conns'[f].state = "backlog"
    <3>1. \A e, f \in 1 .. Len(conns) : e < f /\ conns[e].state = "backlog" => conns[f].state = "backlog"
      BY DEF Link!IInv
    <3>2. \A e \in 1 .. c - 1 : conns[e].state # "backlog"
      BY <2>4
    <3>3. conns'[c].state = "connected"
      BY <2>1, <2>3
    <3> SUFFICES ASSUME NEW e \in 1 .. Len(conns), NEW f \in 1 .. Len(conns), e < f, conns'[e].state = "backlog"
                 PROVE  conns'[f].state = "backlog"
      BY <2>3
    <3>4. e # c /\ conns[e].state = "backlog"
      BY <2>3, <3>3
    <3>5. conns[f].state = "backlog"
      BY <3>1, <3>4
    <3>6. f # c
      BY <3>2, <3>4
    <3> QED  BY <2>3, <3>5, <3>6
  <2>7. excuse' \/ Link!InTurn'
    <3> SUFFICES ASSUME ~excuse' PROVE Link!InTurn'
      OBVIOUS
    <3>1. \A e \in 1 .. Len(conns) : e > c => conns[e].state = "backlog"
      BY <2>4 DEF Link!IInv
    <3>2. \A e \in 1 .. Len(conns) : e < c => conns[e].state # "connected"
      <4>1. \A e \in 1 .. c - 1 : conns[e].state # "connected"
        BY <2>4
      <4>2. \A e \in 1 .. Len(conns) : e < c => e \in 1 .. c - 1
        BY <1>1
      <4> QED  BY <4>1, <4>2
    <3>3. \A e \in 1 .. Len(conns) : e # c => conns'[e].state # "connected"
      BY <1>1, <2>3, <3>1, <3>2
    <3>4. Len(conns'[c].handled) = 0
      BY <1>1, <2>1, <2>3, <2>4 DEF Link!Carries
    <3> QED  BY <2>3, <2>4, <3>3, <3>4 DEF Link!InTurn
  <2> QED  BY <2>3, <2>4, <2>5, <2>6, <2>7 DEF Link!IInv
<1>4. ASSUME Link!on_end(c) PROVE Link!IInv'
  <2>1. PICK d \in Link!Connection :
          /\ d = [conns[c] EXCEPT !.state = "disconnected"] /\ Link!Carries(d)
          /\ d.sent = conns[c].sent /\ d.handled = conns[c].handled /\ d.state = "disconnected"
    BY <1>1, Accepted
  <2>2. conns' = [conns EXCEPT ![c] = d] /\ UNCHANGED Link!sender
    BY <1>4, <2>1 DEF Link!on_end
  <2>3. /\ conns' \in Seq(Link!Connection) /\ Len(conns') = Len(conns) /\ conns'[c] = d
        /\ \A e \in 1 .. Len(conns) : e # c => conns'[e] = conns[e]
        /\ \A e \in 1 .. Len(conns) : Link!Carries(conns'[e])
        /\ client' = "connected" => Link!Current' > 0 /\ seed' = Len(conns'[Link!Current'].sent)
        /\ client' \in {"disconnected", "connecting", "connected", "failed"} /\ seed' \in Nat /\ queue' \in Seq(Messages)
    BY <1>2, <2>1, <2>2
  <2>4. /\ ~broken /\ serving = 0 /\ serving' = 0 /\ broken' = (broken \/ ~(host2seq # Link!None)) /\ host2seq' = Link!None
        /\ conns[c].state = "connected" /\ excuse' = excuse
    BY <1>4 DEF Link!on_end, Link!Idle, Link!Asserts
  <2>5. Link!Types'
    BY <1>1, <2>3, <2>4 DEF Link!Types
  <2>6. \A e, f \in 1 .. Len(conns') : e < f /\ conns'[e].state = "backlog" => conns'[f].state = "backlog"
    <3>1. \A e, f \in 1 .. Len(conns) : e < f /\ conns[e].state = "backlog" => conns[f].state = "backlog"
      BY DEF Link!IInv
    <3>2. \A e \in 1 .. Len(conns) : e # c => conns'[e].state = conns[e].state
      BY <2>3
    <3>3. conns'[c].state = "disconnected"
      BY <2>1, <2>3
    <3> SUFFICES ASSUME NEW e \in 1 .. Len(conns), NEW f \in 1 .. Len(conns), e < f, conns'[e].state = "backlog"
                 PROVE  conns'[f].state = "backlog"
      BY <2>3
    <3>4. e # c /\ conns[e].state = "backlog"
      BY <3>2, <3>3
    <3>5. conns[f].state = "backlog"
      BY <3>1, <3>4
    <3>6. f # c
      BY <2>4, <3>5
    <3> QED  BY <3>2, <3>5, <3>6
  <2>7. excuse' \/ Link!InTurn'
    <3> SUFFICES ASSUME ~excuse' PROVE Link!InTurn'
      OBVIOUS
    <3>1. Link!InTurn
      BY <2>4 DEF Link!IInv
    <3>2. \A e \in 1 .. Len(conns) : e # c => conns[e].state # "connected"
      BY <2>4, <3>1 DEF Link!InTurn
    <3>3. \A e \in 1 .. Len(conns) : conns'[e].state # "connected"
      BY <2>1, <2>3, <3>2
    <3>4. host2seq = Len(conns[c].handled) /\ conns[c].handled \in Seq(Link!Message)
      BY <1>1, <2>4, <3>1 DEF Link!InTurn, Link!Connection
    <3>5. ~broken'
      <4>1. host2seq \in Nat
        BY <3>4
      <4>2. host2seq # Link!None
        BY <4>1 DEF Link!None
      <4> QED  BY <2>4, <4>2
    <3> QED  BY <2>3, <3>3, <3>5 DEF Link!InTurn
  <2> QED  BY <2>3, <2>4, <2>5, <2>6, <2>7 DEF Link!IInv
<1>5. ASSUME Link!on_message(c) PROVE Link!IInv'
  <2> DEFINE m == Head(conns[c].incoming.units).m
  <2>1. conns[c].state = "connected" /\ Link!Complete(conns[c].incoming) /\ ~broken /\ serving = c /\ serving' = c
    <3>1. Link!Complete(conns[c].incoming) /\ ~broken /\ serving = c /\ serving' = c
      BY <1>5, Zenon DEF Link!on_message
    <3>2. serving # 0 => conns[serving].state = "connected"
      BY DEF Link!IInv
    <3> QED  BY <3>1, <3>2
  <2> DEFINE d == Link!Handled(conns[c], m)
  <2>2. m \in Link!Message /\ SubSeq(conns[c].incoming.units, 1, Link!Total(m)) = Link!Units(m) /\ m.seq = Len(conns[c].handled) + 1
    BY <1>1, <2>1, HandledOne, Zenon
  <2>3. /\ d \in Link!Connection /\ Link!Carries(d) /\ d.sent = conns[c].sent
        /\ Len(d.handled) = Len(conns[c].handled) + 1 /\ d.state = conns[c].state
    BY <1>1, <2>1, HandledOne, Zenon
  <2>4. conns' = [conns EXCEPT ![c] = d] /\ UNCHANGED Link!sender
    BY <1>5, Zenon DEF Link!on_message
  <2>5. /\ host2seq' = m.seq /\ excuse' = (excuse \/ m.far)
        /\ broken' = (broken \/ ~(/\ SubSeq(conns[c].incoming.units, 1, Link!Total(m)) = Link!Units(m) /\ host2seq # Link!None
                                   /\ m.seq = host2seq + 1 /\ ~m.far))
    BY <1>5, Zenon DEF Link!on_message, Link!Asserts
  <2>6. m.seq \in Nat /\ m.far \in BOOLEAN
    BY <2>2 DEF Link!Message
  <2> HIDE DEF m, d
  <2>7. /\ conns' \in Seq(Link!Connection) /\ Len(conns') = Len(conns) /\ conns'[c] = d
        /\ \A e \in 1 .. Len(conns) : e # c => conns'[e] = conns[e]
        /\ \A e \in 1 .. Len(conns) : Link!Carries(conns'[e])
        /\ client' = "connected" => Link!Current' > 0 /\ seed' = Len(conns'[Link!Current'].sent)
        /\ client' \in {"disconnected", "connecting", "connected", "failed"} /\ seed' \in Nat /\ queue' \in Seq(Messages)
    BY <1>2, <2>3, <2>4
  <2>8. Link!Types'
    BY <1>1, <2>1, <2>5, <2>6, <2>7 DEF Link!Types
  <2>9. \A e \in 1 .. Len(conns) : conns'[e].state = conns[e].state
    BY <2>3, <2>7
  <2>10. \A e, f \in 1 .. Len(conns') : e < f /\ conns'[e].state = "backlog" => conns'[f].state = "backlog"
    BY <2>7, <2>9 DEF Link!IInv
  <2>11. excuse' \/ Link!InTurn'
    <3> SUFFICES ASSUME ~excuse' PROVE Link!InTurn'
      OBVIOUS
    <3>1. Link!InTurn /\ ~m.far
      BY <2>5 DEF Link!IInv
    <3>2. \A e \in 1 .. Len(conns) : e # c => conns[e].state # "connected"
      BY <2>1, <3>1 DEF Link!InTurn
    <3>3. host2seq = Len(conns[c].handled) /\ host2seq \in Nat
      <4>1. conns[c].handled \in Seq(Link!Message)
        BY <1>1 DEF Link!Connection
      <4> QED  BY <2>1, <3>1, <4>1 DEF Link!InTurn
    <3>4. ~broken'
      <4>1. host2seq # Link!None
        BY <3>3 DEF Link!None
      <4>2. m.seq = host2seq + 1
        BY <2>2, <3>3
      <4> QED  BY <2>1, <2>2, <2>5, <3>1, <4>1, <4>2, Zenon
    <3>5. host2seq' = Len(conns'[c].handled)
      BY <2>2, <2>3, <2>5, <2>7
    <3> QED  BY <2>7, <2>9, <3>2, <3>4, <3>5 DEF Link!InTurn
  <2> QED  BY <2>1, <2>7, <2>8, <2>9, <2>10, <2>11 DEF Link!IInv
<1>6. ASSUME Link!read_done(c) PROVE Link!IInv'
  <2>1. UNCHANGED <<Link!sender, host2seq, broken, excuse, conns>> /\ serving' = 0
    BY <1>6 DEF Link!read_done
  <2> QED  BY <2>1 DEF Link!IInv, Link!Types, Link!sender, Link!Current, Link!InTurn
<1>7. ASSUME NEW n \in 1 .. ReadUnits, Link!on_read(c, n) PROVE Link!IInv'
  <2> DEFINE b == Link!prepare(conns[c].incoming, ReadUnits)
  <2>1. conns[c].state = "connected" /\ n <= Len(conns[c].pipe) /\ serving' = c /\ UNCHANGED <<Link!sender, host2seq, excuse>>
    BY <1>7 DEF Link!on_read
  <2> DEFINE d == Link!Read(conns[c], b, n)
  <2>2. broken' = (broken \/ ~(Link!windex(b) + n <= b.capacity)) /\ conns' = [conns EXCEPT ![c] = d]
    BY <1>7, Zenon DEF Link!on_read, Link!Asserts
  <2>3. Link!windex(b) + n <= b.capacity
    BY <1>1, <2>1, ReadIn
  <2>4. d \in Link!Connection /\ Link!Carries(d) /\ d.sent = conns[c].sent /\ d.handled = conns[c].handled /\ d.state = conns[c].state
    BY <1>1, <2>1, ReadIn
  <2> HIDE DEF b, d
  <2>5. UNCHANGED <<host2seq, broken, excuse>>
    BY <1>1, <2>1, <2>2, <2>3
  <2>6. /\ conns' \in Seq(Link!Connection) /\ Len(conns') = Len(conns)
        /\ client' = "connected" => Link!Current' > 0 /\ seed' = Len(conns'[Link!Current'].sent)
        /\ client' \in {"disconnected", "connecting", "connected", "failed"} /\ seed' \in Nat /\ queue' \in Seq(Messages)
    BY <1>2, <2>1, <2>2, <2>4
  <2>7. /\ \A e \in 1 .. Len(conns) : Link!Carries(conns'[e]) /\ conns'[e].state = conns[e].state
        /\ excuse' \/ Link!InTurn'
        /\ \A e, f \in 1 .. Len(conns) : e < f /\ conns'[e].state = "backlog" => conns'[f].state = "backlog"
    BY <2>2, <2>4, <2>5, OneChanged
  <2>8. Link!Types'
    BY <1>1, <2>1, <2>5, <2>6 DEF Link!Types
  <2> QED  BY <2>1, <2>6, <2>7, <2>8 DEF Link!IInv
<1> QED  BY <1>3, <1>4, <1>5, <1>6, <1>7

\* The receiver handles the messages of a connection as they were sent, in
\* order and without a gap, and none of its assertions fails unless a new
\* connection overlaps the old one or a message is relayed: for messages of
\* any length, reads and buffers of any size and any number of connections.
LEMMA LinkAlone ==
  ASSUME HeadUnits \in Nat \ {0}, ReadUnits \in Nat, FirstUnits \in Nat,
         \A m \in Messages : m.length \in Nat /\ m.far \in BOOLEAN
  PROVE  Link!Spec => []Link!LinkIsSound
<1>0. LinkConstants
  BY DEF LinkConstants
<1>1. Link!Init => Link!IInv
  <2> SUFFICES ASSUME Link!Init PROVE Link!IInv
    OBVIOUS
  <2>1. conns = <<>> /\ Len(conns) = 0 /\ conns \in Seq(Link!Connection) /\ queue \in Seq(Messages)
    BY EmptySeq DEF Link!Init
  <2>2. Link!Types
    BY <2>1 DEF Link!Init, Link!Types
  <2>3. Link!InTurn
    BY <2>1 DEF Link!Init, Link!InTurn
  <2> QED  BY <2>1, <2>2, <2>3 DEF Link!Init, Link!IInv
<1>2. Link!IInv /\ [Link!Next]_(Link!vars) => Link!IInv'
  <2> SUFFICES ASSUME Link!IInv, [Link!Next]_(Link!vars) PROVE Link!IInv'
    OBVIOUS
  <2>1. ASSUME UNCHANGED Link!vars PROVE Link!IInv'
    BY <2>1 DEF Link!vars, Link!sender, Link!receiver, Link!IInv, Link!Types, Link!InTurn, Link!Current
  <2>2. ASSUME NEW m \in Messages, Link!Send(m) PROVE Link!IInv'
    <3>1. CASE client = "connected"
      <4>1. /\ UNCHANGED <<Link!receiver, client, queue>> /\ seed' = seed + 1
            /\ conns' = [conns EXCEPT ![Link!Current] = Link!Write(@, Link!Numbered(m, seed + 1))]
        BY <2>2, <3>1, Zenon DEF Link!Send
      <4>2. queue' \in Seq(Messages)
        BY <4>1 DEF Link!IInv, Link!Types
      <4> QED  BY <3>1, <4>1, <4>2, <1>0, WriteKeeps
    <3>2. CASE client # "connected"
      <4>1. /\ UNCHANGED <<Link!receiver, conns, seed>> /\ queue' = Append(queue, m)
            /\ client' = IF client = "disconnected" THEN "connecting" ELSE client
        BY <2>2, <3>2 DEF Link!Send
      <4>2. queue' \in Seq(Messages)
        BY <4>1 DEF Link!IInv, Link!Types
      <4> QED  BY <3>2, <4>1, <4>2 DEF Link!receiver, Link!IInv, Link!Types, Link!InTurn, Link!Current
    <3> QED  BY <3>1, <3>2
  <2>3. ASSUME Link!Connected PROVE Link!IInv'
    <3>1. /\ client' = "connected" /\ seed' = 0 /\ conns' = Append(conns, Link!NewConn) /\ UNCHANGED <<Link!receiver, queue>>
          /\ conns \in Seq(Link!Connection) /\ Len(conns) \in Nat
      BY <2>3 DEF Link!Connected, Link!IInv, Link!Types
    <3>2. Link!NewConn \in Link!Connection /\ Link!Carries(Link!NewConn) /\ Len(Link!NewConn.sent) = 0 /\ Link!NewConn.state = "backlog"
      BY <1>0, Fresh DEF Link!NewConn
    <3>3. /\ conns' \in Seq(Link!Connection) /\ Len(conns') = Len(conns) + 1 /\ conns'[Len(conns) + 1] = Link!NewConn
          /\ \A e \in 1 .. Len(conns) : conns'[e] = conns[e]
      BY <3>1, <3>2, AppendProperties
    <3>4. Link!Types'
      BY <3>1, <3>3 DEF Link!IInv, Link!Types, Link!receiver
    <3>5. Link!Current' > 0 /\ seed' = Len(conns'[Link!Current'].sent)
      <4>1. Link!Current' = Len(conns) + 1
        BY <3>3 DEF Link!Current
      <4> QED  BY <3>1, <3>2, <3>3, <4>1
    <3>6. \A e \in 1 .. Len(conns') : e \in 1 .. Len(conns) \/ e = Len(conns) + 1
      BY <3>1, <3>3
    <3>7. \A e \in 1 .. Len(conns') : Link!Carries(conns'[e])
      BY <3>2, <3>3, <3>6 DEF Link!IInv
    <3>8. \A e, f \in 1 .. Len(conns') : e < f /\ conns'[e].state = "backlog" => conns'[f].state = "backlog"
      BY <3>1, <3>2, <3>3, <3>6 DEF Link!IInv
    <3>9. serving' # 0 => serving' \in 1 .. Len(conns') /\ conns'[serving'].state = "connected"
      BY <3>1, <3>3 DEF Link!IInv, Link!receiver
    <3>10. excuse' \/ Link!InTurn'
      BY <3>1, <3>2, <3>3, <3>6 DEF Link!IInv, Link!InTurn, Link!receiver
    <3> QED  BY <3>4, <3>5, <3>7, <3>8, <3>9, <3>10 DEF Link!IInv
  <2>4. ASSUME Link!SendQueued PROVE Link!IInv'
    <3>1. /\ client = "connected" /\ UNCHANGED <<Link!receiver, client>> /\ seed' = seed + 1 /\ queue # <<>> /\ queue' = Tail(queue)
          /\ conns' = [conns EXCEPT ![Link!Current] = Link!Write(@, Link!Numbered(Head(queue), seed + 1))]
      BY <2>4, Zenon DEF Link!SendQueued
    <3>2. Head(queue) \in Messages /\ queue' \in Seq(Messages)
      BY <3>1 DEF Link!IInv, Link!Types
    <3> QED  BY <3>1, <3>2, <1>0, WriteKeeps
  <2>5. ASSUME Link!ConnectFails PROVE Link!IInv'
    BY <2>5 DEF Link!ConnectFails, Link!receiver, Link!IInv, Link!Types, Link!InTurn, Link!Current
  <2>6. ASSUME Link!Break PROVE Link!IInv'
    <3>1. Link!Ends("error") /\ UNCHANGED Link!receiver /\ UNCHANGED <<client, seed, queue>>
      BY <2>6 DEF Link!Break, Link!sender
    <3>2. client' \in {"disconnected", "connecting", "connected", "failed"} /\ seed' \in Nat /\ queue' \in Seq(Messages)
      BY <3>1 DEF Link!IInv, Link!Types
    <3> QED  BY <3>1, <3>2, <1>0, EndsKeeps
  <2>7. ASSUME Link!Restart PROVE Link!IInv'
    <3>1. client' = "disconnected" /\ seed' = 0 /\ queue' = <<>> /\ UNCHANGED Link!receiver
      BY <2>7 DEF Link!Restart
    <3>2. ASSUME Link!Ends("eof") PROVE Link!IInv'
      <4>1. seed' \in Nat /\ queue' \in Seq(Messages)
        BY <3>1
      <4> QED  BY <3>1, <3>2, <4>1, <1>0, EndsKeeps
    <3>3. ASSUME UNCHANGED conns PROVE Link!IInv'
      BY <3>1, <3>3 DEF Link!receiver, Link!IInv, Link!Types, Link!InTurn, Link!Current
    <3> QED  BY <2>7, <3>2, <3>3 DEF Link!Restart
  <2>8. ASSUME NEW c \in 1 .. Len(conns),
               Link!on_accept(c) \/ Link!on_message(c) \/ Link!read_done(c) \/ Link!on_end(c) \/ \E n \in 1 .. ReadUnits : Link!on_read(c, n)
        PROVE  Link!IInv'
    BY <2>8, <1>0, ReceiverKeeps
  <2> QED  BY <2>1, <2>2, <2>3, <2>4, <2>5, <2>6, <2>7, <2>8, Zenon DEF Link!Next
<1>3. Link!IInv => Link!LinkIsSound
  <2> SUFFICES ASSUME Link!IInv PROVE Link!LinkIsSound
    OBVIOUS
  <2>1. broken => excuse
    BY DEF Link!IInv, Link!InTurn
  <2>2. ASSUME NEW c \in 1 .. Len(conns) PROVE Link!IsPrefix(conns[c].handled, conns[c].sent)
    <3> DEFINE h == conns[c].handled
               s == conns[c].sent
    <3>1. /\ h \in Seq(Link!Message) /\ s \in Seq(Link!Message)
          /\ Len(h) <= Len(s) /\ \A j \in 1 .. Len(h) : h[j] = s[j]
      <4>1. conns[c] \in Link!Connection /\ Link!Carries(conns[c])
        BY DEF Link!IInv, Link!Types
      <4>2. h \in Seq(Link!Message) /\ s \in Seq(Link!Message)
        BY <4>1 DEF Link!Connection
      <4> QED  BY <4>1, <4>2 DEF Link!Carries
    <3> HIDE DEF h, s
    <3>2. Link!IsPrefix(h, s)
      <4>1. SubSeq(h, 1, Len(h)) = h
        BY <3>1, SubSeqFull
      <4>2. \A j \in 1 .. Len(h) : s[j] \in Link!Message
        BY <3>1
      <4> DEFINE r == SubSeq(s, 1, Len(h))
      <4>3. /\ r \in Seq(Link!Message) /\ Len(r) = (IF 1 <= Len(h) THEN Len(h) - 1 + 1 ELSE 0)
            /\ \A j \in 1 .. Len(h) - 1 + 1 : r[j] = s[1 + j - 1]
        BY <3>1, <4>2, SubSeqProperties
      <4> HIDE DEF r
      <4>4. Len(r) = Len(h) /\ \A j \in 1 .. Len(r) : r[j] = h[j]
        BY <3>1, <4>3
      <4>5. r = h
        BY <3>1, <4>3, <4>4, SeqEqual
      <4> QED  BY <3>1, <4>1, <4>5 DEF Link!IsPrefix, r
    <3> QED  BY <3>2 DEF h, s
  <2> QED  BY <2>1, <2>2 DEF Link!LinkIsSound
<1> QED  BY <1>1, <1>2, <1>3, PTL DEF Link!Spec

\* Messages between daemons are handled as they were sent, and no assertion of
\* the receiver fails without an excuse: for messages of any length, however
\* they are cut into reads, and any number of connections.
THEOREM LinkSound ==
  ASSUME HeadUnits \in Nat \ {0}, ReadUnits \in Nat, FirstUnits \in Nat,
         \A m \in Messages : m.length \in Nat /\ m.far \in BOOLEAN
  PROVE  Spec => []LinkIsSound
<1>1. Link!Spec => []Link!LinkIsSound
  BY LinkAlone
<1> QED  BY <1>1, LinkPart, PTL DEF LinkIsSound

\* The ids: the steps of a process change their state as Guid says.
LEMMA IdsPart ==
  /\ Init => Ids!Init
  /\ [Next]_vars => [Ids!Next]_guidVars
<1>1. Init => Ids!Init
  BY DEF Init
<1>2. UNCHANGED serviceVars => UNCHANGED guidVars
  BY DEF serviceVars
<1>3. Service => [Ids!Next]_guidVars
  BY Zenon DEF Service
<1>4. [Next]_vars => [Ids!Next]_guidVars
  <2>1. UNCHANGED vars => UNCHANGED guidVars
    BY <1>2 DEF vars
  <2> QED  BY <1>2, <1>3, <2>1, Zenon DEF Next
<1> QED  BY <1>1, <1>4

\* Within as many seconds as a timestamp can tell apart, no two have the same.
LEMMA SecondsApart ==
  ASSUME NEW n \in Nat \ {0}, NEW s \in 1 .. n, NEW t \in 1 .. n, s % n = t % n
  PROVE  s = t
<1>1. ASSUME NEW k \in 1 .. n, k # n PROVE k % n = k
  BY <1>1
<1>2. n % n = 0
  OBVIOUS
<1> QED  BY <1>1, <1>2

\* create() gives an id that was not given before.
LEMMA CreateNew ==
  ASSUME Serials \in Nat \ {0}, Timestamps \in Nat \ {0}, Ids!IInv, unlucky = {}, now <= Timestamps,
         before # now,
         NEW serial \in Nat, serial = (IF last_sec = now THEN last_serial ELSE 0), serial < Serials
  PROVE  <<serial % Serials, now % Timestamps>> \notin issued
<1>0. now \in Nat \ {0} /\ last_serial \in Nat
  BY DEF Ids!IInv, Ids!Counted
<1>1. serial % Serials = serial
  OBVIOUS
<1> SUFFICES ASSUME <<serial, now % Timestamps>> \in issued PROVE FALSE
  BY <1>1
<1>2. Ids!Dated(<<serial, now % Timestamps>>)
  BY <1>0 DEF Ids!IInv
<1>3. PICK t \in 1 .. now, s \in 0 .. Serials - 1 :
        /\ <<serial, now % Timestamps>> = <<s, t % Timestamps>>
        /\ t = now => (last_sec = now /\ s < last_serial) \/ before = now
  BY <1>2 DEF Ids!Dated
<1>4. t = now
  <2>1. t \in 1 .. Timestamps /\ now \in 1 .. Timestamps
    BY <1>0
  <2> QED  BY <1>3, <2>1, SecondsApart
<1> QED  BY <1>0, <1>3, <1>4

LEMMA CreateKeeps ==
  ASSUME Serials \in Nat \ {0}, Timestamps \in Nat \ {0}, Ids!IInv, Ids!create
  PROVE  Ids!IInv'
<1> DEFINE serial == IF last_sec = now THEN last_serial ELSE 0
           id == <<serial % Serials, now % Timestamps>>
<1>0. Ids!Counted
  BY DEF Ids!IInv
<1>1. /\ last_sec' = now /\ UNCHANGED <<clock, now, life, before>>
      /\ \/ serial >= Serials /\ last_serial' = serial /\ issued' = issued /\ twice' = twice
         \/ /\ serial < Serials /\ last_serial' = serial + 1
            /\ issued' = issued \cup {id} /\ twice' = (twice \/ id \in issued)
  <2>1. serial \in Nat
    BY <1>0 DEF Ids!Counted
  <2> QED  BY <2>1 DEF Ids!create, Ids!Busy
<1>2. serial \in Nat /\ now \in Nat \ {0} /\ last_serial \in Nat
  BY <1>0 DEF Ids!Counted
<1>3. Ids!Counted'
  <2>1. twice' \in BOOLEAN
    BY <1>0, <1>1, Zenon DEF Ids!Counted
  <2> QED  BY <1>0, <1>1, <1>2, <2>1 DEF Ids!Counted
<1>4. ASSUME unlucky' = {} PROVE unlucky = {} /\ before # now /\ Ids!InOrder
  <2>1. unlucky' = (IF before = now /\ life # "ticked" THEN unlucky \cup {life} ELSE unlucky)
    BY DEF Ids!create
  <2>2. unlucky = {} /\ ~(before = now /\ life # "ticked")
    BY <1>4, <2>1
  <2>3. Ids!InOrder
    BY <2>2 DEF Ids!IInv
  <2> QED  BY <1>0, <2>2, <2>3 DEF Ids!InOrder, Ids!Counted
<1>5. unlucky' # {} \/ Ids!InOrder'
  BY <1>0, <1>1, <1>4 DEF Ids!InOrder, Ids!Counted
<1>6. ASSUME unlucky' = {}, now <= Timestamps PROVE ~twice' /\ \A d \in issued' : Ids!Dated(d)'
  <2>0. unlucky = {} /\ before # now
    BY <1>4, <1>6
  <2>1. ~twice /\ \A d \in issued : Ids!Dated(d)
    BY <1>2, <1>6, <2>0 DEF Ids!IInv
  <2>2. ASSUME NEW d \in issued PROVE Ids!Dated(d)'
    <3>1. PICK t \in 1 .. now, s \in 0 .. Serials - 1 :
            d = <<s, t % Timestamps>> /\ (t = now => (last_sec = now /\ s < last_serial) \/ before = now)
      BY <2>1, <2>2 DEF Ids!Dated
    <3>2. t = now' => last_sec' = now' /\ s < last_serial'
      BY <1>1, <1>2, <2>0, <3>1
    <3> QED  BY <1>1, <3>1, <3>2 DEF Ids!Dated
  <2>3. CASE serial >= Serials
    BY <1>1, <1>2, <2>1, <2>2, <2>3
  <2>4. CASE serial < Serials
    <3>1. id \notin issued
      BY <1>2, <1>6, <2>0, <2>4, CreateNew
    <3>2. serial % Serials = serial
      BY <1>2, <2>4
    <3>3. ASSUME NEW d, d = id PROVE Ids!Dated(d)'
      <4>0. d = <<serial, now % Timestamps>>
        BY <3>2, <3>3
      <4>1. now \in 1 .. now' /\ serial \in 0 .. Serials - 1
        BY <1>1, <1>2, <2>4
      <4>2. last_sec' = now' /\ serial < last_serial'
        BY <1>1, <1>2, <2>4
      <4> HIDE DEF serial
      <4> QED  BY <1>1, <4>0, <4>1, <4>2 DEF Ids!Dated
    <3>4. issued' = issued \cup {id} /\ twice' = (twice \/ id \in issued)
      BY <1>1, <1>2, <2>4
    <3> HIDE DEF id
    <3>5. ~twice'
      BY <2>1, <3>1, <3>4, Zenon
    <3> QED  BY <2>2, <3>3, <3>4, <3>5, Zenon
  <2> QED  BY <1>2, <2>3, <2>4
<1> QED  BY <1>1, <1>2, <1>3, <1>5, <1>6 DEF Ids!IInv

\* An id keeps its second when the time goes on, or stays and the ids of this
\* second become those of an earlier process.
LEMMA DatedLater ==
  ASSUME now \in Nat, now' \in Nat, now <= now',
         now' = now => \/ UNCHANGED <<before, last_sec, last_serial>>
                       \/ (last_sec = now \/ before = now) => before' = now,
         NEW d, Ids!Dated(d)
  PROVE  Ids!Dated(d)'
<1>1. PICK t \in 1 .. now, s \in 0 .. Serials - 1 :
        /\ d = <<s, t % Timestamps>>
        /\ t = now => (last_sec = now /\ s < last_serial) \/ before = now
  BY DEF Ids!Dated
<1>2. t \in 1 .. now'
  OBVIOUS
<1>3. t = now' => (last_sec' = now' /\ s < last_serial') \/ before' = now'
  BY <1>1
<1> QED  BY <1>1, <1>2, <1>3 DEF Ids!Dated

\* The steps that issue no id
Clockwork == Ids!Pass \/ Ids!InitEnds \/ Ids!Tick \/ Ids!Restart \/ \E t \in 1 .. MaxTime : Ids!SetBack(t)

LEMMA ClockKeeps ==
  ASSUME Timestamps \in Nat \ {0}, MaxTime \in Nat, Ids!IInv, Clockwork
  PROVE  Ids!IInv'
<1>0. Ids!Counted
  BY DEF Ids!IInv
<1>1. issued' = issued /\ twice' = twice /\ Ids!Counted'
  <2>1. CASE Ids!Pass \/ Ids!InitEnds \/ Ids!Tick
    BY <1>0, <2>1 DEF Ids!Counted, Ids!Pass, Ids!InitEnds, Ids!Tick
  <2>2. CASE Ids!Restart
    BY <1>0, <2>2 DEF Ids!Counted, Ids!Restart
  <2>3. ASSUME NEW t \in 1 .. MaxTime, Ids!SetBack(t) PROVE issued' = issued /\ twice' = twice /\ Ids!Counted'
    <3>1. clock' = t /\ UNCHANGED <<now, life, before, last_sec, last_serial, issued, twice>>
      BY <2>3 DEF Ids!SetBack
    <3>2. clock' \in Nat \ {0}
      BY <3>1
    <3> QED  BY <1>0, <3>1, <3>2 DEF Ids!Counted
  <2> QED  BY <2>1, <2>2, <2>3 DEF Clockwork
<1>2. ASSUME unlucky' = {}
      PROVE  /\ unlucky = {} /\ Ids!InOrder' /\ now <= now'
             /\ now' = now => \/ UNCHANGED <<before, last_sec, last_serial>>
                              \/ (last_sec = now \/ before = now) => before' = now
  <2>1. ~\E t \in 1 .. MaxTime : Ids!SetBack(t)
    BY <1>2 DEF Ids!SetBack
  <2>2. unlucky = {}
    BY <1>2, <2>1 DEF Clockwork, Ids!Pass, Ids!InitEnds, Ids!Tick, Ids!Restart
  <2>3. Ids!InOrder
    BY <2>2 DEF Ids!IInv
  <2>4. CASE Ids!Pass
    BY <1>0, <2>2, <2>3, <2>4 DEF Ids!Counted, Ids!InOrder, Ids!Pass
  <2>5. CASE Ids!InitEnds
    BY <1>0, <2>2, <2>3, <2>5 DEF Ids!Counted, Ids!InOrder, Ids!InitEnds
  <2>6. CASE Ids!Tick
    BY <1>0, <2>2, <2>3, <2>6 DEF Ids!Counted, Ids!InOrder, Ids!Tick
  <2>7. CASE Ids!Restart
    BY <1>0, <2>2, <2>3, <2>7 DEF Ids!Counted, Ids!InOrder, Ids!Restart
  <2> QED  BY <2>1, <2>4, <2>5, <2>6, <2>7 DEF Clockwork
<1>3. ASSUME unlucky' = {}, ~(now' > Timestamps) PROVE ~twice' /\ \A d \in issued' : Ids!Dated(d)'
  <2>1. now \in Nat /\ now' \in Nat
    BY <1>0, <1>1 DEF Ids!Counted
  <2>2. ~twice /\ \A d \in issued : Ids!Dated(d)
    BY <1>2, <1>3, <2>1 DEF Ids!IInv
  <2>3. ASSUME NEW d \in issued PROVE Ids!Dated(d)'
    BY <1>2, <1>3, <2>1, <2>2, <2>3, DatedLater
  <2> QED  BY <1>1, <2>2, <2>3, Zenon
<1> QED  BY <1>1, <1>2, <1>3 DEF Ids!IInv

\* No id is issued twice, whatever the widths of its fields, by any number of
\* processes one after the other, as long as the clock is not set back, no
\* process creates an id before its first tick in the second of the last id
\* of another before it, and the timestamp has not wrapped around.
THEOREM IdsNeverRepeat ==
  ASSUME Serials \in Nat \ {0}, Timestamps \in Nat \ {0}, MaxTime \in Nat
  PROVE  Spec => []Ids!IdsUnique
<1>1. Init => Ids!IInv
  <2> SUFFICES ASSUME Ids!Init PROVE Ids!IInv
    BY IdsPart
  <2>1. twice \in BOOLEAN /\ ~twice /\ issued = {}
    BY Zenon DEF Ids!Init
  <2> QED  BY <2>1 DEF Ids!Init, Ids!IInv, Ids!Counted, Ids!InOrder
<1>2. Ids!IInv /\ [Next]_vars => Ids!IInv'
  <2> SUFFICES ASSUME Ids!IInv, [Ids!Next]_guidVars PROVE Ids!IInv'
    BY IdsPart
  <2>1. CASE UNCHANGED guidVars
    BY <2>1 DEF guidVars, Ids!IInv, Ids!Counted, Ids!InOrder, Ids!Dated
  <2>2. CASE Ids!create
    BY <2>2, CreateKeeps
  <2>3. CASE Clockwork
    BY <2>3, ClockKeeps
  <2> QED  BY <2>1, <2>2, <2>3, Zenon DEF Ids!Next, Clockwork
<1>3. Ids!IInv => Ids!IdsUnique
  BY DEF Ids!IInv, Ids!IdsUnique
<1> QED  BY <1>1, <1>2, <1>3, PTL DEF Spec

\* The loggers: the steps of a process change their state as Loggers says.
LEMMA LoggersPart ==
  /\ Init => Logging!Init
  /\ [Next]_vars => [Logging!Next]_loggerVars
<1>1. Init => Logging!Init
  BY DEF Init
<1>2. UNCHANGED serviceVars => UNCHANGED loggerVars
  BY DEF serviceVars
<1>3. Service => [Logging!Next]_loggerVars
  BY Zenon DEF Service
<1>4. [Next]_vars => [Logging!Next]_loggerVars
  <2>1. UNCHANGED vars => UNCHANGED loggerVars
    BY <1>2 DEF vars
  <2> QED  BY <1>2, <1>3, <2>1, Zenon DEF Next
<1> QED  BY <1>1, <1>4

\* The loggers made of the first categories have names of their own.
LEMMA OneOfAName ==
  ASSUME NEW cats, NEW n \in Nat,
         NEW c \in Logging!MadeOf(cats, n), NEW d \in Logging!MadeOf(cats, n), c.name = d.name
  PROVE  c = d
<1>1. PICK j \in 1 .. n : c = cats[j] /\ cats[j].devices > 0
                          /\ \A l \in j + 1 .. n : cats[l].devices > 0 => cats[l].name # cats[j].name
  BY DEF Logging!MadeOf
<1>2. PICK k \in 1 .. n : d = cats[k] /\ cats[k].devices > 0
                          /\ \A l \in k + 1 .. n : cats[l].devices > 0 => cats[l].name # cats[k].name
  BY DEF Logging!MadeOf
<1>3. ~(j < k)
  <2>1. j < k => k \in j + 1 .. n
    OBVIOUS
  <2> QED  BY <1>1, <1>2, <2>1
<1>4. ~(k < j)
  <2>1. k < j => j \in k + 1 .. n
    OBVIOUS
  <2> QED  BY <1>1, <1>2, <2>1
<1>5. j = k
  BY <1>3, <1>4
<1> QED  BY <1>1, <1>2, <1>5

\* The category that init() adds breaks nothing.
LEMMA DefaultWhole ==
  ASSUME NEW Categories, NEW doc \in Seq(Categories), Logging!IsWhole(doc)
  PROVE  Len(Logging!WithDefault(doc)) \in Nat /\ Logging!IsWhole(Logging!WithDefault(doc))
<1> DEFINE more == Append(doc, Logging!DefaultCategory)
<1>1. CASE Logging!WithDefault(doc) = doc
  BY <1>1
<1>2. CASE Logging!WithDefault(doc) = more
  <2>1. Len(more) = Len(doc) + 1 /\ Len(doc) \in Nat
    OBVIOUS
  <2>2. ASSUME NEW k \in 1 .. Len(more) PROVE ~more[k].broken
    <3>1. CASE k <= Len(doc)
      <4>1. more[k] = doc[k] /\ k \in 1 .. Len(doc)
        BY <2>1, <3>1
      <4> QED  BY <4>1 DEF Logging!IsWhole
    <3>2. CASE k = Len(doc) + 1
      <4>1. more[k] = Logging!DefaultCategory
        BY <3>2
      <4> QED  BY <4>1 DEF Logging!DefaultCategory
    <3> QED  BY <2>1, <3>1, <3>2
  <2> HIDE DEF more
  <2> QED  BY <1>2, <2>1, <2>2 DEF Logging!IsWhole
<1> QED  BY <1>1, <1>2 DEF Logging!WithDefault

\* What an init() that succeeds leaves
LEMMA InitStands ==
  ASSUME NEW Categories, NEW doc \in Seq(Categories), NEW stop, Logging!InitWith(doc, stop).ok
  PROVE  LET r == Logging!InitWith(doc, stop) IN
         /\ \E c \in r.made : c.name = Logging!DEFAULT_LOGGER
         /\ r.made = Logging!MadeOf(r.conf, Len(r.conf)) /\ Len(r.conf) \in Nat
         /\ Logging!IsWhole(r.conf)
<1> DEFINE cats == Logging!WithDefault(doc)
           made == Logging!MadeOf(cats, stop)
           r == Logging!InitWith(doc, stop)
           good == stop = Len(cats) /\ Logging!DEFAULT_LOGGER \in {c.name : c \in made}
<1>1. CASE ~Logging!IsWhole(doc)
  <2>1. r = [ok |-> FALSE, conf |-> Logging!Loaded(doc), made |-> {}]
    BY <1>1 DEF Logging!InitWith
  <2> QED  BY <2>1
<1>2. CASE Logging!IsWhole(doc)
  <2>1. r = [ok |-> good, conf |-> cats, made |-> made]
    BY <1>2 DEF Logging!InitWith
  <2>2. Len(cats) \in Nat /\ Logging!IsWhole(cats)
    BY <1>2, DefaultWhole
  <2> HIDE DEF cats, made
  <2>3. r.conf = cats /\ r.made = made
    BY <2>1
  <2>4. stop = Len(cats) /\ Logging!DEFAULT_LOGGER \in {c.name : c \in made}
    <3> HIDE DEF good
    <3>1. r.ok = good
      BY <2>1
    <3> QED  BY <3>1, Zenon DEF good
  <2>5. made = Logging!MadeOf(cats, Len(cats))
    BY <2>4 DEF made
  <2>6. \E c \in made : c.name = Logging!DEFAULT_LOGGER
    BY <2>4
  <2> HIDE DEF r
  <2>7. /\ \E c \in r.made : c.name = Logging!DEFAULT_LOGGER
        /\ r.made = Logging!MadeOf(r.conf, Len(r.conf)) /\ Len(r.conf) \in Nat
        /\ Logging!IsWhole(r.conf)
    BY <2>2, <2>3, <2>5, <2>6
  <2> QED  BY <2>7 DEF r
<1> QED  BY <1>1, <1>2

\* A configuration that was loaded is that of the file.
LEMMA ReadWhole ==
  ASSUME NEW file \in Logging!ConfFiles, Logging!Loadable(file)
  PROVE  Logging!Read(<<0, 0>>, file) = [k \in DOMAIN file |-> file[k].n]
<1>1. DOMAIN file = 1 .. 2 /\ file # <<>> /\ \A k \in 1 .. 2 : file[k].ok
  <2>1. \E x, y : file = <<x, y>>
    BY DEF Logging!ConfFiles, Logging!Loadable
  <2>2. DOMAIN file = 1 .. 2
    BY <2>1
  <2> QED  BY <2>2 DEF Logging!Loadable
<1>2. DOMAIN <<0, 0>> = 1 .. 2
  OBVIOUS
<1>3. \A k \in 1 .. 2 : \A j \in 1 .. k - 1 : file[j].ok
  BY <1>1
<1> QED  BY <1>1, <1>2, <1>3 DEF Logging!Read

\* start() and reload() leave loggers that stand.
LEMMA StartKeeps ==
  ASSUME NEW Categories, document \in Seq(Categories), Logging!IInv, Logging!start
  PROVE  Logging!IInv'
<1>1. /\ stage = "starting" /\ cfg = <<0, 0>> /\ document \in Seq(Categories)
      /\ proc_conf \in Logging!ConfFiles /\ UNCHANGED <<document, proc_conf>>
  BY DEF Logging!IInv, Logging!start
<1>2. PICK stop \in Logging!Stops(document) :
        LET r == Logging!InitWith(document, stop) IN
        /\ conf' = r.conf /\ loggers' = r.made /\ exact' = r.ok
        /\ cfg' = IF r.ok THEN Logging!Read(cfg, proc_conf) ELSE cfg
        /\ stage' = IF r.ok /\ Logging!Loadable(proc_conf) THEN "running" ELSE "failed"
  BY DEF Logging!start
<1> DEFINE r == Logging!InitWith(document, stop)
<1> HIDE DEF r
<1>3. ASSUME r.ok, Logging!Loadable(proc_conf) PROVE Logging!LoggersStand'
  <2>1. /\ \E c \in r.made : c.name = Logging!DEFAULT_LOGGER
        /\ r.made = Logging!MadeOf(r.conf, Len(r.conf)) /\ Len(r.conf) \in Nat
        /\ Logging!IsWhole(r.conf)
    BY <1>1, <1>3, InitStands DEF r
  <2>2. conf' = r.conf /\ loggers' = r.made
    BY <1>2 DEF r
  <2>3. cfg' = [k \in DOMAIN proc_conf |-> proc_conf[k].n]
    BY <1>1, <1>2, <1>3, ReadWhole DEF r
  <2>4. \A c \in loggers', d \in loggers' : c.name = d.name => c = d
    BY <2>1, <2>2, OneOfAName
  <2>5. Logging!Named(Logging!DEFAULT_LOGGER)' # {}
    BY <2>1, <2>2 DEF Logging!Named, Logging!DEFAULT_LOGGER
  <2>6. loggers' = Logging!MadeOf(conf, Len(conf))'
    BY <2>1, <2>2 DEF Logging!MadeOf
  <2>7. Logging!IsWhole(conf)'
    BY <2>1, <2>2 DEF Logging!IsWhole
  <2>8. \E file \in Logging!ConfFiles : Logging!Loadable(file) /\ cfg' = [k \in DOMAIN file |-> file[k].n]
    BY <1>1, <1>3, <2>3
  <2> QED  BY <2>4, <2>5, <2>6, <2>7, <2>8 DEF Logging!LoggersStand
<1>4. stage' \in {"running", "failed"} /\ (stage' = "running" => r.ok /\ Logging!Loadable(proc_conf))
  BY <1>2 DEF r
<1>5. stage' # "running" => Logging!LoggersStand'
  BY DEF Logging!LoggersStand
<1> QED  BY <1>1, <1>3, <1>4, <1>5 DEF Logging!IInv

LEMMA ReloadKeeps ==
  ASSUME NEW Categories, document \in Seq(Categories), Logging!IInv, Logging!reload
  PROVE  Logging!IInv'
<1>1. /\ stage = "running" /\ document \in Seq(Categories) /\ proc_conf \in Logging!ConfFiles
      /\ UNCHANGED <<document, proc_conf, stage>>
  BY DEF Logging!IInv, Logging!reload
<1>2. PICK stop \in Logging!Stops(document) :
        LET r == Logging!InitWith(document, stop) IN
        /\ conf' = IF r.ok THEN r.conf ELSE conf
        /\ loggers' = IF r.ok THEN r.made ELSE Logging!Restored(loggers, r.made)
        /\ exact' = r.ok
  BY DEF Logging!reload
<1> DEFINE r == Logging!InitWith(document, stop)
<1> HIDE DEF r
<1>3. /\ Logging!Named(Logging!DEFAULT_LOGGER) # {}
      /\ Logging!MadeOf(conf, Len(conf)) \subseteq loggers
      /\ \A c \in loggers, d \in loggers : c.name = d.name => c = d
      /\ Logging!IsWhole(conf)
      /\ \E file \in Logging!ConfFiles : Logging!Loadable(file) /\ cfg = [k \in DOMAIN file |-> file[k].n]
  BY <1>1 DEF Logging!IInv, Logging!LoggersStand
<1>4. \E file \in Logging!ConfFiles : Logging!Loadable(file) /\ cfg' = [k \in DOMAIN file |-> file[k].n]
  <2>1. CASE Logging!Loadable(proc_conf)
    <3>1. cfg' = [k \in DOMAIN proc_conf |-> proc_conf[k].n]
      BY <1>1, <2>1, ReadWhole DEF Logging!reload
    <3> QED  BY <1>1, <2>1, <3>1
  <2>2. CASE ~Logging!Loadable(proc_conf)
    BY <1>3, <2>2 DEF Logging!reload
  <2> QED  BY <2>1, <2>2
<1>5. CASE r.ok
  <2>1. /\ \E c \in r.made : c.name = Logging!DEFAULT_LOGGER
        /\ r.made = Logging!MadeOf(r.conf, Len(r.conf)) /\ Len(r.conf) \in Nat
        /\ Logging!IsWhole(r.conf)
    BY <1>1, <1>5, InitStands DEF r
  <2>2. conf' = r.conf /\ loggers' = r.made
    BY <1>2, <1>5 DEF r
  <2>4. \A c \in loggers', d \in loggers' : c.name = d.name => c = d
    BY <2>1, <2>2, OneOfAName
  <2>5. Logging!Named(Logging!DEFAULT_LOGGER)' # {}
    BY <2>1, <2>2 DEF Logging!Named, Logging!DEFAULT_LOGGER
  <2>6. loggers' = Logging!MadeOf(conf, Len(conf))'
    BY <2>1, <2>2 DEF Logging!MadeOf
  <2>7. Logging!IsWhole(conf)'
    BY <2>1, <2>2 DEF Logging!IsWhole
  <2>8. Logging!LoggersStand'
    BY <1>4, <2>4, <2>5, <2>6, <2>7 DEF Logging!LoggersStand
  <2> QED  BY <1>1, <2>8 DEF Logging!IInv
<1>6. CASE ~r.ok
  <2>1. conf' = conf /\ loggers' = Logging!Restored(loggers, r.made) /\ ~exact'
    BY <1>2, <1>6 DEF r
  <2>2. \A c \in r.made, d \in r.made : c.name = d.name => c = d
    <3>1. CASE Logging!IsWhole(document)
      <4>1. r.made = Logging!MadeOf(Logging!WithDefault(document), stop)
        BY <3>1 DEF r, Logging!InitWith
      <4>2. stop \in Nat
        <5>1. Len(Logging!WithDefault(document)) \in Nat
          BY <1>1, <3>1, DefaultWhole
        <5> QED  BY <3>1, <5>1 DEF Logging!Stops
      <4> QED  BY <4>1, <4>2, OneOfAName
    <3>2. CASE ~Logging!IsWhole(document)
      <4>1. r.made = {}
        BY <3>2 DEF r, Logging!InitWith
      <4> QED  BY <4>1
    <3> QED  BY <3>1, <3>2
  <2>3. loggers \subseteq loggers' /\ \A c \in loggers' : c \in loggers \/ (c \in r.made /\ \A d \in loggers : d.name # c.name)
    BY <2>1 DEF Logging!Restored
  <2>4. \A c \in loggers', d \in loggers' : c.name = d.name => c = d
    BY <1>3, <2>2, <2>3
  <2>5. Logging!Named(Logging!DEFAULT_LOGGER)' # {}
    BY <1>3, <2>3 DEF Logging!Named, Logging!DEFAULT_LOGGER
  <2>6. Logging!MadeOf(conf, Len(conf))' \subseteq loggers'
    BY <1>3, <2>1, <2>3 DEF Logging!MadeOf
  <2>7. Logging!IsWhole(conf)'
    BY <1>3, <2>1 DEF Logging!IsWhole
  <2>8. Logging!LoggersStand'
    BY <1>4, <2>1, <2>4, <2>5, <2>6, <2>7 DEF Logging!LoggersStand
  <2> QED  BY <1>1, <2>8 DEF Logging!IInv
<1> QED  BY <1>5, <1>6

\* While the process runs the configured loggers stand, and its configuration
\* is that of one whole file, whatever the reloads found and wherever they
\* failed: for any set of documents, each a sequence of categories.
THEOREM LoggersKept ==
  ASSUME NEW Categories, Documents \subseteq Seq(Categories)
  PROVE  Spec => []Logging!LoggersStand
<1> DEFINE none == [name |-> "", level |-> "", devices |-> 0, broken |-> TRUE]
           Any == Categories \cup {none}
<1>0. Documents \cup {Logging!Unreadable} \subseteq Seq(Any)
  <2> HIDE DEF none
  <2>1. <<none>> \in Seq(Any)
    OBVIOUS
  <2>2. Logging!Unreadable = <<none>>
    BY DEF Logging!Unreadable, none
  <2>3. ASSUME NEW doc \in Documents PROVE doc \in Seq(Any)
    <3>1. doc \in Seq(Categories)
      OBVIOUS
    <3> QED  BY <3>1
  <2> QED  BY <2>1, <2>2, <2>3
<1> HIDE DEF Any
<1>1. Logging!Init => Logging!IInv
  BY DEF Logging!Init, Logging!IInv, Logging!LoggersStand
<1>2. Logging!IInv /\ [Next]_vars => Logging!IInv'
  <2> SUFFICES ASSUME Logging!IInv, [Logging!Next]_loggerVars PROVE Logging!IInv'
    BY LoggersPart
  <2>0. ASSUME UNCHANGED <<conf, loggers, cfg, stage, exact>>,
               document' \in Documents \cup {Logging!Unreadable}, proc_conf' \in Logging!ConfFiles
        PROVE  Logging!IInv'
    <3>1. Logging!LoggersStand' <=> Logging!LoggersStand
      BY <2>0 DEF Logging!LoggersStand, Logging!Named, Logging!MadeOf, Logging!IsWhole
    <3> QED  BY <2>0, <3>1 DEF Logging!IInv
  <2>1. CASE UNCHANGED loggerVars
    BY <2>0, <2>1 DEF loggerVars, Logging!IInv
  <2>2. document \in Seq(Any)
    BY <1>0 DEF Logging!IInv
  <2>3. CASE Logging!start
    BY <2>2, <2>3, StartKeeps
  <2>4. CASE Logging!reload
    BY <2>2, <2>4, ReloadKeeps
  <2>5. ASSUME NEW doc \in Documents \cup {Logging!Unreadable}, NEW file \in Logging!ConfFiles,
               Logging!Edit(doc, file)
        PROVE  Logging!IInv'
    BY <2>0, <2>5 DEF Logging!Edit
  <2>6. ASSUME NEW n, NEW level, Logging!log(n, level) PROVE Logging!IInv'
    BY <2>0, <2>6 DEF Logging!log, Logging!IInv
  <2> QED  BY <2>1, <2>3, <2>4, <2>5, <2>6, Zenon DEF Logging!Next
<1>3. Logging!IInv => Logging!LoggersStand
  BY DEF Logging!IInv
<1> QED  BY <1>1, <1>2, <1>3, LoggersPart, PTL DEF Spec
==============================================================================
