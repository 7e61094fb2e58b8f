---------------------------- MODULE ShmLifecycle ----------------------------
(***************************************************************************)
(* The shared memory objects of a process (shm/shm.cpp, shm_mgr.cpp and    *)
(* shm_object.cpp): the manager, whose object holds the table of blocks,   *)
(* and the two blocks.  A step is a system call or a store into the table, *)
(* so that a process may fail, or die, between any two of them; the next   *)
(* process creates the memory or resumes what is there.                    *)
(***************************************************************************)
EXTENDS Integers

CONSTANTS
  MmapSize,     \* default_mmap_size_, in units of the grow sizes
  MaxRequest,   \* largest request to sbrk()
  MaxLives      \* processes

VARIABLES
  at,      \* where the process is
  object,  \* sizes of the objects
  named,   \* the manager is constructed and has its basename_
  ready,   \* size map, page heap and chunk cache are constructed
  block,   \* the table of blocks
  job,     \* the block worked at, the request for it, and whether on_create() makes it
  torn,    \* some process died in the middle of a change
  lives

table == <<named, ready, block>>
vars == <<at, object, table, job, torn, lives>>

Mgr == "mgr"
Meta == "metadata"
User == "userdata"
Blocks == {Meta, User}
Absent == -1
NoBlock == [addr |-> FALSE, used |-> 0, real |-> 0]
Fresh == [b \in Blocks |-> NoBlock]

Init ==
  /\ at = "down" /\ object = [o \in Blocks \cup {Mgr} |-> Absent]
  /\ named = FALSE /\ ready = FALSE /\ block = Fresh
  /\ job = [b |-> Meta, n |-> 0, init |-> FALSE] /\ torn = FALSE /\ lives = 0

Size(o, n) == object' = [object EXCEPT ![o] = n]
Unlink(o) == Size(o, Absent)
Goes(p, q) == at = p /\ at' = q
Same == UNCHANGED <<torn, lives>>
------------------------------------------------------------------------------
(* shm_init(), the memory being created *)

\* shm_object_create() of the manager: shm_open() with O_EXCL, ftruncate()
OpenMgr ==
  /\ at = "down" /\ lives < MaxLives /\ lives' = lives + 1
  /\ \/ object[Mgr] = Absent /\ at' = "size_mgr" /\ Size(Mgr, 0)
     \/ UNCHANGED <<at, object>>
  /\ UNCHANGED <<table, job, torn>>

SizeMgr ==
  /\ \/ Goes("size_mgr", "map_mgr") /\ Size(Mgr, 1)
     \/ Goes("size_mgr", "down") /\ Unlink(Mgr)
  /\ UNCHANGED <<table, job>> /\ Same

\* The new object's bytes are zero; then the constructor, on_create() and
\* create_block() of the metadata.
MapMgr ==
  /\ \/ Goes("map_mgr", "open_block") /\ named' = TRUE /\ UNCHANGED object
     \/ Goes("map_mgr", "down") /\ Unlink(Mgr) /\ UNCHANGED named
  /\ ready' = FALSE /\ block' = Fresh
  /\ job' = [b |-> Meta, n |-> 1, init |-> TRUE] /\ Same

\* What follows a create_block() that failed: on_create() and shm_init() fail
\* and the manager is unlinked, or sbrk() returns nullptr.
CreatedNot(objects) ==
  IF job.init
  THEN at' = "down" /\ object' = [objects EXCEPT ![Mgr] = Absent]
  ELSE at' = "idle" /\ object' = objects
------------------------------------------------------------------------------
(* create_block() and shm_object_create() *)

OpenBlock ==
  /\ at = "open_block"
  /\ \/ object[job.b] = Absent /\ at' = "size_block" /\ Size(job.b, 0)
     \/ CreatedNot(object)
  /\ UNCHANGED <<table, job>> /\ Same

\* Mutant: the object stays when its size cannot be set or it cannot be mapped.
FailedKeeps == CreatedNot(object)

\* The object that could not be given its size, or be mapped, is unlinked.
FailedUnlinks == CreatedNot([object EXCEPT ![job.b] = Absent])

SizeBlock ==
  /\ \/ Goes("size_block", "map_block") /\ Size(job.b, job.n)
     \/ at = "size_block" /\ FailedUnlinks
  /\ UNCHANGED <<table, job>> /\ Same

MapBlock ==
  /\ \/ Goes("map_block", "store_addr") /\ UNCHANGED object
     \/ at = "map_block" /\ FailedUnlinks
  /\ UNCHANGED <<table, job>> /\ Same

StoreAddr ==
  /\ Goes("store_addr", "store_sizes")
  /\ block' = [block EXCEPT ![job.b].addr = TRUE]
  /\ UNCHANGED <<object, named, ready, job>> /\ Same

StoreSizes ==
  /\ Goes("store_sizes", IF job.init THEN "construct" ELSE "take")
  /\ block' = [block EXCEPT ![job.b] = [addr |-> @.addr, used |-> 0, real |-> object[job.b]]]
  /\ UNCHANGED <<object, named, ready, job>> /\ Same

\* The rest of on_create().
Construct ==
  /\ Goes("construct", "idle")
  /\ ready' = TRUE /\ block' = [block EXCEPT ![Meta].used = 1]
  /\ UNCHANGED <<object, named, job>> /\ Same
------------------------------------------------------------------------------
(* sbrk() *)

Room(b) == block[b].real - block[b].used

\* A process that resumed a torn memory without its structures cannot get here.
sbrk(b, n) ==
  /\ at = "idle" /\ ready
  /\ at' = IF ~block[b].addr THEN "open_block" ELSE IF Room(b) < n THEN "resize" ELSE "take"
  /\ job' = [b |-> b, n |-> n, init |-> FALSE]
  /\ UNCHANGED <<object, table>> /\ Same

NewSize == block[job.b].used + job.n

\* resize_block(), up to ftruncate(): the size is refused, or cannot be set.
Resize ==
  /\ at = "resize"
  /\ \/ at' = "idle" /\ UNCHANGED object
     \/ NewSize <= MmapSize /\ at' = "store_real" /\ Size(job.b, NewSize)
  /\ UNCHANGED <<table, job>> /\ Same

StoreReal ==
  /\ Goes("store_real", "take")
  /\ block' = [block EXCEPT ![job.b].real = object[job.b]]
  /\ UNCHANGED <<object, named, ready, job>> /\ Same

\* The assertion at the end of sbrk(), and the bytes taken.
Take ==
  /\ Goes("take", IF block[job.b].addr /\ Room(job.b) >= job.n THEN "idle" ELSE "aborted")
  /\ block' = [block EXCEPT ![job.b].used = @ + job.n]
  /\ UNCHANGED <<object, named, ready, job>> /\ Same
------------------------------------------------------------------------------
(* Resume, the end of a process and its death *)

\* attach_block(): a block that has no address is skipped.
AttachBlock(b) == block[b].addr => object[b] # Absent /\ object[b] = block[b].real

\* shm_init() in resume mode: an object of size 0 cannot be mapped, and a
\* mapping may fail; nothing is undone.
Resume ==
  /\ at = "down" /\ lives < MaxLives /\ lives' = lives + 1
  /\ \/ UNCHANGED at
     \/ object[Mgr] > 0 /\ named /\ (\A b \in Blocks : AttachBlock(b)) /\ at' = "idle"
  /\ UNCHANGED <<object, table, job, torn>>

\* shm_fini(): the destructor of the manager, then delete_block() of each block
Fini ==
  /\ Goes("idle", "clear_block")
  /\ ready' = FALSE /\ job' = [b |-> Meta, n |-> 0, init |-> FALSE]
  /\ UNCHANGED <<object, named, block>> /\ Same

AfterBlock == IF job.b = Meta THEN "clear_block" ELSE "unlink_mgr"

ClearBlock ==
  /\ at = "clear_block"
  /\ IF block[job.b].addr
     THEN at' = "unlink_block" /\ UNCHANGED job
     ELSE at' = AfterBlock /\ job' = [job EXCEPT !.b = User]
  /\ block' = [block EXCEPT ![job.b] = NoBlock]
  /\ UNCHANGED <<object, named, ready>> /\ Same

UnlinkBlock ==
  /\ Goes("unlink_block", AfterBlock)
  /\ Unlink(job.b) /\ job' = [job EXCEPT !.b = User]
  /\ UNCHANGED table /\ Same

UnlinkMgr ==
  /\ Goes("unlink_mgr", "down") /\ Unlink(Mgr)
  /\ UNCHANGED <<table, job>> /\ Same

\* Places where nothing has been changed, or everything has.
Between == {"idle", "resize", "take", "aborted"}

\* The process dies.
Die ==
  /\ at # "down" /\ at' = "down"
  /\ torn' = (torn \/ ~(at \in Between \/ (at = "open_block" /\ ~job.init)))
  /\ UNCHANGED <<object, table, job, lives>>

Next ==
  \/ OpenMgr \/ SizeMgr \/ MapMgr \/ OpenBlock \/ SizeBlock \/ MapBlock
  \/ StoreAddr \/ StoreSizes \/ Construct
  \/ (\E b \in Blocks, n \in 1 .. MaxRequest : sbrk(b, n)) \/ Resize \/ StoreReal \/ Take
  \/ Resume \/ Fini \/ ClearBlock \/ UnlinkBlock \/ UnlinkMgr \/ Die

Spec == Init /\ [][Next]_vars
------------------------------------------------------------------------------
Nothing == \A o \in DOMAIN object : object[o] = Absent

Intact(b) ==
  IF block[b].addr
  THEN object[b] = block[b].real /\ block[b].used <= block[b].real /\ object[b] <= MmapSize
  ELSE object[b] = Absent

Whole ==
  /\ object[Mgr] > 0 /\ named /\ ready /\ block[Meta].addr
  /\ \A b \in Blocks : Intact(b)

\* Unless a process died between two steps of one change, the memory it
\* leaves can be created anew or be resumed, with the blocks as the table has
\* them, whichever system calls of whichever operations failed, and a process
\* that runs has such a memory.
MemoryIsUsable ==
  ~torn => /\ at = "down" => Nothing \/ Whole
           /\ at \in Between => Whole /\ at # "aborted"
------------------------------------------------------------------------------
(* The proof of MemoryIsUsable, for any sizes and any number of processes *)

Entry == [addr : BOOLEAN, used : Int, real : Int]

Types ==
  /\ object \in [Blocks \cup {Mgr} -> Int]
  /\ named \in BOOLEAN /\ ready \in BOOLEAN /\ torn \in BOOLEAN
  /\ block \in [Blocks -> Entry]
  /\ job \in [b : Blocks, n : Nat, init : BOOLEAN]

\* Between create_block() and the table's entry for the new block.
Making == {"open_block", "size_block", "map_block", "store_addr", "store_sizes"}

\* What else there is while a block is made: in on_create() nothing but the
\* manager, in sbrk() all but the block.
Around ==
  /\ at \in Making /\ job.init =>
       /\ object[Mgr] = 1 /\ named /\ job.b = Meta /\ job.n = 1
       /\ object[User] = Absent /\ ~block[User].addr
  /\ at \in Making /\ ~job.init =>
       /\ object[Mgr] > 0 /\ named /\ ready /\ block[Meta].addr /\ Intact(Meta)
       /\ job.b = User /\ job.n <= MmapSize

\* How far the manager or the block has got.
Progress ==
  /\ at \in {"size_mgr", "map_mgr"} => \A b \in Blocks : object[b] = Absent
  /\ at = "map_mgr" => object[Mgr] = 1
  /\ at \in Making => (block[job.b].addr <=> at = "store_sizes")
  /\ at = "open_block" => object[job.b] = Absent
  /\ at \in {"map_block", "store_addr", "store_sizes"} => object[job.b] = job.n
  /\ at = "construct" =>
       /\ object[Mgr] = 1 /\ named /\ object[User] = Absent /\ ~block[User].addr
       /\ object[Meta] = 1 /\ block[Meta] = [addr |-> TRUE, used |-> 0, real |-> 1]

\* sbrk() works at a block that has an address; one that has been resized is
\* not as the table says until the table says so.
Growing ==
  /\ at = "resize" => block[job.b].addr
  /\ at = "take" => block[job.b].addr /\ Room(job.b) >= job.n
  /\ at = "store_real" =>
       /\ object[Mgr] > 0 /\ named /\ ready /\ block[Meta].addr /\ block[job.b].addr
       /\ \A b \in Blocks \ {job.b} : Intact(b)
       /\ object[job.b] = NewSize /\ NewSize <= MmapSize

\* Of the blocks fini() has been at nothing is left.
Removing ==
  /\ at \in {"clear_block", "unlink_block"} =>
       /\ job.b = User => object[Meta] = Absent
       /\ job.b = Meta => (~block[User].addr => object[User] = Absent)
  /\ at = "clear_block" => (~block[job.b].addr => object[job.b] = Absent)
  /\ at = "unlink_mgr" => \A b \in Blocks : object[b] = Absent

\* The inductive invariant.
IInv == Types /\ (~torn => Around /\ Progress /\ Growing /\ Removing /\ MemoryIsUsable)
=============================================================================
