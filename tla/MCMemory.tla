------------------------------ MODULE MCMemory ------------------------------
(***************************************************************************)
(* Shared memory: the page heap used by itself, the allocator on top of    *)
(* it, and the containers, side by side.  A behaviour is a sequence of     *)
(* calls of the one that kind names.                                       *)
(***************************************************************************)
EXTENDS MCShmAlloc

VARIABLES kind, box, ref   \* as in MCContainers, where box is c

Containers == INSTANCE MCContainers WITH c <- box

MemoryInit ==
  /\ AllocInit
  /\ \/ kind \in {"heap", "alloc"} /\ box = <<>> /\ ref = <<>>
     \/ Containers!Init

MemoryNext ==
  \/ kind = "heap" /\ Next /\ UNCHANGED <<allocVars, kind, box, ref>>
  \/ kind = "alloc" /\ AllocNext /\ UNCHANGED <<kind, box, ref>>
  \/ Containers!Next /\ UNCHANGED <<vars, allocVars>>

MemorySpec == MemoryInit /\ [][MemoryNext]_<<vars, allocVars, kind, box, ref>>
-----------------------------------------------------------------------------
\* The red-black tree is balanced, ordered and complete (TreeSound of RBTree).
TreeIsSound == Containers!TreeIsSound

\* Each other container holds what it should after any sequence of calls, with
\* its links, free lists and counts (ContainersAreSound of MCContainers).
ContainersAreSound == Containers!ContainersAreSound
=============================================================================
