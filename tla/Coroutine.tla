------------------------------ MODULE Coroutine ------------------------------
(***************************************************************************)
(* The coroutine scheduler (coroutine/detail/coroutine_mgr.cpp).  schedule *)
(* runs the coroutines of the queue runnable_ one after the other, and,    *)
(* when it is empty, the event loop, which is a coroutine itself.  The     *)
(* loop gives up control in the middle of a timer's callback.  Each has    *)
(* a stack of its own, with or without guard pages.                        *)
(***************************************************************************)
EXTENDS Integers, Sequences, SequencesExt, FiniteSets

CONSTANTS
  Coroutines,
  Started,    \* the ones created before schedule() is called, in this order
  Protected,  \* the ones whose stack has guard pages
  Budget      \* how often a coroutine yields, sleeps or creates another

VARIABLES
  runnable,
  sleeping,   \* coroutines with an active timer
  state,      \* of each coroutine; "none": not created
  current,
  uv,         \* the loop: "loop", "callback" (in a timer's callback) or "done"
  closing,    \* timers closed and not yet deleted
  left,       \* what is left of a coroutine's budget
  stacks      \* coroutines for whose stack there is memory

vars == <<runnable, sleeping, state, current, uv, closing, left, stacks>>

Nobody == "nobody"
Uv == "uv"
Becomes(c, s) == state' = [state EXCEPT ![c] = s]
Spend(c) == left[c] > 0 /\ left' = [left EXCEPT ![c] = @ - 1]

Init ==
  /\ runnable = Started
  /\ sleeping = {} /\ closing = {}
  /\ state = [c \in Coroutines |-> IF c \in ToSet(Started) THEN "runnable" ELSE "none"]
  /\ current = Nobody /\ uv = "loop"
  /\ left = [c \in Coroutines |-> Budget]
  /\ stacks = ToSet(Started)

\* schedule(): the next coroutine, or the loop.
ScheduleNext ==
  /\ current = Nobody /\ runnable # <<>> /\ uv # "done"
  /\ runnable' = Tail(runnable) /\ current' = Head(runnable)
  /\ Becomes(Head(runnable), "running")
  /\ UNCHANGED <<sleeping, uv, closing, left, stacks>>

ScheduleUv ==
  /\ current = Nobody /\ runnable = <<>> /\ uv # "done"
  /\ current' = Uv
  /\ UNCHANGED <<runnable, sleeping, state, uv, closing, left, stacks>>

\* yield(), in a running coroutine
yield(c) ==
  /\ current = c /\ Spend(c)
  /\ Becomes(c, "runnable") /\ runnable' = Append(runnable, c) /\ current' = Nobody
  /\ UNCHANGED <<sleeping, uv, closing, stacks>>

sleep(c) ==
  /\ current = c /\ Spend(c)
  /\ Becomes(c, "sleeping") /\ sleeping' = sleeping \cup {c} /\ current' = Nobody
  /\ UNCHANGED <<runnable, uv, closing, stacks>>

\* How coroutine::init() may end: without memory, without guard pages, or
\* without a context.
InitResults(c) == {"ok", "no_memory", "no_context"} \cup IF c \in Protected THEN {"no_guard"} ELSE {}

\* The memory afterwards; it is unmapped when it cannot be protected.
Prepared(held, c, result) == IF result \in {"ok", "no_context"} THEN held \cup {c} ELSE held

\* ~coroutine(): the stack is given back, once more if init() has done so.
Destroyed(held, c) == held \ {c}

\* create(): what cannot be initialised is deleted again.
create(c, d) ==
  /\ current = c /\ Spend(c) /\ state[d] = "none"
  /\ \E result \in InitResults(d) :
       IF result = "ok"
       THEN Becomes(d, "runnable") /\ runnable' = Append(runnable, d) /\ stacks' = Prepared(stacks, d, result)
       ELSE UNCHANGED <<state, runnable>> /\ stacks' = Destroyed(Prepared(stacks, d, result), d)
  /\ UNCHANGED <<sleeping, current, uv, closing>>

\* context_main: the function has returned; schedule() deletes the coroutine.
finish(c) ==
  /\ current = c
  /\ Becomes(c, "done") /\ current' = Nobody /\ stacks' = Destroyed(stacks, c)
  /\ UNCHANGED <<runnable, sleeping, uv, closing, left>>

\* Mutant: the coroutine woken up is not queued.
WakeUnqueued(c) == Becomes(c, "runnable") /\ UNCHANGED runnable

\* Mutant: the coroutine woken up keeps its entry among the sleeping.
Forget(c) == UNCHANGED sleeping

Wake(c) == Becomes(c, "runnable") /\ runnable' = Append(runnable, c)
Erase(c) == sleeping' = sleeping \ {c}

\* The callback of sleep()'s timer, up to its yield.
TimerFires(c) ==
  /\ current = Uv /\ uv = "loop" /\ c \in sleeping
  /\ Wake(c) /\ Erase(c)
  /\ uv' = "callback" /\ closing' = closing \cup {c} /\ current' = Nobody
  /\ UNCHANGED <<left, stacks>>

\* The rest of the callback: the timer is closed.
TimerCloses ==
  /\ current = Uv /\ uv = "callback"
  /\ uv' = "loop"
  /\ UNCHANGED <<runnable, sleeping, state, current, closing, left, stacks>>

\* The loop calls the close callbacks, which delete the timers.
TimersDeleted ==
  /\ current = Uv /\ uv = "loop" /\ closing # {}
  /\ closing' = {}
  /\ UNCHANGED <<runnable, sleeping, state, current, uv, left, stacks>>

\* uv_run() returns when there is nothing left to wait for, and so does schedule().
UvReturns ==
  /\ current = Uv /\ uv = "loop" /\ sleeping = {} /\ closing = {}
  /\ uv' = "done" /\ current' = Nobody
  /\ UNCHANGED <<runnable, sleeping, state, closing, left, stacks>>

Next ==
  \/ ScheduleNext \/ ScheduleUv
  \/ \E c \in Coroutines :
       yield(c) \/ sleep(c) \/ finish(c) \/ TimerFires(c) \/ \E d \in Coroutines : create(c, d)
  \/ TimerCloses \/ TimersDeleted \/ UvReturns

Spec == Init /\ [][Next]_vars
------------------------------------------------------------------------------
\* Nothing is in a queue twice.
Once(seq) == \A i, j \in DOMAIN seq : seq[i] = seq[j] => i = j

\* A coroutine that is not done is in one place, the one its state says: it
\* runs, or is queued once, or has a timer.  It has a stack as long, and one
\* that could not be created has none.  schedule() returns only when all are
\* done.
CoroutinesKept ==
  /\ \A c \in Coroutines :
       /\ current = c <=> state[c] = "running"
       /\ c \in ToSet(runnable) <=> state[c] = "runnable"
       /\ c \in sleeping <=> state[c] = "sleeping"
       /\ c \in stacks <=> state[c] \notin {"none", "done"}
  /\ Once(runnable)
  /\ uv = "done" => \A c \in Coroutines : state[c] \in {"none", "done"}

\* Every coroutine that was created ends, although the loop, and with it the
\* timers, runs only when no coroutine can.
CoroutinesEnd == \A c \in Coroutines : state[c] # "none" ~> state[c] = "done"
------------------------------------------------------------------------------
(* The inductive invariant of which CoroutinesKept is a part *)

Types ==
  /\ runnable \in Seq(Coroutines)
  /\ state \in [Coroutines -> {"none", "runnable", "running", "sleeping", "done"}]
  /\ current \in Coroutines \cup {Nobody, Uv}

\* The loop runs only while no coroutine can, and not after it has returned.
LoopLast ==
  /\ current = Uv => runnable = <<>>
  /\ uv = "done" => current = Nobody

IInv == Types /\ LoopLast /\ CoroutinesKept
==============================================================================
