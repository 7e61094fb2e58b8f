------------------------------ MODULE ShmTimer ------------------------------
(***************************************************************************)
(* The timers in shared memory (time/shm_timer): a wheel of five vectors   *)
(* of lists.  A timer that is due soon lies in the list of its tick in the *)
(* first vector; one that is due later lies in a coarser list of a later   *)
(* vector and is moved down (cascade) when the wheel comes round.          *)
(*                                                                         *)
(* There is one thread, and callbacks are run in the middle of a tick:     *)
(* they start and stop timers, their own as well, while run_timer() is     *)
(* half-way through a list.  The wheel outlives the process; a process     *)
(* that dies in a callback comes back to a timer that is still "running".  *)
(*                                                                         *)
(* Lists are sequences, first timer first.  The memory of a timer is an    *)
(* element of Timer; it is reused once the timer was destructed.           *)
(***************************************************************************)
EXTENDS Integers, Sequences, SequencesExt

CONSTANTS
  Timer,              \* memory for timers
  TVR_SIZE, TVN_SIZE, \* lists of the first vector, and of each of the others
  TIMER_PRECISION_MS, \* milliseconds of a tick
  Kinds,              \* timers started: [timeout, repeat (ms), count]
  MaxTick,            \* last reading of the clock, in ticks
  MaxJump,            \* ticks that pass at most between two readings of the clock
  MaxStart,           \* timers started
  MaxCrash            \* callbacks the process dies in

REPEAT_FOREVER == -1
Nobody == "nobody"

ASSUME TimerAssumption ==
  /\ {TVR_SIZE, TVN_SIZE} \subseteq Nat \ {0, 1}
  /\ TIMER_PRECISION_MS \in Nat \ {0}
  /\ Nobody \notin Timer
  /\ {MaxTick, MaxJump, MaxStart, MaxCrash} \subseteq Nat
  /\ \A k \in Kinds : /\ k.timeout \in Nat /\ k.repeat \in Nat
                      /\ k.count \in Nat \ {0} \/ k.count = REPEAT_FOREVER

VARIABLES
  timers,       \* memory -> the timer there
  wheel,        \* tv1_ .. tv5_: <<vector, index>> -> list
  current_tick, \* current_tick_
  pc,           \* where the thread is in update()
  level,        \* the vector run_timer() is cascading
  cur,          \* the timer whose callback is being run
  todo,         \* ticks that update() still has to run before it reads the clock
  starts,       \* timers started so far
  crashes,      \* crashes so far
  failed        \* some assertion failed

vars == <<timers, wheel, current_tick, pc, level, cur, todo, starts, crashes, failed>>

Vector == 1 .. 5
Size(l) == IF l = 1 THEN TVR_SIZE ELSE TVN_SIZE
Slot == {s \in Vector \X (0 .. TVR_SIZE + TVN_SIZE) : s[2] < Size(s[1])}

\* Memory without a timer.
Free == [expires |-> 0, interval |-> 0, repeats |-> 0, running |-> FALSE, live |-> FALSE]

TimerState == [expires : Nat, interval : Nat, repeats : Nat \cup {REPEAT_FOREVER},
               running : BOOLEAN, live : BOOLEAN]

Repeats(t) == timers[t].repeats > 0 \/ timers[t].repeats = REPEAT_FOREVER

-----------------------------------------------------------------------------
(* Ticks and lists *)

ms2tick(ms) == ms \div TIMER_PRECISION_MS

TV1_MAX == TVR_SIZE
TV2_MAX == TV1_MAX * TVN_SIZE
TV3_MAX == TV2_MAX * TVN_SIZE
TV4_MAX == TV3_MAX * TVN_SIZE
MaxInterval == TV4_MAX * TVN_SIZE - 1

\* The number of ticks that share a list, in each vector.
Share == <<1, TV1_MAX, TV2_MAX, TV3_MAX, TV4_MAX>>

\* TV1_IDX .. TV5_IDX
TvIdx(l, tick) == (tick \div Share[l]) % Size(l)

\* Mutant: <= for < in the comparisons of search_list.
VectorOfLoose(delta) ==
  CHOOSE l \in Vector : (l > 1 => Share[l] < delta) /\ (l < 5 => delta <= Share[l + 1])

\* The vector for a timer that is due in delta ticks.
VectorOf(delta) ==
  CHOOSE l \in Vector : (l > 1 => Share[l] <= delta) /\ (l < 5 => delta < Share[l + 1])

\* Mutant: the largest interval is not enforced.
Unclamped(expires) == expires

\* A timer beyond the reach of the wheel is filed as far out as possible; its
\* expires_ stays, and the list is searched anew when it comes round.
Filed(expires) ==
  IF expires - current_tick > MaxInterval THEN MaxInterval + current_tick ELSE expires

search_list(expires) ==
  LET l == VectorOf(expires - current_tick)
  IN <<l, TvIdx(l, IF l = 5 THEN Filed(expires) ELSE expires)>>

\* A list without timer t, which is in it once at most.
Without(list, t) ==
  IF t \in ToSet(list) THEN RemoveAt(list, CHOOSE i \in DOMAIN list : list[i] = t) ELSE list

\* timer_list_append, timer_list_remove
Appended(w, s, t) == [w EXCEPT ![s] = Append(@, t)]
Removed(w, t) == [s \in Slot |-> Without(w[s], t)]

Linked(w, t) == \E s \in Slot : t \in ToSet(w[s])

\* What the assertions of search_list and timer_list_append ask before timer t,
\* due at tick e, is put into a list of w.
MayAdd(w, t, e) == e >= current_tick /\ ~Linked(w, t)

-----------------------------------------------------------------------------
(* Users: outside of update() or in a callback *)

UserRuns == pc \in {"idle", "call"}

\* shm_timer::start.  The callback of the timer is registered, and there is
\* memory: without it the process aborts.
Start(t, k) ==
  LET e == current_tick + ms2tick(k.timeout)
  IN /\ UserRuns
     /\ starts < MaxStart
     /\ ~timers[t].live
     /\ timers' = [timers EXCEPT ![t] =
                     [expires |-> e, interval |-> ms2tick(k.repeat), repeats |-> k.count,
                      running |-> FALSE, live |-> TRUE]]
     /\ wheel' = Appended(wheel, search_list(e), t)
     /\ failed' = (failed \/ ~MayAdd(wheel, t, e))
     /\ starts' = starts + 1
     /\ UNCHANGED <<current_tick, pc, level, cur, todo, crashes>>

\* What destruct() leaves of timer t after it was taken from its list.
Destructed(t) == [timers EXCEPT ![t] = Free]

\* stop() on a timer that is "running" leaves it to run_timer().
StopRunning(t) ==
  /\ timers' = [timers EXCEPT ![t].repeats = 0]
  /\ UNCHANGED wheel

StopAtOnce(t) == timers' = Destructed(t) /\ wheel' = Removed(wheel, t)

\* shm_timer::stop, on a timer that neither finished nor was stopped before:
\* the caller may not use it after that.
Stop(t) ==
  /\ UserRuns
  /\ timers[t].live /\ Repeats(t)
  /\ IF timers[t].running THEN StopRunning(t) ELSE StopAtOnce(t)
  /\ UNCHANGED <<current_tick, pc, level, cur, todo, starts, crashes, failed>>

-----------------------------------------------------------------------------
(* shm_timer_mgr::update *)

\* The clock may have been set back.
outdated_tick_count(real) == IF real >= current_tick THEN real - current_tick ELSE 0

\* run_timer(): lists are cascaded first when the first vector comes round.
RunTimer(tick) == IF TvIdx(1, tick) = 0 THEN "cascade" ELSE "run"

\* The tick timer of the event loop calls update(), which reads the clock, runs
\* the ticks that passed and reads the clock again, until it has caught up.
ReadClock(real) ==
  /\ pc \in {"idle", "clock"}
  /\ real <= MaxTick
  /\ todo' = outdated_tick_count(real)
  /\ pc' = IF todo' > 0 THEN RunTimer(current_tick) ELSE "idle"
  /\ UNCHANGED <<timers, wheel, current_tick, level, cur, starts, crashes, failed>>

\* The list of vector l that the wheel has reached.
Reached(l) == <<l, TvIdx(l, current_tick)>>

\* cascade(): the first timer of the list moves to the one it now belongs to.
\* If it went back to where it comes from, it would be moved for ever.
MoveDown ==
  LET t == Head(wheel[Reached(level)])
      w == Removed(wheel, t)
      e == timers[t].expires
  IN /\ pc = "cascade"
     /\ wheel[Reached(level)] # <<>>
     /\ wheel' = Appended(w, search_list(e), t)
     /\ failed' = (failed \/ ~MayAdd(w, t, e) \/ search_list(e) = Reached(level))
     /\ UNCHANGED <<timers, current_tick, pc, level, cur, todo, starts, crashes>>

\* The list is empty: the next vector, if it comes round as well.
NextVector ==
  /\ pc = "cascade"
  /\ wheel[Reached(level)] = <<>>
  /\ IF level < 5 /\ TvIdx(level, current_tick) = 0
     THEN level' = level + 1 /\ UNCHANGED pc
     ELSE level' = 2 /\ pc' = "run"
  /\ UNCHANGED <<timers, wheel, current_tick, cur, todo, starts, crashes, failed>>

\* The list of the current tick.
Due == wheel[Reached(1)]

\* A timer without repetitions left: it was stopped in a callback that the
\* process did not survive.  It is not called again.
Discard ==
  /\ pc = "run"
  /\ Due # <<>>
  /\ ~Repeats(Head(Due))
  /\ timers' = Destructed(Head(Due))
  /\ wheel' = Removed(wheel, Head(Due))
  /\ UNCHANGED <<current_tick, pc, level, cur, todo, starts, crashes, failed>>

\* The callback of the first timer is called, also if it was "running" already.
Call ==
  /\ pc = "run"
  /\ Due # <<>>
  /\ Repeats(Head(Due))
  /\ timers' = [timers EXCEPT ![Head(Due)].running = TRUE]
  /\ cur' = Head(Due)
  /\ pc' = "call"
  /\ UNCHANGED <<wheel, current_tick, level, todo, starts, crashes, failed>>

\* One repetition fewer, unless there is no limit or none left.
Left(n) == IF n > 0 THEN n - 1 ELSE n

\* Mutant: the time of the next call is not set.
RefreshCountOnly(s) == [s EXCEPT !.repeats = Left(s.repeats)]

\* shm_timer::refresh
refresh(s) ==
  LET n == Left(s.repeats)
  IN [s EXCEPT !.repeats = n,
               !.expires = IF n # 0 THEN current_tick + s.interval ELSE @]

\* The callback returns: the timer is filed again, or it is finished.
Return ==
  LET s == refresh([timers[cur] EXCEPT !.running = FALSE])
      w == Removed(wheel, cur)
  IN /\ pc = "call"
     /\ IF s.repeats # 0
        THEN /\ timers' = [timers EXCEPT ![cur] = s]
             /\ wheel' = Appended(w, search_list(s.expires), cur)
             /\ failed' = (failed \/ ~MayAdd(w, cur, s.expires))
        ELSE /\ timers' = Destructed(cur)
             /\ wheel' = w
             /\ UNCHANGED failed
     /\ pc' = "run" /\ cur' = Nobody
     /\ UNCHANGED <<current_tick, level, todo, starts, crashes>>

\* run_timer() returns when the list is empty.
EndTick ==
  /\ pc = "run"
  /\ Due = <<>>
  /\ current_tick' = current_tick + 1
  /\ todo' = todo - 1
  /\ pc' = IF todo' > 0 THEN RunTimer(current_tick') ELSE "clock"
  /\ UNCHANGED <<timers, wheel, level, cur, starts, crashes, failed>>

\* The process dies in a callback; what is in shared memory stays as it is, in
\* the middle of the tick.
Crash ==
  /\ pc = "call"
  /\ crashes < MaxCrash
  /\ crashes' = crashes + 1
  /\ pc' = "down" /\ cur' = Nobody /\ todo' = 0
  /\ UNCHANGED <<timers, wheel, current_tick, level, starts, failed>>

\* The next process finds the manager in shared memory.  init() assigns to
\* tick_timer_, which deletes the heap timer of the dead process through a
\* pointer that means nothing in this one: a process that does not survive
\* this leaves everything as it was.
Restart ==
  /\ pc = "down"
  /\ pc' = "idle"
  /\ UNCHANGED <<timers, wheel, current_tick, level, cur, todo, starts, crashes, failed>>

-----------------------------------------------------------------------------
Init ==
  /\ timers = [t \in Timer |-> Free]
  /\ wheel = [s \in Slot |-> <<>>]
  /\ current_tick = 0
  /\ pc = "idle" /\ level = 2 /\ cur = Nobody /\ todo = 0
  /\ starts = 0 /\ crashes = 0
  /\ failed = FALSE

InTick == MoveDown \/ NextVector \/ Discard \/ Call \/ Return \/ EndTick

Next ==
  \/ \E t \in Timer : (\E k \in Kinds : Start(t, k)) \/ Stop(t)
  \/ \E real \in current_tick - 1 .. current_tick + MaxJump : ReadClock(real)
  \/ InTick
  \/ Crash
  \/ Restart

\* The thread goes on within a tick, and callbacks return.
Spec == Init /\ [][Next]_vars /\ WF_vars(InTick)

-----------------------------------------------------------------------------
(* Properties *)

\* Timers, lists and the place in update() are of their types, a timer is in
\* one place of one list at most, and in a list exactly if its memory is in use.
TypeOK ==
  /\ timers \in [Timer -> TimerState]
  /\ wheel \in [Slot -> Seq(Timer)]
  /\ current_tick \in Nat /\ todo \in 0 .. MaxJump
  /\ pc \in {"idle", "clock", "cascade", "run", "call", "down"} /\ level \in 2 .. 5
  /\ cur \in Timer \cup {Nobody} /\ (pc = "call") = (cur # Nobody)
  /\ starts \in 0 .. MaxStart /\ crashes \in 0 .. MaxCrash
  /\ \A s \in Slot : IsInjective(wheel[s])
  /\ \A s, r \in Slot : s # r => ToSet(wheel[s]) \cap ToSet(wheel[r]) = {}
  /\ \A t \in Timer : timers[t].live <=> Linked(wheel, t)

\* No assertion of shm_timer.cpp fails: no timer is filed in the past
\* (search_list), none is put into two lists (timer_list_append), and cascade()
\* never moves a timer back to the list it comes from.  The lists and timers
\* agree (TypeOK).
NoAssertionFails == TypeOK /\ ~failed

\* What the users of the timers see of the wheel.
PlanOf(x) ==
  IF x.repeats # 0
  THEN [due |-> x.expires, period |-> x.interval, left |-> x.repeats]
  ELSE [due |-> 0, period |-> 0, left |-> 0]
Plan == [t \in Timer |-> PlanOf(timers[t])]

Service == INSTANCE TimerDue WITH
  Client <- Timer, Nobody <- Nobody, tick <- current_tick, busy <- cur, plan <- Plan

\* However far ahead a timer is filed, and whatever cascades, callbacks and
\* crashes do to the lists, it is called at its tick, period after period, no
\* tick passes without it, and never after stop().  This is what the code
\* does: a timer whose callback crashed is called again, in the same tick
\* (see IllTimerRemoved).
ImplementsTimers == Service!Spec

\* What the comment in run_timer() says of a timer that is "running" before its
\* callback is called: the process crashed in it last time, "so, just remove
\* the "ill" timer".  No callback is called of a timer found "running".
IllTimerRemoved == [][cur' # cur /\ cur' # Nobody => ~timers[cur'].running]_vars

\* update() catches up, whatever its callbacks start and stop: cascade() and
\* run_timer() do not meet the timers they file again for ever.
\* (An endless timer with a repeat time below one tick would make run_timer do
\* so; the property is about Kinds without one.)
TickEnds == (pc \in {"cascade", "run", "call"}) ~> (pc \in {"clock", "down"})
-----------------------------------------------------------------------------
\* The timers of the run.  With lists of two the wheel comes round after 32
\* ticks of two milliseconds: one timer is due at once and filed in the first
\* vector, two cascade, one is beyond the reach of the wheel, and odd times are
\* rounded.
MCKinds == {[timeout |-> 1, repeat |-> 0, count |-> 2], [timeout |-> 3, repeat |-> 5, count |-> REPEAT_FOREVER],
            [timeout |-> 19, repeat |-> 11, count |-> 2], [timeout |-> 67, repeat |-> 0, count |-> 1]}
=============================================================================
