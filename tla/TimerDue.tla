------------------------------ MODULE TimerDue ------------------------------
(***************************************************************************)
(* What a timer service promises: a timer is called at the tick it is due, *)
(* then once every period until its calls are used up or it is cancelled,  *)
(* and no tick passes while somebody is due in it.  A call that a crash    *)
(* interrupts is made again.                                               *)
(***************************************************************************)
EXTENDS Integers

CONSTANTS
  Client,  \* those who may be called
  Nobody

VARIABLES
  tick,  \* now
  plan,  \* Client -> when it is called, how often and how many times
  busy   \* the client being called

vars == <<tick, plan, busy>>

NoPlan == [due |-> 0, period |-> 0, left |-> 0]
Planned(c) == plan[c].left # 0   \* negative: no limit

Init == tick = 0 /\ plan = [c \in Client |-> NoPlan] /\ busy = Nobody

\* Somebody asks to be called, now at the earliest.
Ask(c) ==
  /\ ~Planned(c) /\ c # busy
  /\ plan'[c].due >= tick /\ plan'[c].left # 0
  /\ plan' = [plan EXCEPT ![c] = plan'[c]]
  /\ UNCHANGED <<tick, busy>>

Cancel(c) ==
  /\ Planned(c)
  /\ plan' = [plan EXCEPT ![c] = NoPlan]
  /\ UNCHANGED <<tick, busy>>

Call(c) ==
  /\ busy = Nobody
  /\ Planned(c) /\ plan[c].due = tick
  /\ busy' = c
  /\ UNCHANGED <<tick, plan>>

\* The call is over.
After(p) ==
  IF p.left \in {0, 1} THEN NoPlan
  ELSE [due |-> tick + p.period, period |-> p.period,
        left |-> IF p.left < 0 THEN p.left ELSE p.left - 1]

Done(c) ==
  /\ busy = c
  /\ busy' = Nobody
  /\ plan' = [plan EXCEPT ![c] = After(@)]
  /\ UNCHANGED tick

Crash ==
  /\ busy # Nobody
  /\ busy' = Nobody
  /\ UNCHANGED <<tick, plan>>

\* Time goes on when nobody is being called and nobody is due.
Pass ==
  /\ busy = Nobody
  /\ \A c \in Client : Planned(c) => plan[c].due > tick
  /\ tick' = tick + 1
  /\ UNCHANGED <<plan, busy>>

Next == (\E c \in Client : Ask(c) \/ Cancel(c) \/ Call(c) \/ Done(c)) \/ Crash \/ Pass

Spec == Init /\ [][Next]_vars
=============================================================================
