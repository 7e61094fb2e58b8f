-------------------------------- MODULE Guid --------------------------------
(***************************************************************************)
(* Unique ids (utility/guid.cpp).  An id is made of the process's bus id,  *)
(* the second and a serial number within the second; the last second and   *)
(* serial are kept in memory, per bus id, and lost with the process.  The  *)
(* bus id is a parameter: ids of different bus ids differ in their fields, *)
(* and for one that does not fit create() fails before it changes a thing. *)
(*                                                                         *)
(* The second is that of the shm_timer_mgr, which sets it at the end of    *)
(* each tick and is itself in shared memory: a process that resumes it     *)
(* (server/server.h) has the second of the last tick of the one before     *)
(* until its own first tick.                                               *)
(***************************************************************************)
EXTENDS Integers

CONSTANTS
  Serials,      \* 2^SERIAL_BIT_COUNT
  Timestamps,   \* 2^TIMESTAMP_BIT_COUNT
  MaxTime       \* bound: seconds

VARIABLES
  clock,        \* gettimeofday()
  now,          \* sk::time::now()
  life,         \* the process is in init(), in its loop, or has ticked there
  before,       \* the second of the last id of an earlier process
  last_sec, last_serial,
  issued,       \* ids issued so far
  twice,        \* an id was issued again
  excuse        \* the clock was set back; an earlier process's second was used
                \* in init(), or in the loop before the first tick

guidVars == <<clock, now, life, before, last_sec, last_serial, issued, twice, excuse>>

Init ==
  /\ clock = 1 /\ now = 1 /\ life = "init" /\ before = 0
  /\ last_sec = 0 /\ last_serial = 0
  /\ issued = {} /\ twice = FALSE /\ excuse = {}

Busy(serial) == serial >= Serials

\* create(): serial is 0 in a new second; none is left at the limit, which a
\* release build answers with -EBUSY.
create ==
  \E serial \in {IF last_sec = now THEN last_serial ELSE 0} :
    /\ last_sec' = now
    /\ IF Busy(serial) THEN last_serial' = serial /\ UNCHANGED <<issued, twice>>
       ELSE \E id \in {<<serial % Serials, now % Timestamps>>} :
              /\ issued' = issued \cup {id} /\ twice' = (twice \/ id \in issued)
              /\ last_serial' = serial + 1
    /\ excuse' = (IF before = now /\ life # "ticked" THEN excuse \cup {life} ELSE excuse)
    /\ UNCHANGED <<clock, now, life, before>>

Pass ==
  /\ clock < MaxTime /\ clock' = clock + 1
  /\ UNCHANGED <<now, life, before, last_sec, last_serial, issued, twice, excuse>>

SetBack(t) ==
  /\ t < clock /\ clock' = t /\ excuse' = excuse \cup {"set back"}
  /\ UNCHANGED <<now, life, before, last_sec, last_serial, issued, twice>>

\* Another process, up to on_init(), which may create ids.  It goes on with the
\* shm_timer_mgr in shared memory, or makes a new one.
Restart ==
  /\ life' = "init" /\ last_sec' = 0 /\ last_serial' = 0
  /\ before' = (IF last_sec = 0 THEN before ELSE last_sec)
  /\ now' \in {now, clock}
  /\ UNCHANGED <<clock, issued, twice, excuse>>

\* Mutant: init() ends without the sleep.
InitEndsAtOnce ==
  /\ life = "init" /\ life' = "loop"
  /\ UNCHANGED <<clock, now, before, last_sec, last_serial, issued, twice, excuse>>

\* The end of init(): sleep(1).
InitEnds ==
  /\ life = "init" /\ life' = "loop"
  /\ clock < MaxTime /\ clock' = clock + 1
  /\ UNCHANGED <<now, before, last_sec, last_serial, issued, twice, excuse>>

\* update(): the callbacks of timers that are due come first, and they see the
\* second of the last tick.
Tick ==
  /\ life # "init" /\ life' = "ticked" /\ now' = clock
  /\ UNCHANGED <<clock, before, last_sec, last_serial, issued, twice, excuse>>

Next == create \/ Pass \/ Restart \/ InitEnds \/ Tick \/ \E t \in 1 .. MaxTime : SetBack(t)
-----------------------------------------------------------------------------
\* No id is issued twice, for 2^30 seconds, by any number of processes one
\* after the other, unless the clock is set back, or a process creates one
\* before its first tick in the second of the last id of another before it.
\* The sleep at the end of init() sees to it that the first tick brings a new
\* second.
IdsUnique == twice => excuse # {} \/ now > Timestamps

\* What the comment above sleep(1) says: as init() waits for one second, the
\* ids created after it are new.
NotDuplicated == twice => excuse \cap {"set back", "init"} # {} \/ now > Timestamps

\* What keeps the ids apart: each carries its second, and those of the present
\* second have serials this process has passed, or are of an earlier process,
\* which is told from this one by its first tick.  A second without an excuse
\* never comes back, so that the next serial is in no id.
Dated(id) ==
  \E t \in 1 .. now : \E serial \in 0 .. Serials - 1 :
    /\ id = <<serial, t % Timestamps>>
    /\ t = now => (last_sec = now /\ serial < last_serial) \/ before = now
InOrder ==
  /\ now <= clock /\ before <= now /\ last_sec <= now
  /\ last_sec = 0 \/ before <= last_sec
  /\ life = "loop" => before < clock
  /\ life = "ticked" => before < now
Counted ==
  /\ clock \in Nat \ {0} /\ now \in Nat \ {0} /\ before \in Nat /\ last_sec \in Nat /\ last_serial \in Nat
  /\ life \in {"init", "loop", "ticked"} /\ twice \in BOOLEAN
IInv ==
  /\ Counted
  /\ excuse # {} \/ InOrder
  /\ excuse # {} \/ now > Timestamps \/ (~twice /\ \A id \in issued : Dated(id))
=============================================================================
