------------------------------- MODULE Channel -------------------------------
(***************************************************************************)
(* The shared-memory message channel of the bus (src/bus/detail/channel):  *)
(* a ring of NodeCount nodes of NodeSize units each, one process pushing   *)
(* and another popping, with no lock.  A message occupies a whole number   *)
(* of consecutive nodes, wrapping round the end of the ring; its header    *)
(* fills the first HeadSize units of its first node and its payload        *)
(* follows.  One node always stays free, which tells a full ring from an   *)
(* empty one.                                                              *)
(*                                                                         *)
(* push and pop are split at every access to memory the other process may  *)
(* touch: the position checks, each memcpy, the header, the position       *)
(* published after the barrier and the counter bumped after that.  Either  *)
(* process may die between two steps and be restarted: it attaches to the  *)
(* same memory again and starts its next call.                             *)
(*                                                                         *)
(* The consumer pops when a signal tells it to and not otherwise: the      *)
(* caller of push() queues a real-time signal afterwards, and the handler  *)
(* of one signal pops at most Rate messages.  A signal is lost when the    *)
(* queue of pending signals is full, and with the process it was for.      *)
(*                                                                         *)
(* `log' and `nread' are history: the messages published so far, each with *)
(* the node it was put at, and how many of them have been consumed.        *)
(***************************************************************************)
EXTENDS Integers, Sequences

CONSTANTS
  NodeCount,   \* nodes in the ring
  NodeSize,    \* units in a node (a power of two in the code)
  HeadSize,    \* units taken by the channel_message header
  Msg,         \* the messages that can be pushed
  Length,      \* payload length of each message, in units
  InitCap,     \* length of the buffer the consumer first pops into
  CountMod,    \* push_count and pop_count wrap at this value
  Rate,        \* messages one signal's handler takes (loop_rate_, MAX_MSG_PER_PROC)
  MaxSignals,  \* signals that can be pending for the consumer
  MaxSent,     \* bound: messages published in one behaviour
  MaxCrash     \* bound: crashes in one behaviour

\* channel::init: at least two nodes, and a header fits in one.  Counters and
\* node_count are of one width, so the counters count at least the nodes.
ASSUME ChannelAssumption ==
  /\ NodeCount \in Nat /\ NodeCount > 1
  /\ NodeSize \in Nat /\ HeadSize \in Nat \ {0} /\ HeadSize <= NodeSize
  /\ Msg # {}
  /\ Length \in [Msg -> Nat \ {0}]
  /\ InitCap \in Nat \ {0}
  /\ CountMod \in Nat /\ CountMod >= NodeCount
  /\ Rate \in Nat \ {0} /\ MaxSignals \in Nat \ {0}
  /\ MaxSent \in Nat /\ MaxCrash \in Nat

VARIABLES
  cells,       \* the units of the ring
  read_pos, write_pos, push_count, pop_count,  \* the fields of struct channel
  ppc, pmsg,   \* producer: step of push() in progress and its message
  cpc, cnew,   \* consumer: step of pop() in progress and new_read_pos
  cdata,       \* whether pop() was given a buffer (data # NULL)
  cap, cbuf,   \* the consumer's buffer: its length, what was copied into it
  failed,      \* an assertion of push() or pop() failed
  received,    \* what the last successful pop() with a buffer returned
  signals,     \* signals pending for the consumer
  batch,       \* messages the running signal handler may still pop, 0 outside one
  lost,        \* a signal was lost
  crashes, log, nread

ring == <<cells, read_pos, write_pos, push_count, pop_count>>
producer == <<ppc, pmsg>>
consumer == <<cpc, cnew, cdata, cap, cbuf, received>>
history == <<log, nread>>
signalling == <<signals, batch, lost>>
vars == <<ring, producer, consumer, failed, crashes, history, signalling>>
------------------------------------------------------------------------------
Node == 0 .. NodeCount - 1
RingSize == NodeCount * NodeSize
Unit == 0 .. RingSize - 1

Cell == [kind : {"zero", "head", "data"}, msg : Msg, off : Nat]
ZeroCell == [kind |-> "zero", msg |-> CHOOSE m \in Msg : TRUE, off |-> 0]
HeadCell(m, j) == [kind |-> "head", msg |-> m, off |-> j]
DataCell(m, j) == [kind |-> "data", msg |-> m, off |-> j]

\* Mutant: the header is forgotten when a message's nodes are counted.
NodesOfPayload(len) == ((len - 1) \div NodeSize) + 1

\* channel::__calc_node_count
NodesOf(len) == ((HeadSize + len - 1) \div NodeSize) + 1
Need(m) == NodesOf(Length[m])

\* channel::__channel_message
Base(pos) == pos * NodeSize

\* Mutant: positions run past the end of the ring.
AdvanceNoWrap(pos, k) == pos + k

\* Ring position k nodes after pos.
Advance(pos, k) == (pos + k) % NodeCount

\* Mutant: no node is kept free.
AvailableAll ==
  IF read_pos = write_pos THEN NodeCount ELSE (read_pos - write_pos + NodeCount) % NodeCount

\* push(): nodes that may still be filled, one being kept free.
Available == (read_pos - write_pos + NodeCount - 1) % NodeCount

\* The message whose header the consumer reads at read_pos.
HeadAt(pos) == cells[Base(pos)]
CurrentMsg == HeadAt(read_pos).msg

\* The two memcpy calls of a message that wraps round: units left after the
\* header up to the end of the ring, and units from the start of the ring.
LoopsBack(from, to) == to > 0 /\ to < from
FirstPart(from) == (NodeCount - from) * NodeSize - HeadSize

\* memcpy of payload units first .. first + n - 1 of m to address addr
CopyIn(addr, m, first, n) ==
  [a \in Unit |-> IF addr <= a /\ a < addr + n
                  THEN DataCell(m, first + (a - addr)) ELSE cells[a]]
------------------------------------------------------------------------------
Init ==
  /\ cells = [a \in Unit |-> ZeroCell]
  /\ read_pos = 0 /\ write_pos = 0 /\ push_count = 0 /\ pop_count = 0
  /\ ppc = "idle" /\ pmsg \in Msg
  /\ cpc = "idle" /\ cnew = 0 /\ cdata = TRUE
  /\ cap = InitCap /\ cbuf = <<>>
  /\ failed = FALSE /\ received = <<>> /\ crashes = 0
  /\ log = <<>> /\ nread = 0
  /\ signals = 0 /\ batch = 0 /\ lost = FALSE
------------------------------------------------------------------------------
(* push() *)

PNew == Advance(write_pos, Need(pmsg))

\* Mutant: no space check.
PushBeginUnchecked(m) ==
  /\ ppc = "idle" /\ Len(log) < MaxSent
  /\ ppc' = "copy" /\ pmsg' = m
  /\ UNCHANGED <<ring, consumer, failed, crashes, history, signalling>>

\* The space check: read_pos is read once, here.
PushBegin(m) ==
  /\ ppc = "idle" /\ Len(log) < MaxSent
  /\ Need(m) <= Available
  /\ ppc' = "copy" /\ pmsg' = m
  /\ UNCHANGED <<ring, consumer, failed, crashes, history, signalling>>

\* Mutant: a push that failed is counted.
PushNoSpaceCounted(m) ==
  /\ ppc = "idle" /\ Len(log) < MaxSent
  /\ Need(m) > Available
  /\ push_count' = (push_count + 1) % CountMod
  /\ UNCHANGED <<cells, read_pos, write_pos, pop_count, producer, consumer, failed,
                 crashes, history, signalling>>

\* -ENOMEM: nothing is touched.  The router gives up; sk::bus::send() tries
\* again, and signals the router even when its last attempt failed.
PushNoSpace(m) ==
  /\ ppc = "idle" /\ Len(log) < MaxSent
  /\ Need(m) > Available
  /\ ppc' \in {"idle", "signal"}
  /\ UNCHANGED <<ring, pmsg, consumer, failed, crashes, history, signalling>>

PushCopy ==
  /\ ppc = "copy"
  /\ IF LoopsBack(write_pos, PNew)
     THEN LET sz0 == FirstPart(write_pos) IN
          /\ failed' = (failed \/ sz0 >= Length[pmsg]
                               \/ Length[pmsg] - sz0 > Base(PNew))
          /\ cells' = CopyIn(Base(write_pos) + HeadSize, pmsg, 0, sz0)
          /\ ppc' = "wrap"
     ELSE /\ cells' = CopyIn(Base(write_pos) + HeadSize, pmsg, 0, Length[pmsg])
          /\ ppc' = "head"
          /\ UNCHANGED failed
  /\ UNCHANGED <<read_pos, write_pos, push_count, pop_count, pmsg, consumer,
                 crashes, history, signalling>>

PushWrap ==
  /\ ppc = "wrap"
  /\ LET sz0 == FirstPart(write_pos) IN
     cells' = CopyIn(0, pmsg, sz0, Length[pmsg] - sz0)
  /\ ppc' = "head"
  /\ UNCHANGED <<read_pos, write_pos, push_count, pop_count, pmsg, consumer,
                 failed, crashes, history, signalling>>

PushHead ==
  /\ ppc = "head"
  /\ cells' = [a \in Unit |-> IF Base(write_pos) <= a /\ a < Base(write_pos) + HeadSize
                              THEN HeadCell(pmsg, a - Base(write_pos)) ELSE cells[a]]
  /\ ppc' = "publish"
  /\ UNCHANGED <<read_pos, write_pos, push_count, pop_count, pmsg, consumer,
                 failed, crashes, history, signalling>>

PushPublish ==
  /\ ppc = "publish"
  /\ write_pos' = PNew
  /\ log' = Append(log, [msg |-> pmsg, at |-> write_pos])
  /\ ppc' = "count"
  /\ UNCHANGED <<cells, read_pos, push_count, pop_count, pmsg, consumer, failed,
                 crashes, nread, signalling>>

PushCount ==
  /\ ppc = "count"
  /\ push_count' = (push_count + 1) % CountMod
  /\ ppc' = "signal"
  /\ UNCHANGED <<cells, read_pos, write_pos, pop_count, pmsg, consumer, failed,
                 crashes, history, signalling>>

\* Mutant: a signal is pending once however often it is sent.
PushSignalMerged ==
  /\ ppc = "signal"
  /\ ppc' = "idle"
  /\ \/ signals' = 1 /\ UNCHANGED lost
     \/ lost' = TRUE /\ UNCHANGED signals
  /\ UNCHANGED <<ring, pmsg, consumer, failed, crashes, history, batch>>

\* sigqueue() after push(): the signal is queued, or refused because as many
\* are pending as the system allows the user, whoever they are for.
PushSignal ==
  /\ ppc = "signal"
  /\ ppc' = "idle"
  /\ \/ signals < MaxSignals /\ signals' = signals + 1 /\ UNCHANGED lost
     \/ lost' = TRUE /\ UNCHANGED signals
  /\ UNCHANGED <<ring, pmsg, consumer, failed, crashes, history, batch>>
------------------------------------------------------------------------------
(* pop() and the signal handler that calls it *)

\* The loop takes the next signal: bus_router::on_local_message(), or
\* server::recv_bus_msg().
HandleSignal ==
  /\ cpc = "idle" /\ batch = 0 /\ signals > 0
  /\ signals' = signals - 1 /\ batch' = Rate
  /\ UNCHANGED <<ring, producer, consumer, failed, crashes, history, lost>>

\* The emptiness check: there is a message.
PopBegin(d) ==
  /\ cpc = "idle" /\ batch > 0 /\ read_pos # write_pos
  /\ cpc' = "head" /\ cdata' = d
  /\ UNCHANGED <<ring, producer, cnew, cap, cbuf, received, failed, crashes,
                 history, signalling>>

\* The emptiness check: pop() returns 0 and the handler breaks off.
PopEmpty ==
  /\ cpc = "idle" /\ batch > 0 /\ read_pos = write_pos
  /\ batch' = 0
  /\ UNCHANGED <<ring, producer, consumer, failed, crashes, history, signals, lost>>

\* Mutant: -E2BIG does not report the length.
LengthNotReported == UNCHANGED cap

\* -E2BIG leaves the message in the ring and reports its length; the caller's
\* next attempt brings a buffer of that length (bus_router::on_local_message).
ReportLength == cap' = Length[CurrentMsg]

\* The header, and a second look at write_pos: when another message follows,
\* its header is asserted to be one.
PopHead ==
  /\ cpc = "head"
  /\ LET new == Advance(read_pos, Need(CurrentMsg)) IN
     IF HeadAt(read_pos).kind # "head"
     THEN /\ failed' = TRUE /\ cpc' = "idle"
          /\ UNCHANGED <<cnew, cap>>
     ELSE /\ failed' = (failed \/ (new # write_pos /\ HeadAt(new).kind # "head"))
          /\ IF cdata /\ Length[CurrentMsg] > cap
             THEN /\ ReportLength /\ cpc' = "idle"
                  /\ UNCHANGED cnew
             ELSE /\ cpc' = IF cdata THEN "copy" ELSE "publish"
                  /\ cnew' = new
                  /\ UNCHANGED cap
  /\ UNCHANGED <<ring, producer, cdata, cbuf, received, crashes, history, signalling>>

\* The hash over the copied payload is compared with the header's.
Intact(buf, m) == buf = [j \in 0 .. Length[m] - 1 |-> DataCell(m, j)]

\* What follows the last memcpy of pop()
Verify(buf) ==
  /\ cbuf' = buf
  /\ IF Intact(buf, CurrentMsg)
     THEN cpc' = "publish" /\ UNCHANGED failed
     ELSE cpc' = "idle" /\ failed' = TRUE

PopCopy ==
  /\ cpc = "copy"
  /\ LET len == Length[CurrentMsg]
         start == Base(read_pos) + HeadSize
         sz0 == FirstPart(read_pos) IN
     IF LoopsBack(read_pos, cnew)
     THEN /\ failed' = (failed \/ sz0 >= len \/ len - sz0 > Base(cnew))
          /\ cbuf' = [j \in 0 .. sz0 - 1 |-> cells[start + j]]
          /\ cpc' = "wrap"
     ELSE Verify([j \in 0 .. len - 1 |-> cells[start + j]])
  /\ UNCHANGED <<ring, producer, cnew, cdata, cap, received, crashes, history, signalling>>

PopWrap ==
  /\ cpc = "wrap"
  /\ LET sz0 == FirstPart(read_pos) IN
     Verify([j \in 0 .. Length[CurrentMsg] - 1 |->
               IF j < sz0 THEN cbuf[j] ELSE cells[j - sz0]])
  /\ UNCHANGED <<ring, producer, cnew, cdata, cap, received, crashes, history, signalling>>

\* The caller gets the copied payload with the header's fields.
PopPublish ==
  /\ cpc = "publish"
  /\ received' = IF cdata THEN <<CurrentMsg, cbuf>> ELSE received
  /\ read_pos' = cnew
  /\ nread' = nread + 1
  /\ cpc' = "count"
  /\ UNCHANGED <<cells, write_pos, push_count, pop_count, producer, cnew, cdata,
                 cap, cbuf, failed, crashes, log, signalling>>

\* pop() returns 1: one message more of the handler's Rate.
PopCount ==
  /\ cpc = "count"
  /\ pop_count' = (pop_count + 1) % CountMod
  /\ cpc' = "idle" /\ batch' = batch - 1
  /\ UNCHANGED <<cells, read_pos, write_pos, push_count, producer, cnew, cdata,
                 cap, cbuf, received, failed, crashes, history, signals, lost>>
------------------------------------------------------------------------------
\* A process dies inside a call and comes back: the memory outlives it, and
\* its new incarnation finds the descriptor open (register_channel).  The
\* signals pending for a consumer die with it.
ProducerCrash ==
  /\ ppc # "idle" /\ crashes < MaxCrash
  /\ crashes' = crashes + 1 /\ ppc' = "idle"
  /\ UNCHANGED <<ring, pmsg, consumer, failed, history, signalling>>

ConsumerCrash ==
  /\ cpc # "idle" \/ batch > 0 \/ signals > 0
  /\ crashes < MaxCrash
  /\ crashes' = crashes + 1 /\ cpc' = "idle" /\ cap' = InitCap
  /\ signals' = 0 /\ batch' = 0
  /\ UNCHANGED <<ring, producer, cnew, cdata, cbuf, received, failed, history, lost>>

PushStep == PushCopy \/ PushWrap \/ PushHead \/ PushPublish \/ PushCount \/ PushSignal
PopStep == PopHead \/ PopCopy \/ PopWrap \/ PopPublish \/ PopCount

Next ==
  \/ \E m \in Msg : PushBegin(m) \/ PushNoSpace(m)
  \/ PushStep
  \/ HandleSignal
  \/ \E d \in BOOLEAN : PopBegin(d)
  \/ PopEmpty
  \/ PopStep
  \/ ProducerCrash
  \/ ConsumerCrash

Spec == Init /\ [][Next]_vars

\* A process inside a call runs on; the consumer's loop takes a pending signal
\* and runs its handler to the end.  Without a signal it does not pop, and
\* nobody is obliged to push.
FairSpec ==
  /\ Spec
  /\ WF_vars(PushStep)
  /\ WF_vars(HandleSignal \/ PopBegin(TRUE) \/ PopEmpty \/ PopStep)
------------------------------------------------------------------------------
\* Types of the fields of struct channel and of the calls in progress.
TypeOK ==
  /\ cells \in [Unit -> Cell]
  /\ read_pos \in Node /\ write_pos \in Node
  /\ push_count \in 0 .. CountMod - 1 /\ pop_count \in 0 .. CountMod - 1
  /\ ppc \in {"idle", "copy", "wrap", "head", "publish", "count", "signal"}
  /\ pmsg \in Msg
  /\ cpc \in {"idle", "head", "copy", "wrap", "publish", "count"}
  /\ cnew \in Node /\ cdata \in BOOLEAN /\ cap \in Nat
  /\ failed \in BOOLEAN
  /\ crashes \in 0 .. MaxCrash
  /\ log \in Seq([msg : Msg, at : Node])
  /\ nread \in 0 .. Len(log)
  /\ signals \in 0 .. MaxSignals /\ batch \in 0 .. Rate /\ lost \in BOOLEAN
  /\ cpc # "idle" => batch > 0

\* Messages published and not yet consumed.
Unread == nread + 1 .. Len(log)

\* Whether ring position p lies in the k nodes that start at pos.
InRun(p, pos, k) == (p - pos + NodeCount) % NodeCount < k

\* No assertion of push() or pop() ever fails: not the header magic, not the
\* header of the following message, not the sizes of the two halves of a
\* message that wraps, not the payload hash.
NoAssertionFails == failed = FALSE

\* The nodes a push in progress writes hold no part of a published message
\* that has not been consumed, nor of the one being popped.
WriterKeepsOffUnread ==
  ppc \in {"copy", "wrap", "head", "publish"} =>
    \A i \in Unread : \A p \in Node :
      ~(InRun(p, log[i].at, Need(log[i].msg)) /\ InRun(p, write_pos, Need(pmsg)))

\* channel::message_count
message_count == IF push_count >= pop_count THEN push_count - pop_count ELSE 0

\* Positions that were moved and whose counter was not, yet or ever: the calls
\* between the two assignments, and at most one for every crash.
Uncounted(pc) == IF pc = "count" THEN 1 ELSE 0
Slack == crashes + Uncounted(ppc) + Uncounted(cpc)

\* What message_count() reports, between any two steps of push() and pop().
\* Until push_count first wraps it is off by no more than the positions moved
\* and not counted.  After that, when no process died and none is between a
\* position and its counter, it is right or 0: while only push_count has
\* wrapped it says 0, and it never says more than the ring holds.
CountersAgree ==
  LET held == Len(log) - nread IN
  /\ Len(log) < CountMod => /\ message_count <= held + Slack
                            /\ held <= message_count + Slack
  /\ Slack = 0 => message_count \in {0, held}

\* The published messages that have not been consumed, oldest first.
Pending == [i \in 1 .. Len(log) - nread |-> log[nread + i].msg]

\* The ring seen as the queue it promises to be: the nodes between the two
\* positions are in use, and the consumer's last buffer stands for the message
\* whose whole payload it holds.
Fifo == INSTANCE ChannelFifo WITH
  NodesFor <- [m \in Msg |-> Need(m)],
  Capacity <- NodeCount - 1,
  queue <- Pending,
  used <- (write_pos - read_pos + NodeCount) % NodeCount,
  received <- IF received = <<>> THEN <<>>
              ELSE IF Intact(received[2], received[1]) THEN <<received[1]>>
              ELSE <<received>>

\* push() and pop(), interleaved step by step, are the atomic operations of a
\* bounded FIFO queue.
ImplementsFifo == Fifo!Spec

\* A published message is consumed in the end, although one signal brings at
\* most Rate messages, finds the channel emptied by an earlier one or comes for
\* a push that failed, and although a message may first be refused for its
\* length: unless a signal is lost or a process dies, for then the last
\* messages stay where they are until more are sent.
EverythingIsRead ==
  \A n \in 1 .. MaxSent : (Len(log) >= n) ~> (nread >= n \/ lost \/ crashes > 0)
==============================================================================
