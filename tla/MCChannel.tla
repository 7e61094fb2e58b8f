------------------------------ MODULE MCChannel ------------------------------
(***************************************************************************)
(* The channel on a ring of four two-unit nodes with a one-unit header.    *)
(* Messages of 1, 4 and 7 units take 1, 3 and 4 nodes: one fits anywhere,  *)
(* one fills the ring and wraps, in its first node or in its second, from  *)
(* two of the four positions, and the last can never be sent.  Four        *)
(* published messages go round the ring up to three times, and the         *)
(* counters round once.                                                    *)
(***************************************************************************)
EXTENDS Channel, TLC

CONSTANTS short, long, huge

MCMsg == {short, long, huge}
MCLength == (short :> 1) @@ (long :> 4) @@ (huge :> 7)
==============================================================================
