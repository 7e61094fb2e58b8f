----------------------------- MODULE MCBusRouter -----------------------------
(***************************************************************************)
(* One daemon with two local processes and one process behind one peer.    *)
(***************************************************************************)
EXTENDS BusRouter, TLC

CONSTANTS p1, p2, r1, here, peer

MCLocal == {p1, p2}
MCRemote == {r1}
MCPeers == {peer}
MCUp == {p1}
MCTalks == {<<p1, p2>>, <<p1, r1>>, <<p2, r1>>, <<r1, p2>>}
\* One signal leaves a message of p1 behind; both channels of p2 fill up.
MCChanCap == (p1 :> 2) @@ (p2 :> 1)
==============================================================================
