CONSTANTS
  p1 = p1
  p2 = p2
  r1 = r1
  here = here
  peer = peer
  NoHost = NoHost
  Local <- MCLocal
  Remote <- MCRemote
  Here <- here
  Peers <- MCPeers
  Up <- MCUp
  Talks <- MCTalks
  ChanCap <- MCChanCap
  loop_rate = 1
  MaxMsg = 0
  MaxReg = 2
  MaxFault = 0
SPECIFICATION FairSpec
PROPERTIES
  ClosedIsUnrouted
CHECK_DEADLOCK FALSE
