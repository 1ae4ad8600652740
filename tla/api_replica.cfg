SPECIFICATION FairSpec
CONSTANTS
  c1 = c1  c2 = c2  c3 = c3  r1 = r1  r2 = r2  k1 = k1  k2 = k2  q1 = q1
  Conns = {c1, c2, c3}
  NoConn = NoConn
  Replicas = {r1, r2}
  Keys = {k1, k2}
  Requests = {q1}
  Self = r1
  MaxFaults = 2
INVARIANTS TypeOK ChannelIsOpen ReconnectsBalanced 
PROPERTIES OnlyOwnFailureDropsChannel ChannelComesBack 
CHECK_DEADLOCK FALSE
