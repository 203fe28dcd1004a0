SPECIFICATION Spec
CONSTANTS
  c1 = c1
  c2 = c2
  NoConn = NoConn
  Conns <- MCTwoConns
  ListenSocket <- MCListenSocket
  ClientFds <- MCTwoFds
  Msgs <- MCAllMsgs
  MaxInbox = 2
  MaxInFlight = 2
  MaxBacklog = 2
  MaxReadings = 1
  Faults = {}
INVARIANT ReadsForever
