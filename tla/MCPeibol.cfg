SPECIFICATION FairSpec
CONSTANTS
  c1 = c1
  c2 = c2
  NoConn = NoConn
  Conns <- MCTwoConns
  ListenSocket <- MCListenSocket
  ClientFds <- MCTwoFds
  Msgs <- MCFewMsgs
  MaxInbox = 2
  MaxInFlight = 2
  MaxBacklog = 1
  MaxReadings = 1
  Faults <- MCAllFaults
INVARIANTS LiveFdConnected
PROPERTIES FeedSpec TermStops ClientsServed
