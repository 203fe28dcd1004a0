SPECIFICATION FairSpec
CONSTANTS
  c1 = c1
  c2 = c2
  NoConn = NoConn
  Conns <- MCTwoConns
  ListenSocket <- MCListenSocket
  ClientFds <- MCTwoFds
  Msgs <- MCPlainMsgs
  MaxInbox = 1
  MaxInFlight = 2
  MaxBacklog = 1
  MaxReadings = 1
  Faults = {}
PROPERTY FedUntilNewOrder
