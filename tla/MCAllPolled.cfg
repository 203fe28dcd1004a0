SPECIFICATION Spec
CONSTANTS
  c1 = c1
  c2 = c2
  c3 = c3
  get = get
  NoConn = NoConn
  Conns <- MCThreeConns
  ListenSocket <- MCListenSocket
  ClientFds <- MCTwoFds
  Msgs <- MCMsgs
  MaxInbox = 1
  MaxInFlight = 3
  MaxBacklog = 2
INVARIANT AllPolled
