SPECIFICATION Spec
CONSTANTS
  r1 = r1
  r2 = r2
  r3 = r3
  c1 = c1
  g1 = g1
  g2 = g2
  NoSession = NoSession
  MaxClock = 2
  Requests = {r1, r2}
  Chats = {c1}
  Gateways = {g1}
  ChatOf <- MCChatOf
  GatewayOf <- MCTwoProcesses
PROPERTY UpdatedMonotone
CHECK_DEADLOCK FALSE
