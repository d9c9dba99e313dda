\* Shutdown before the gateway is ready, as the code orders it: the first run of
\* the program, or one that recovers what a crash left.
SPECIFICATION ListenerSpec
CONSTANTS
  m1 = m1  m2 = m2  c1 = c1  c2 = c2  p1 = p1  p2 = p2
  Message <- MCMessage
  ConversationOf <- MCOneConversation
  Command = {m1}
  Unreadable = {}
  Post <- MCPost
  Posted = {m1}
  Other = Other
  MaxReceipts = 1
  MaxExits = 2
PROPERTIES ShutdownLeavesNoWork
CHECK_DEADLOCK FALSE
