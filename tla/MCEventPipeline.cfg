\* A command and an event that cannot be replayed, in two conversations,
\* redelivered once, or the command in two posts; two exits.
SPECIFICATION ListenerFairSpec
CONSTANTS
  m1 = m1  m2 = m2  c1 = c1  c2 = c2  p1 = p1  p2 = p2
  Message <- MCMessage
  ConversationOf <- MCTwoConversations
  Command = {m1}
  Unreadable = {m2}
  Post <- MCPost
  Posted = {m1}
  Other = Other
  MaxReceipts = 2
  MaxExits = 2
INVARIANTS EffectsHappenOnce QuarantineJustified RowsTruthful
PROPERTIES IngressHonest EverythingSettles
\* Everything settled and every bound used up: the system is quiet.
CHECK_DEADLOCK FALSE
