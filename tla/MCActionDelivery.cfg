SPECIFICATION Spec
CONSTANTS
  t1 = t1
  t2 = t2
  g = g
  k = k
  m1 = m1
  Call = {t1, t2}
  ConversationOf <- MCConversationOf
  Private = {}
  OtherKey = {k}
  Memory = {m1}
  MaxSockets = 2
  MaxStops = 1
INVARIANTS SocketsTidy
PROPERTIES RecordedMeansPosted 
CHECK_DEADLOCK FALSE
SYMMETRY MCSymmetry
