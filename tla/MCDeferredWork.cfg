\* Two questions compete for a budget of one; claims, stalls and a crash.  Two
\* memories, two proposals of any kind, two reviewers, one owner's change.
SPECIFICATION MCSpec
CONSTANTS
  q1 = q1  q2 = q2
  Candidate <- MCCandidate
  MaxAttempts = 2
  GroupBudget = 1
  MaxCrashes = 1
  m1 = m1  m2 = m2  p1 = p1  p2 = p2  a1 = a1  a2 = a2
  Nobody = Nobody
  Memory <- MCMemory
  Proposal <- MCProposal
  Reviewer <- MCReviewer
  MaxTime = 1
  MaxOwnerChanges = 1
  ImportanceApplicationEnabled = TRUE
INVARIANTS OneReplyWithEvidence BudgetHolds HistoryIsTrue AppliedIsInForce
PROPERTIES ReviewsRespectTheOwner
SYMMETRY MCSymmetry
CHECK_DEADLOCK FALSE
