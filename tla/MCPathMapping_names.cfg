\* Every upload of these names, folders and policies, alone in its folder but
\* for writers of the same name.
CONSTANTS
  Requests <- MCRequests
  Mark <- MCMark
  RetryMark <- MCRetryMark
  Others <- MCOthers
  MaxPath = 12
  MaxName = 7
  MarkWidth = 2
  MaxCandidates = 2
  MaxRetries = 3
SPECIFICATION Spec
INVARIANTS PathInv LateRefusal StoredAsChecked OrdinaryNamesPass
CHECK_DEADLOCK FALSE
