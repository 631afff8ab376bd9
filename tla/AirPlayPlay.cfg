SPECIFICATION Spec
CONSTANTS
  NoReply = NoReply
  FailedReply = FailedReply
  Requests <- Labels
  Long <- MCLong
  MaxTimeouts = 2
  MaxSilent = 1
  MaxFeedback = 1
INVARIANTS OwnAnswer SealsOpen NoneStranded NothingUnasked
CHECK_DEADLOCK FALSE
