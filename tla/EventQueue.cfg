SPECIFICATION Spec
CONSTANTS
  msg1 = msg1
  msg2 = msg2
  retryJob = retryJob
  Events <- MCEvents
  NoEvent = NoEvent
  Priority <- MCPriority
  Recurring <- MCJobs
  Replays <- MCJobs
  MaxAttempts = 3
  MaxCrashes = 2
  ThreadChecked = FALSE
INVARIANTS
  TypeOK
  OneTable
  OneDelivery
  AttemptsBounded
PROPERTIES
  ClaimOrder
  Delivered
  ImplementsMailbox
