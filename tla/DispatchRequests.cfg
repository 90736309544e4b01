CONSTANTS
  r1 = r1
  r2 = r2
  Requests <- TwoRequests
  PoolLen = 2
  PanicsAllowed = TRUE

SPECIFICATION FairSpec
CHECK_DEADLOCK FALSE

INVARIANTS
  TypeOK
  BalancerProtocol
  EventsTellTheStory
  AccountsAgree

PROPERTIES
  EveryStartIsReported
  EveryPickIsAnswered
