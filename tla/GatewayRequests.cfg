CONSTANTS
  DataTypes = {}
  BodyLimit = 2
  MaxCaptures = 2
  Word = 64
  Top = 16
  Multiplier = 13
  MaxI32 = 2
  OnUnix = TRUE
  DefaultBacklog = "os"
  Sources <- MCSources
  Calls <- MCCalls
  Programs <- MCPrograms
  Requests <- MCRequests
  Responses <- MCResponses

SPECIFICATION FairSpec
CHECK_DEADLOCK FALSE

INVARIANTS
  TypeOK
  PoolsAreTheLastRegistered
  KnobsFollowTheLastCall
  BuiltAppsAreComplete
  RefusalsHaveACause
  ListenerIsAsConfigured
  UpstreamPathIsAsDeclared
  StickyKeyIsTheParameter
  KeysMoveOnlyToTheNewBackend
  OnlyEndToEndHeadersPass

PROPERTIES
  EveryPickEnds
