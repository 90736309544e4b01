CONSTANTS
  DataTypes = {}
  BodyLimit = 2
  MaxCaptures = 2
  Word = 64
  Top = 16
  Multiplier = 13
  MaxI32 = 2
  OnUnix = TRUE
  DefaultBacklog = "os"
  Sources <- MCSources
  Calls <- MCCalls
  Programs <- SlashedOnly
  Requests <- MCRequests
  Responses <- MCResponses

SPECIFICATION Spec
CHECK_DEADLOCK FALSE

INVARIANT RemainingPathIsForwarded
