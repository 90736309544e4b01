CONSTANTS
  DataTypes <- TwoTypes
  BodyLimit = 2
  Cases <- MCCases
  HandlerErrors <- MCErrors

SPECIFICATION Spec
CHECK_DEADLOCK FALSE

INVARIANTS
  TypeOK
  ForwardedBodyIsDescribed
  ClientBodyHasOneReader
  OnlyDeclaredBodiesAreBuffered
  BlameIsFair
  OnlyValidRequestsAreForwarded
  ParametersSeeTheLatestValue
  RefusedExactlyWhenUnbindable
  ArgumentOrderIsIrrelevant
  FailuresAreLogged

PROPERTIES
  IsOneStepOfDispatch
