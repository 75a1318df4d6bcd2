SPECIFICATION Spec
CONSTANTS
  NUL = NUL
  NULL = NULL
  MaxSize = 25
  MaxQueries = 8
  Method = {"GET", "POST"}
  Token <- Tokens
  Header <- Headers
  Handlers <- Routes
  Www <- WwwFiles
  Written <- Data
  MaxTokens = 8
  MaxHandled = 4
  MaxFaults = 2
  MaxChanges = 1
  MaxFds = 2
INVARIANTS TypeOK DecodesTokens QueryRoundTrip ParametersKept RequestStored
           AnswersRequest AnnouncedLength PiecesWhole
CHECK_DEADLOCK FALSE
