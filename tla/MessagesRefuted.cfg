SPECIFICATION Spec
CONSTANTS
  None = None
  MaxMethod = 2
  MaxProtocol = 2
  MaxReason = 4
  MaxHead = 27
  UriInput <- MCUri
  ReasonInput <- MCReason
  StatusInput <- MCStatus
  MethodInput <- MCMethod
  HeaderInput <- MCHeader
  BodyInput <- MCBody
  LengthInput = {9, 10}
  Incoming <- MCArriving
  Prefix <- MCPrefix
  Allowed = {"G", "O", "R"}
  Path <- MCPath
  Name <- MCName
  Port <- MCPort
  MaxHeaders = 2
  MaxBody = 10
  MaxText = 40
INVARIANTS
  NeverEnds
  ReleasedParses
  PushesIgnored
  AlwaysParsedFaithfully
  PeersMeet
CHECK_DEADLOCK FALSE
