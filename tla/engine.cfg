SPECIFICATION ImtSpec
CONSTANTS
  h1 = h1 h2 = h2
  None = None
  Hosts <- TwoHosts
  MaxCalls <- CallsOfHosts
  Threads <- Calls
  Users <- Ids
  Ops <- PluginOps
  InitRets = {"THOT_OK"}
  Specializations <- Names
  Numerals <- Digits
INVARIANT ParsSetBeforeUse
PROPERTY EnginesUseDecoderProperly
CHECK_DEADLOCK FALSE
