SPECIFICATION Spec
CONSTANTS
  NULL = NULL
  Refused = Refused
  Unknown = Unknown
  PortLimit = 4
  EndportLimit = 2
  MaxCalls = 3
  ParseAddr <- MCParseAddr
  PrintAddr <- MCPrintAddr
  ParsePrefix <- MCParsePrefix
  PrintPrefix <- MCPrintPrefix
  Cut <- MCCut
  RoleNames <- MCRoleNames
  Dominates <- MCDominates
  RoleTypes <- MCRoleTypes
  TypeNames <- MCTypeNames
  TypeTable <- MCTypeTable
  Attributes <- MCAttributes
  MlsOf <- MCMlsOf
  MlsString <- MCMlsString
  CondTruth <- MCCondTruth
  PortData <- MCPortData
  NodeData <- MCNodeData
  IfaceData <- MCIfaceData
  IbpkeyData <- MCIbpkeyData
  IbendportData <- MCIbendportData
  BoolData <- MCBoolData
  UserData <- MCUserData
  LoadedUsers <- MCLoadedUsers
  LoadedBools <- MCLoadedBools
  LoadedIfaces <- MCLoadedIfaces
  LoadedPorts <- MCLoadedPorts
INVARIANTS
  QueryAnswersLast
  ViewsAgree
CHECK_DEADLOCK FALSE
