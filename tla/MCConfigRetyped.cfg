CONSTANTS
  t1 = t1
  t2 = t2
  o1 = o1
  o2 = o2
  o3 = o3
  Null = Null
  Throws = Null
  Threads <- MCThreads
  Objs <- MCObjs
  Names <- MCNames
  OtherNames <- MCOtherNames
  Types <- MCTypes
  TypeOf <- MCTypeOf
  Inputs <- MCInputs
  Fragile <- MCFragile
  Values <- MCValues
  Load <- MCLoad
  Emit <- MCEmit
  EmptyText <- MCEmptyText
  LegalParts <- MCLegalParts
  IntOf <- MCIntOf
  IntText <- MCIntText
  CastOf <- MCCastOf
  Parse <- MCParse
  Text <- MCText
  Default <- MCDefault
  Docs <- MCDocs
  Contract <- AnyType
  MaxCalls = 3
SPECIFICATION Spec
INVARIANT HandleIsRegistered
CHECK_DEADLOCK FALSE
