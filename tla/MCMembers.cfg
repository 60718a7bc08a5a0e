CONSTANTS
  Libraries <- MCLibraries
  PublicName <- MCPublicName
  EventMethodName <- MCEventName
  EventName <- MCEventName
  Lower <- MCLower
  MaxInt = 3
  OtherTypes = {"QDateTime", "IDispatch*"}
  Tasks = {t1, t2}
  Nobody = nobody
  Names <- MCNames
  Values <- MCValues
  Counts = {0, 1}
  MaxOps = 3
SYMMETRY Symmetry
SPECIFICATION ProgramSpec
INVARIANTS
  ImportsSuffice
  DeclaredMembersResolve
  RequestsHitTheirMember
  ReadYourWrites
  ReadBack
  ArgumentsFit
CHECK_DEADLOCK FALSE
