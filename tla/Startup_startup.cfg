SPECIFICATION Spec
CONSTANTS
  Lines <- MCLines
  Flags = {"R", "H", "g"}
  WithArg = {"e", "M", "N", "B", "i", "r"}
  LongName <- MCLongName
  Name <- MCName
  Ini <- MCIni
  Plugg <- MCPlugg
  Registry <- MCRegistry
  Param <- MCParam
  Cut <- MCCut
  PLUGN = 4
  RDIR_DEPTH = 3
  Kind <- MCKind
  Sub <- MCSub
  PATH_MAX = 4
  PATH_LENMAX = 1
  Data <- MCData
  Archive = {"gz"}
  Dashed = {"dash"}
  Insize = 8
  LEN = 4
  Specs <- MCSpecs
  Delimiter <- MCDelimiter
  Operand <- MCOperand
  Limit <- MCLimit
INVARIANTS TypeOK OptionsAsGiven TwiceOnlyWhenCut WantedSelected MergedFile
PROPERTY Ends
CHECK_DEADLOCK FALSE
