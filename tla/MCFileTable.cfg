CONSTANTS
  Dentry <- MCDentry
  Root = "root"
  Parent <- MCParent
  Name <- MCName
  Directory <- MCDirectory
  PathOf <- MCPathOf
  File = {f1, f2}
  MAX_OPEN_FILES = 5
  MAX_PATH = 2
  FdArg <- MCFdArg
  UserPath <- MCUserPath
  NoFile = NoFile
  NoDentry = NoDentry
SPECIFICATION FairSpec
INVARIANTS
  RefsExact
  CwdIsDirectory
  NoStaleFlag
  ExitReleases
PROPERTIES
  CloseOnExec
  CallReturns
