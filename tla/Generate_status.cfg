CONSTANTS
  Unreadable = Unreadable
  NoFile = NoFile
  Garbled = Garbled
  NoDirectory = NoDirectory
  Old = Old
  Partial = Partial
  Captures <- MCCaptures
  MaxInt = 100
  HasPrefix <- MCHasPrefix
  HasSuffix <- MCHasSuffix
  TrimSpace <- MCTrimSpace
  ArchWords <- MCArchWords
  Place <- MCPlace
  Purl <- MCPurl
  Sboms <- StatusSboms
  Arch = "amd64"
  Options <- StatusOptions
  Files = {"glsa-1.xml", "glsa-2.xml", "glsa-3.xml", "glsa-1.txt", "README"}
  Updates <- StatusUpdates
  OsvDb <- MCOsvDb
  Release <- MCRelease
  AnyRelease = "flatcar"
  Aliases <- MCAliases
SPECIFICATION Spec
INVARIANT StatusIsAsDocumented
