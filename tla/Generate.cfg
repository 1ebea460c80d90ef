CONSTANTS
  Unreadable = Unreadable
  NoFile = NoFile
  Garbled = Garbled
  NoDirectory = NoDirectory
  Old = Old
  Partial = Partial
  Captures <- MCCaptures
  MaxInt = 100
  HasPrefix <- MCHasPrefix
  HasSuffix <- MCHasSuffix
  TrimSpace <- MCTrimSpace
  ArchWords <- MCArchWords
  Place <- MCPlace
  Purl <- MCPurl
  Sboms <- MCSboms
  Arch = "amd64"
  Options <- MCOptions
  Files = {"glsa-1.xml", "glsa-2.xml", "glsa-3.xml", "glsa-1.txt", "README"}
  Updates <- MCUpdates
  OsvDb <- MCOsvDb
  Release <- MCRelease
  AnyRelease = "flatcar"
  Aliases <- MCAliases
SPECIFICATION Spec
INVARIANTS
  TypeOK
  PackagesAreSplit
  DocumentIsFaithful
  DocumentIsCanonical
  NeverFromAnEmptyCorpus
PROPERTIES
  ErrorKeepsOutput
  Exits
