SPECIFICATION SceneSpec
CONSTANTS
  NSs = {"R", "S", "T", "U", "G"}
  Root = "R"
  NoNS = "none"
  Parent <- MCParent
  Name <- MCName
  GhTarget <- MCGhTarget
  Repo <- MCRepo
  Mount <- MCMount
  Paths <- MCPaths
  Links <- MCLinks
  ChdirsAway = FALSE
  NoSpace = NoSpace
  NoFile = NoFile
  f1 = f1
  f2 = f2
  c1 = c1
  c2 = c2
  Namespaces <- McNamespaces
  TargetOf <- McTargetOf
  NsParent <- McNsParent
  PathsIn <- McPathsIn
  FQuota <- McFQuota
  Files <- McFiles
  Creators <- McCreators
  Configs <- McConfigs
  Watched <- McWatched
  ConfigVer <- McConfigVer
  Starts <- McStarts
  ConfigFiles <- MCConfigFiles
  RootName = "root"
  Mdal <- MCMdal
  Disks <- MCDisks
  Names <- MCStrings
  Identifiers <- MCIdentifiers
  Weights <- MCWeights
  Breadths <- MCBreadths
  TargetCount = 3
  MaxSubspaces = 3
  MaxCalls = 3
CHECK_DEADLOCK FALSE
INVARIANTS PathsAreRight FilesAreSound ConfigIsSound VerifyIsRight LookupIsRight
PROPERTIES TraversalsAndOrphansEnd
