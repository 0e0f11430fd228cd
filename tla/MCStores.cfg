SPECIFICATION StoresSpec
CONSTANTS
  Savers <- MCSavers
  KeyOf <- MCKeyOf
  VersionOf <- MCVersionOf
  Offsets = {1, 2}
  Queries <- MCQueries
  StartsWith <- MCStartsWith
  Rank <- MCRank
  MaxClock = 1
  MaxCacheIds = 3
  Absent = none
  Uploads <- MCUploads
  ScopeOf <- MCScopeOf
  NameOf <- MCNameOf
  Blocks <- MCBlocks
  Asked <- MCAsked
  MaxIds = 3
  Resolvers = {"a", "b", "o"}
  OfflineOnes = {"o"}
  Tops = {"t1", "t2", "t3"}
  FirstTop = "t1"
  Index = {"t1", "t2"}
  Foreign = {"t3"}
  MaxEvents = 2
  Clients = {"c1", "c2"}
  Modes <- ActionModes
  Refs <- MCRefs
  Shas = {"s1", "s2"}
  Start <- MCStart
  Kind <- MCKind
  Exported = {"s1"}
  Archives <- ActionArchives
  MaxEntries = 2
  Sizes = {1, 2, 3}
  MaxResponseBytes = 2
  ReportBytes = 1
  MaxFaults = 2
INVARIANTS
  
  LockedTreesRun
  FailuresHaveCauses
  DownloadIsAnUpload
  FetchedImageIsExact
CHECK_DEADLOCK FALSE
