CONSTANTS
 Absent = Absent
 th1 = th1
 th2 = th2
 va = va
 vb = vb
 Threads = {th1, th2}
 PoolFiles = {"f"}
 LastPage = 2
 MAXBUF = 2
 MinSkips = 1
 MaxSkips = 2
 FlushScopes = {"all"}
 SEQOPTs = {0, 1}
 BUFF_MAX_USE_COUNT = 2
 MaxHandles = 1
 MaxVersion = 1
 Updaters = {th1, th2}
 RecNums = {0}
 Values = {va, vb}
 UpdateAtEnd = TRUE
 MaxOccs = 2
 MaxMolecules = 4
 Users = {th1, th2}
 DDs = {"A", "B"}
 Dsn <- DsnDef
 Groups = {"G"}
 MembersOf <- MembersDef
 Managed = {"A"}
 MaxDU = 2
 DUFields = {10, 2058}
 NoMerge = {10}
 DUValues = {1, 2}
 DURecs <- DURecsDef
 DLIST_MAXRECS = 3
 LOADFVPCs = {0, 1}
 LOADMMFH = 2
 MEMORY_CHECK = 2
 MaxEntries = 3
 MaxTape = 2
 FLFiles <- FLFilesDef
 FLTargets <- FLTargetsDef
 FLRecs = {0, 1, 2, 3, 4}
 ExtentSize = 2
 DBPAGE_BITMAP_SIZE = 4
 FLListRecs = 2
 SegSize = 3
 FindIndex <- FindIndexDef
 EBPs <- EBPsDef
 Criteria <- CriteriaDef
 Combined <- CombinedDef
 Texts <- TextsDef
 MaxGrows = 2
SPECIFICATION Spec
INVARIANTS PoolIsTrue IndexMatchesData NotBroken LifeIsTrue NothingIsLost LoadReproduces FindIsTrue
PROPERTIES BackoutRestores
SYMMETRY Symmetric
CHECK_DEADLOCK FALSE
