CONSTANTS
 Absent = Absent
 m1 = m1
 m2 = m2
 Fields = {"f", "g"}
 Values = {"s", "long"}
 Size <- SizeDef
 UAE = {"g"}
 MROs = {m1, m2}
 Updaters = {m1}
 Readers = {m2}
 BSIZE = 3
 BRECPPG = 2
 PageSpace = 3
 BRESERVE = 0
 BREUSE = 2
 RRN = TRUE
 MaxPairs = 3
 MaxRecords = 1
 MaxUpdates = 5
 TreeValues = {1, 2, 3, 4}
 TreePages = {1, 2, 3, 4, 5, 6, 7, 8, 9, 10, 11}
 LeafCap = 2
 BranchCap = 2
 Splitpct = 50
 ListRecs <- ListRecsDef
 Places = {1, 2, 3}
 DLIST_MAXRECS = 3
 DSIZE = 3
 DPGSRES = 1
 PageSlots = 2
 ListKinds = {"V"}
 Reserve <- ReserveDef
 SmallestExtent = 2
 MaxLen = 2
 MaxPages = 14
 Amounts = {1, 2}
 MaxPointers = 6
 MaxObjects = 4
 WordBits = 2
 MaxWords = 4
 SetRecs <- SetRecsDef
 SortFields = {"x", "y", "i"}
 InvisibleFields = {"i"}
 FloatFields = {"y"}
 Bases <- BasesDef
 Rank <- RankDef
 Groups <- GroupsDef
 NumberOf <- NumberOfDef
 MaxFieldSpecs = 2
 CharOrder <- CharOrderDef
 Alphas = {"A", "a"}
 DigitValue <- DigitValueDef
 HexTable <- HexTableDef
 ToUpper <- ToUpperDef
 PATRPTMAX = 4
 PatWordBits = 4
 Candidates <- CandidatesDef
 PatternTexts <- PatternTextsDef
 CursorTexts <- CursorTextsDef
 CursorLimits <- CursorLimitsDef
 IndexValues <- IndexValuesDef
 FieldNames = {"A", "B", "LLL"}
 NameLength <- NameLengthDef
 AttSets <- AttSetsDef
 InputValues <- InputValuesDef
 FieldRecs = {1}
 MaxFieldPairs = 2
 MaxFields = 2
 PageRoom = 4
 RESERVED_PAGE_SPACE = 1
 OtherPages <- OtherPagesDef
SPECIFICATION Spec
INVARIANTS StoreIsRecords CursorsAreTrue TreeHoldsIndex ListHoldsRecords HeapIsTrue WordsAreBits SetsAreRecords SortedSetIsTrue PatternsAreTrue FieldsAreTrue
PROPERTIES BenignIsClean CursorFindsNext ExtentsMapPages CursorGoesOn
CHECK_DEADLOCK FALSE
