SPECIFICATION Spec
CONSTANTS
    Links <- AllLinks
    Runs <- MCRuns
    SpecClasses <- MCSpecClasses
    AllowClobber <- MCAllowClobber
    TagId <- MCTagId
    Nested <- MCNested
    BatchSize = 3
    ParseArn <- MCParseArn
    NormalizeName <- MCNormalizeName
    SortsBefore <- MCSortsBefore
    ArnTable <- MCArnTable
CHECK_DEADLOCK FALSE
INVARIANTS
    MergedAsTold
    WrittenIsMerged
    RdfTellsLinks
    ForeignKeysMeetRows
