\* Files, versions, reports and report features of Rodales.
CONSTANTS
    Numbers <- MCNumbers
    Starred <- MCStarred
    Lower <- MCLower
    MAX_ARCHIVE_ENTRIES = 7
    MAX_TOTAL_UNCOMPRESSED_BYTES = 8
    RATIO_CHECK_MIN_BYTES = 3
    MAX_COMPRESSION_RATIO = 3
    LinkPercent = 60
    Families <- MCFamilies
    FirstZip <- Plain
    Zips <- MCZips
    Shapes <- MCShapes
    Labels <- MCLabels
    FORESTRY_MAX_UPLOAD_BYTES = 10
    MaxChanges = 2
    Snapshots = {"s1", "s2", "s3"}
    NoSnapshot = "none"
    Content <- MCContent
    ReviewRequired <- MCReviewRequired
    Reviewers = {u1, u2}
    MaxEvents = 4
    ReviewersBeside = 1
    EventsBeside = 3
    Reports = {i1, i2}
    Names = {n1, n2}
    Contents = {"empty", "marked"}
    EmptyContent = "empty"
    Marked = {"marked"}
    Users = {u1, u2}
    MaxRevision = 3
    Bases <- MCBases
    Inputs <- MCInputs
    MAX_FEATURES = 3
    MIN_PIECE_AREA = 2
    COVERAGE_TOLERANCE = 1
    OVERLAP_TOLERANCE = 1
    TooLong <- MCTooLong
    MAX_SECTOR_LENGTH = 2
    MAX_REFOREST_SPECIES = 2
    LongNames <- MCLongNames
    MAX_REFOREST_DENSITY = 2
    Codes <- MCCodes
    SPECIES_ORDER <- MCSpeciesOrder
    ThisYear = 26
    FormulaTexts <- MCFormulaTexts
    SheetName <- MCSheetName
    Folded <- MCFolded
    PredioRank <- MCPredioRank
    MaxDraft = 4
SPECIFICATION ForestrySpec
SYMMETRY MCSymmetry
INVARIANTS
    LayerIsStored
    ComparisonCorrect
    ReadsCorrect
    TrailTellsHistory
    ReadersTold
    CurrentPageIsTrue
    ReportsInOrder
    FeaturesFaithful
PROPERTIES
    ReviewedIsKept
CHECK_DEADLOCK FALSE
