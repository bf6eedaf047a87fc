\* Two changes to each workbook; every other bound makes a limit matter.
CONSTANTS
    Fields <- MCFields
    HEADER_SCAN_ROWS = 3
    MIN_HEADER_MATCHES = 3
    MAX_ROWS_PER_ISSUE = 1
    Books <- MCBooks
    Headers <- MCHeaders
    Values <- MCValues
    MaxEdits = 2
    CellColumns = {1, 2, 3}
    Epoch1904 = 4
    MAX_EDITED_PART_BYTES = 5
    Packages <- MCPackages
    ColumnKind <- MCColumnKind
    EditRows = {1, 2}
    TextEdits <- MCTextEdits
    DateEdits <- MCDateEdits
    MaxEditsAtOnce = 2
    MaxDownloads = 2
SPECIFICATION FilesSpec
INVARIANTS
    ImportedWhole
    DownloadIsThePlanilla
PROPERTIES
    RecognisedNotCounted
CHECK_DEADLOCK FALSE
