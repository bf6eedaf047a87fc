\* Two operators and three versions of a date cell, one of them without its column.
CONSTANTS
    Imports = {"v1", "v2", "v3"}
    Cells = {"fecha"}
    Values = {"", "3-oct", "pendiente"}
    Blank = ""
    RawTexts = {"pendiente"}
    NoRow = NoRow
    NoColumn = NoColumn
    NoImport = NoImport
    Planilla <- MCThreeVersions
    Clients = {e1, e2}
    Warned = {"v2"}
    MaxOverrides = 2
    MaxEvents = 3
SPECIFICATION Spec
SYMMETRY MCSymmetry
INVARIANTS NothingLeftToRetire AnchoredToBase TrailChains
PROPERTY HistoryIsKept
CHECK_DEADLOCK FALSE
