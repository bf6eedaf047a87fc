\* Two operators, two cells, two versions, one without the row of a cell; with fairness.
CONSTANTS
    Imports = {"v1", "v2"}
    Cells = {"estado", "tipo"}
    Values = {"", "legal"}
    Blank = ""
    RawTexts = {}
    NoRow = NoRow
    NoColumn = NoColumn
    NoImport = NoImport
    Planilla <- MCTwoCells
    Clients = {e1, e2}
    Warned = {}
    MaxOverrides = 2
    MaxEvents = 2
SPECIFICATION FairSpec
PROPERTIES
    EditsAreAtomic
    RequestsEnd
CHECK_DEADLOCK FALSE
