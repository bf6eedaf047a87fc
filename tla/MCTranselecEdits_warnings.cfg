\* A version with warnings and a restore.
CONSTANTS
    Imports = {"v1", "v2"}
    Cells = {"estado"}
    Values = {"", "rechazado", "aprobado"}
    Blank = ""
    RawTexts = {}
    NoRow = NoRow
    NoColumn = NoColumn
    NoImport = NoImport
    Planilla <- MCTwoVersions
    Clients = {e1, e2}
    Warned = {"v2"}
    MaxOverrides = 1
    MaxEvents = 2
SPECIFICATION Spec
INVARIANT WarningsAcknowledged
CHECK_DEADLOCK FALSE
