CONSTANTS
    Rows = {1}
    Pictured = {1}
    Commits = {c1, c2}
    Reissues = {r1}
    Crons = {}
    Import = Import
    None = None
SPECIFICATION Spec
SYMMETRY Symmetry
CHECK_DEADLOCK FALSE
INVARIANT PhotosAreKept
