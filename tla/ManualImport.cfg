CONSTANTS
    Rows = {1}
    Pictured = {1}
    Commits = {c1, c2}
    Reissues = {r1}
    Crons = {cron}
    Import = Import
    None = None
SPECIFICATION Spec
SYMMETRY Symmetry
CHECK_DEADLOCK FALSE
INVARIANTS TypeOK SentOncePerKey CreatedIsComplete FailuresAreTrue
