\* Any three requests and executions of a file, uploaded twice.
SPECIFICATION Spec
CONSTANTS
    h1 = h1
    h2 = h2
    p1 = p1
    x1 = x1
    x2 = x2
    x3 = x3
    i1 = i1
    good = good
    bad = bad
    Confirms = {h1, h2}
    Previews = {p1}
    Executions = {x1, x2, x3}
    Instance <- OneInstance
    Contents = {good, bad}
    Confirmable = {good}
    Valid = {good}
    Partial = Partial
    Null = Null
    MaxUploads = 2
    MaxBegun = 3
    MaxFaults = 1
SYMMETRY Symmetry
CHECK_DEADLOCK FALSE
INVARIANTS
    TypeOK
    ImportedWasChecked
    WholeFileImported
    VerdictIsAboutObject
    NothingLeftBehind
