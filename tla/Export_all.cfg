\* Every filter and order against its preview; overlapping executions, faults and
\* imports between the pages.
SPECIFICATION Spec
CONSTANTS
    e1 = e1
    e2 = e2
    i1 = i1
    i2 = i2
    Executions = {e1, e2}
    Instances = {i1, i2}
    Null = Null
    Wild = 9
    MaxValue = 3
    Collation <- Order
    PageSize = 2
    Vendors <- VendorRows
    Groups <- AllGroups
    Depth <- Nesting
    NewRows <- Imported
    Scenarios <- Scenes
SYMMETRY Symmetry
CHECK_DEADLOCK FALSE
INVARIANTS
    TypeOK
    PreviewSelectsTheExport
    PreviewOrdersAsTheExport
    PreviewedIsExported
    QuietExportIsExact
    PagesMoveOneWay
    SucceededIsServed
    CountIsOfTheFile
