\* A filter on vendor.name (EXPORT_FILTER_DSL.md:98).
SPECIFICATION Spec
CONSTANTS
    e1 = e1
    e2 = e2
    i1 = i1
    i2 = i2
    Executions = {e1, e2}
    Instances = {i1, i2}
    Null = Null
    Wild = 9
    MaxValue = 3
    Collation <- Order
    PageSize = 2
    Vendors <- VendorRows
    Groups <- AllGroups
    Depth <- Nesting
    NewRows <- Imported
    Scenarios <- NestedScenes
SYMMETRY Symmetry
CHECK_DEADLOCK FALSE
INVARIANTS
    NestedFilterJoins
