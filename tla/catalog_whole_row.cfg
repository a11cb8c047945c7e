CONSTANTS
    s1 = s1
    e1 = e1
    e2 = e2
    Services = {s1}
    Editors = {e1, e2}
    Jobs <- WholeRowJobs
    MaxAmount = 2
SPECIFICATION CatalogSpec
INVARIANT BudgetRangeOrdered
