SPECIFICATION Spec
CONSTANTS
    GuestCells = {1, 2}
    HostCell = 3
    Values = {0, 1}
    Scenes <- MCScenes
    Budget = 2
    MemoLimit = 1
    ClockLimit = 3
    MaxStores = 1
    MaxWrites = 2
INVARIANTS BudgetKept TexelsApart
PROPERTIES ServesCurrent
