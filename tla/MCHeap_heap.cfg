CONSTANTS
    Items <- MCItems
    Keys <- MCKeys
    NoItem = NoItem
    NoLimit = NoLimit
    defaultListJobsLimit = 3
    maxListJobsLimit = 4
    Limits = {0, 1, 2, 5}
SPECIFICATION Spec
INVARIANTS TypeOK  SiftOrder
PROPERTIES IsPriorityQueue ServedAsListed
