SPECIFICATION Spec
CONSTANTS
    NodeIds = {0, 1, 255}
    BoxIds = {1, 2}
    TermSet = {0, 258, 16777215}
    TimeSet = {0, 1000, 70000000}
    MAX_HOPS = 3
INVARIANTS EntrySurvives NeverSpills
CHECK_DEADLOCK FALSE
