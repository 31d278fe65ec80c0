SPECIFICATION Spec
CONSTANTS
    DayLen = 5
    WeekLen = 3
    Windows <- MCWindows
    RetryLen = 2
    MaxEdits = 1
    MaxFaults = 1
INVARIANTS WindowIsRight NextIsNext StatusTimely
