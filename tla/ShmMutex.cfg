CONSTANT Spinners = 4
SPECIFICATION SpinSpec
INVARIANTS FlagMapped
PROPERTIES SpinImplementsMutex SomeRankEnters
