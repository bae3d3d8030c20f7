CONSTANT N = 3
SPECIFICATION MainSpec
INVARIANTS NormalExitIsUnanimous NoCallAfterFinalize
PROPERTIES RunEnds
