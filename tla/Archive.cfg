CONSTANT Cases <- SomeCases
SPECIFICATION Spec
INVARIANTS GraphRestored FailsOnlyAtConflict DeletesWhatItMade
