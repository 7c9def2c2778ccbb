SPECIFICATION Spec
CONSTANTS
    Task = {t1, t2, t3}
    MaxAdds = 3
    MaxRuns = 2
CHECK_DEADLOCK FALSE
INVARIANTS
    TypeOK
    DependenciesFirst
    RefusedRightly
    Verdict
PROPERTIES
    ExecutionEnds
