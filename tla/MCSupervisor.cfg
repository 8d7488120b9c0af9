SPECIFICATION Spec
CONSTANTS
    N = 2
    Needs <- MCNeeds
    Supported = {1, 2}
    MaxFailures = 1
INVARIANTS NoFalseInterrupt NeverReruns PassedMeansRan
PROPERTIES LossReported
CHECK_DEADLOCK FALSE
