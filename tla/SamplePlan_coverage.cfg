SPECIFICATION Spec
CONSTANTS
    Configs <- UnevenMixtures
    MinLength = 2
    Scale = 6
    MaxCrashes = 0
    None = None
INVARIANTS EveryWindowReached
CHECK_DEADLOCK FALSE
