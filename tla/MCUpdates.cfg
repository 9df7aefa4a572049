SPECIFICATION Spec
CONSTANTS
    MaxVersion = 3
    Broken = {2}
    Modes <- AllModes
    MaxOps = 2
    MaxCrashes = 2
    MaxFaults = 1
INVARIANT UpdateSafe
PROPERTIES
    NoInstallLoop
    InstallsAtomically
    HandoffResumes
CHECK_DEADLOCK FALSE
