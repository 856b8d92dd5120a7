SPECIFICATION Spec
CONSTANTS
    BootStates = {"NM", "SSM", "SM"}
    MaxFailures = 2
    MaxResets = 1
INVARIANTS SafeClock ClockAgrees
