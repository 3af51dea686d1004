\* Is the wait always bounded?
CONSTANTS
    Delays = {1, 3}
    StepMax = 2
    KeyMod = 4
    Horizon = 3
    MaxRx = 2
SPECIFICATION Spec
INVARIANT WaitBounded
