\* A delay shorter and one longer than the longest wait; three keys.
CONSTANTS
    Delays = {1, 3}
    StepMax = 2
    KeyMod = 4
    Horizon = 3
    MaxRx = 2
SPECIFICATION FairSpec
INVARIANTS TimeoutsInOrder ParaOwnedOnce TableFollowsHeap
PROPERTIES DeletedStaysSilent DueTimerFires
