\* The heading "first time received" against what the column shows.
SPECIFICATION Spec
CONSTANTS
    Frames <- FrameSet
    MaxTime = 3
    MaxFrames = 3
    Failures = FALSE
INVARIANTS FirstTimeIsFirst
