\* Four frames in three seconds, with clears and failing inserts.
SPECIFICATION Spec
CONSTANTS
    Frames <- FrameSet
    MaxTime = 3
    MaxFrames = 4
    Failures = TRUE
INVARIANTS RowsMirrorVec AnswersNewestFirst
