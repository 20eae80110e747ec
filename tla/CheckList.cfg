\* Five frames of three cards in three seconds, with clears and failing inserts.
SPECIFICATION Spec
CONSTANTS
    Frames <- FrameSet
    MaxTime = 3
    MaxFrames = 5
    Failures = TRUE
INVARIANTS RowsMirrorMap TimesFollowCounts NotOvercounted LastTimeIsLatest
