\* Streams of frames only; reads of up to 8 bytes into the smallest buffer that
\* holds such a read beside an incomplete frame (8 + 17 < 26).
SPECIFICATION Spec
CONSTANTS
    m_size = 26
    MaxChunk = 8
    Failures = FALSE
    Streams <- FrameStreams
PROPERTIES DeliversFrames FramesPosted
