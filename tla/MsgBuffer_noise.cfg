\* Noise, unknown types and a buffer too small for the incoming pieces; malloc
\* and PostMessage may fail.
SPECIFICATION Spec
CONSTANTS
    m_size = 20
    MaxChunk = 7
    Failures = TRUE
    Streams <- NoiseStreams
INVARIANTS Bounds PendingIsSuffix Drained PostedInOrder RepeatedOnlyAfterNoise
