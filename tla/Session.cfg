\* Two sessions, or a COM session with a read that pends; a frame cut off after
\* any number of bytes.  Reads of up to 6 bytes and a buffer that never overflows.
SPECIFICATION Spec
CONSTANTS
    m_size = 70
    MaxChunk = 6
    Failures = FALSE
    Streams <- SessionStreams
    Handle = {h1, h2}
    INVALID = INVALID
    MaxPosted = 64
INVARIANTS TypeOK CleanUntilTorn DamageBounded LostOnlyBehindTorn TitleOfSession
PROPERTIES DialogAllows FramesShown
