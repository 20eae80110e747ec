\* HID devices only: nothing is lost.
SPECIFICATION Spec
CONSTANTS
    Handle = {h1, h2}
    INVALID = INVALID
    Kinds = {"hid"}
    MaxSent = 3
    MaxSessions = 3
    MaxReads = 1
PROPERTIES CommandsKept
