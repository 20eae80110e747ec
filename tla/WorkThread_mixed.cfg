\* A COM or HID device and the next one, of either kind, on a reused handle value or
\* another.
SPECIFICATION Spec
CONSTANTS
    Handle = {h1, h2}
    INVALID = INVALID
    Kinds = {"com", "hid"}
    MaxSent = 2
    MaxSessions = 2
    MaxReads = 2
INVARIANTS Conserved NoLostWakeup StaleCopyBounded
PROPERTIES CommandsSettled HandleAdopted
