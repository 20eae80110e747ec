\* Three frames of any type, two commands, and any number of opens and closes.
SPECIFICATION Spec
CONSTANTS
    Speeds <- SpeedSet
    ttoi <- SpeedTable
    Kinds = {"com", "ch9326", "hid"}
    FrameTypes = {1, 2, 3, 4, 5, 6, 7}
    Commands = {1, 7}
    MaxFrames = 3
    MaxCommands = 2
INVARIANTS ButtonFollowsDevice TitleTells PaneKeepsFrames
PROPERTIES FramesHandled
