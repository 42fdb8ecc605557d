\* Chords, early fire and one-shots: order and coming to rest.
SPECIFICATION LiveSpec
CONSTANTS
    Width = 16
    Modifiers = {"ctrl", "shift"}
    KeySlots = 6
    RegCapacity = 16
    HoldBuffer = 16
    MaxAge = 1
    Boards <- WaitingBoards
INVARIANTS NothingSticks ChordsKeepOrder
PROPERTIES WaitsEnd
