\* The engine on five boards, with room for three keys in the buffer.
SPECIFICATION Spec
CONSTANTS
    Width = 16
    Modifiers = {"ctrl", "shift"}
    KeySlots = 2
    RegCapacity = 3
    HoldBuffer = 3
    MaxAge = 1
    Boards <- EngineBoards
INVARIANTS NothingSticks FiresOnce
