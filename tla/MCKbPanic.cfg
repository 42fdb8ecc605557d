\* A tap-hold key above a plain key.
SPECIFICATION Spec
CONSTANTS
    Width = 16
    Modifiers = {"ctrl", "shift"}
    KeySlots = 6
    RegCapacity = 16
    HoldBuffer = 16
    MaxAge = 1
    Boards <- Overlaid
INVARIANTS NoPanic
