\* Words of 6 bits, a clock of 8 ms, four mouse key events, two lanes.
SPECIFICATION Spec
CONSTANTS
    Width = 6
    Threshold = 2
    ClockWrap = 8
    MaxSkips = 1
    MouseBoard <- MCMouseBoard
    MouseConfigs <- MCMouseConfigs
    MaxMouseEvents = 4
    EntryConfigs <- MCEntryConfigs
    Devices = {1, 2}
    MaxMotions = 3
    MaxLayerKeys = 3
    MaxTyped = 1
    Phases <- MCPhases
    EncoderDebounce = 1
    Lanes = 2
    Retries = 1
    ReadJobs <- MCReadJobs
    WriteJobs <- MCWriteJobs
    OneByte = 2
    ForkBoards <- MCForkBoards
    StateBits = {"led"}
    MacroEdits <- MCMacroEdits
    Shift = "shift"
    WordKeys = {"a", "semi"}
    ShiftedKeys = {"a"}
    KeycodeSlots = 3
    MacroRoom = 2
    Editors = {1, 2}
    ChunkDefaults <- MCChunkDefaults
    ChunkEdits <- MCChunkEdits
    MaxEdits = 2
INVARIANTS ReplacedKeysAreSound SavedMacrosBoot PatternsAgree StepsAccountForTurn PagesAreWhole
PROPERTIES MouseFollowsKeys LayerFollowsMotion DebouncedRight
CHECK_DEADLOCK FALSE
