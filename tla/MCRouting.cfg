\* Flips, suspends and reconnects with reports anywhere on their way, on a board with a
\* pointing device and one without.
SPECIFICATION FairSpec
CONSTANTS
    kbd = kbd
    a = a
    b = b
    up = up
    Types = {kbd}
    BootType = kbd
    Pointing = {{}, {kbd}}
    Pressed = {a}
    Up = up
    ChannelSize = 2
    MaxReports = 4
    MaxLinkEvents = 2
INVARIANTS NoStuckKey InactiveHostIsClean
PROPERTIES SendersProgress
CHECK_DEADLOCK FALSE
