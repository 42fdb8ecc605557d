\* Remote wakeup: the signal is latched across suspends.
SPECIFICATION FairSpec
CONSTANTS
    kbd = kbd
    a = a
    b = b
    up = up
    Types = {kbd, mouse}
    BootType = kbd
    Pointing = {{}}
    Pressed = {a}
    Up = up
    ChannelSize = 3
    MaxReports = 2
    MaxLinkEvents = 2
PROPERTY WakeupIsForReport
CHECK_DEADLOCK FALSE
