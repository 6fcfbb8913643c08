CONSTANTS
    east = east
    west = west
    Sources <- OneSource
    SwitchBot = "switchbot"
    Isolates <- OneIsolate
    LegacyEnvironment = 0
    MaxVersion = 1
    MaxEnvironment = 1
    MaxUnclean = 1
    StorageFails = FALSE
SPECIFICATION FairSpec
PROPERTIES FallbackEnds
