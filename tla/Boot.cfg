SPECIFICATION ChainSpec
CONSTANTS
    Disks <- MCDisks
    FatEntries = 4
    BytesPerCluster = 2
    EntriesPerCluster = 2
    Tables = 4
    TssAddress = 19088743
    SCREEN_WIDTH = 5
    SCREEN_HEIGHT = 3
    Printer = {"kidle", "syscore", "pcihub"}
    BufferSize = 2
    StalePositions = {0, 1, 3}
INVARIANTS
    KernelImageIsLoaded
    FailuresStopTheBoot
    BuffersApart
    StartInterruptsHandled
    TextInItsColour
    ScreenShowsTail
    RecordsWhole
    PanicIsLast
PROPERTIES
    BootEnds
