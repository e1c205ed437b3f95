SPECIFICATION Spec
CONSTANTS
    Machines <- MCMachines
    DevicesPerBus = 2
    FunctionsPerDev = 2
    Bars = 3
    Ports = 2
    Tries = 3
    Polls = 2
    Replugs = 2
    Handoffs <- MCHandoffs
    PAGE_SIZE = 4
    U32 = 128
    TicksPerSecond = 1
    MaxPresses = 2
    TimeoutSeconds = 1
    ScanCodes = {30, 42}
    Setups <- MCSetups
CHECK_DEADLOCK FALSE
INVARIANTS
    PciDevicesListed
    EventsInOrder
    BarsKeepAddresses
    UsbDevicesListed
    HandoffSurvives
    TimeoutsTakeTheirTime
    KeyboardServed
PROPERTIES
    KernelSettles
