SPECIFICATION PartsSpec
CONSTANTS
    MaxTask = 4
    SliceUnit = 1
    Workload = {"spawn"}
    FbWidths = {0, 1024, 1920}
    Machines <- MCMachines
    BootCompMax = 24 BootWmMax = 8
    XHCI_NCMD = 16
    XHCI_NEVT = 3
    XHCI_NDEV = 1
    UsbPorts <- MCUsbPorts
    UsbReports <- MCUsbReports
    UsbMaxReports = 2
    UsbSelfPolls = 1
    UsbFaults = {"stall"}
    SH_JOBMAX = 3 SH_MAXCMDS = 3 SH_ENVMAX = 1 ShLines <- MCShLines ShReaders = {"cat"} ShFailing = {"false","nope"} ShFiles = {"f"} ShMaxLines = 2 ShFaults = 1
CHECK_DEADLOCK FALSE
INVARIANTS
    StartSound ShellSound
PROPERTIES
    ChainObeyed StarvationFree PartsEnd
