SPECIFICATION ProtocolSpec
CONSTANTS
    Port = {p1}
    MaxConnections = 2
    MaxData = 1
    Caller = {a}
    Poller = poller
    Requests = {"StartPortForward", "StopPortForward", "PortForwardData", "GetClipboard", "SetClipboard", "OpenBrowser"}
    MaxFrame = 3
    MaxCalls = 2
    None = None
CHECK_DEADLOCK FALSE
INVARIANTS
    EventOrder
    ClosedIsReported
    ActiveIsOpen
    NothingLost
