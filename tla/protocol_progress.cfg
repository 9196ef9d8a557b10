SPECIFICATION ProtocolSpec
CONSTANTS
    Port = {p1}
    MaxConnections = 1
    MaxData = 1
    Caller = {a, b}
    Poller = poller
    Requests = {"StartPortForward", "StopPortForward", "GetClipboard"}
    MaxFrame = 2
    MaxCalls = 3
    None = None
CHECK_DEADLOCK FALSE
PROPERTIES
    RequestsReturn
    EventsPolled
    CutEnds
