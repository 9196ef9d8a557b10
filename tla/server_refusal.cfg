SPECIFICATION ServerSpec
CONSTANTS
    None = None
    Conn = {d1, d2, d3}
    Kinds = {"Request", "Shutdown"}
    MaxClients = 2
    MaxRequests = 3
CHECK_DEADLOCK FALSE
PROPERTIES
    RefusedOnlyWhenFull
