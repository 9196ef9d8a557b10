SPECIFICATION Spec
CONSTANTS
    None = None
    Nil = Nil
    NoChild = NoChild
    Conn = {d1, d2, d3}
    Kinds = {"Request", "Shutdown", "Malformed"}
    MaxClients = 2
    MaxRequests = 2
    Base = 2
    Payloads <- SomePayloads
    MaxMessages = 2
    User = {u1, u2, u3}
    Ops <- AllButIndexLookups
    Child = {x1, x2}
    MaxAsked = 3
    Session = {s1}
    Worker = {w1, w2}
    Changes = {"Idle", "Closing"}
    MaxSamples = 0
    MaxChanges = 2
    MaxUse = 2
    MaxResets = 0
CHECK_DEADLOCK FALSE
INVARIANTS
    FramesAligned
PROPERTIES
    NextConnectionStops
    WaitingEnds
    ImplementsFifo
    SentIsReceived
    CallsReturn
    ChildEnds
    HistoryForgets
