SPECIFICATION Spec
CONSTANTS
    None = None
    Process = {p1, p2}
    Cli = {c1, c2}
    Commands = {"session", "start", "stop", "ask"}
    MaxTries = 1
    Crashes = TRUE
    Shell = {s1, s2}
    IpcCommand = {"GetClipboard", "SetClipboard", "OpenBrowser", "SendToClient", "Status", "Ping"}
    MaxCommands = 2
CHECK_DEADLOCK FALSE
INVARIANTS
    SomeoneReachable
    FailsOnlyContended
PROPERTIES
    CommandsReturn
    ShellsReturn
