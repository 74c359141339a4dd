\* Liveness: one client that may stop reading, two control messages,
\* two events and a code.
CONSTANTS
    c1 = c1
    c2 = c2
    s1 = s1
    s2 = s2
    Clients = {c1}
    Sources = {s1}
    Bot = Bot
    None = None
    SendCap = 1
    ControlCap = 1
    MaxControls = 2
    MaxEvents = 2
    MaxCodes = 1
SPECIFICATION FairSpec
CHECK_DEADLOCK FALSE
PROPERTIES
    CancelledConnectionsEnd
    AcceptedControlsAreAnswered
