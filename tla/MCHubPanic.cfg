\* What the comment of Broadcast says: TLC finds the client that leaves
\* between snapshot and send, and the one that is therefore left out.
CONSTANTS
    c1 = c1
    c2 = c2
    s1 = s1
    s2 = s2
    Clients = {c1, c2}
    Sources = {s1}
    Bot = Bot
    None = None
    SendCap = 1
    ControlCap = 1
    MaxControls = 0
    MaxEvents = 1
    MaxCodes = 0
SPECIFICATION Spec
CHECK_DEADLOCK FALSE
PROPERTIES
    BroadcastReachesConnected
