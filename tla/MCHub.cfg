\* Two clients with one control message each, one event of whatsmeow, buffers and
\* a Control channel of one place, so that they fill: broadcasts overlap with each
\* other and with clients that come and go.
CONSTANTS
    c1 = c1
    c2 = c2
    s1 = s1
    s2 = s2
    Clients = {c1, c2}
    Sources = {s1}
    Bot = Bot
    None = None
    SendCap = 1
    ControlCap = 1
    MaxControls = 1
    MaxEvents = 1
    MaxCodes = 0
SYMMETRY ClientSymmetry
SPECIFICATION Spec
CHECK_DEADLOCK FALSE
INVARIANTS
    TypeOK
    ClosedMeansGone
    StreamsAreOrdered
    OneAnswerPerControl
