\* Two devices that open two rooms each, so that a guest may come back while the
\* host still holds its last channel, or with a stale invitation; three plies.
SPECIFICATION LiveSpec
CONSTANTS
    host_device = host_device
    friend = friend
    Host = host_device
    Guests = {friend}
    None = None
    Turn <- HostThenGuestTwice
    moveLimit = 3
    MaxOpens <- TwoRooms
INVARIANTS
    ReplaysAgree
    CallsAreAgreed
    MessagesAreExpected
PROPERTIES
    ClosedRoomsRest
    StartedDuelsEnd
CHECK_DEADLOCK FALSE
