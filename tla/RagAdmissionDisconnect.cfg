CONSTANTS
    Streams = {r1, r2}
    Chats = {r3}
    Searches = {}
    Keyed = {key}
    Anonymous = {ip}
    RestCap = 1
    McpCap = 1
    KeyRate = 1
    AnonRate = 1
    Window = 1
    KeyLimit = 1
    AnonLimit = 1
    AnonGlobalLimit = 1
    EmbedLimit = 1
    None = None
    MaxTime = 0
    MaxDay = 0
    MaxRestarts = 0
SPECIFICATION Spec
INVARIANT DisconnectReleasesSlot
CHECK_DEADLOCK FALSE
