SPECIFICATION DeliverySpec
CONSTANTS
    c1 = c1
    c2 = c2
    Clients = {c1, c2}
    Symbols = {"A"}
    Channels <- OneChannel
    MaxTasks = 2
    MaxRequests = 2
INVARIANTS
    TypeOK
    LateOnlyIfWaited
    OthersServed
    EndedForgotten
PROPERTY EventsGoOut
CHECK_DEADLOCK FALSE
