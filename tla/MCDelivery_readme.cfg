SPECIFICATION DeliverySpec
CONSTANTS
    c1 = c1
    c2 = c2
    Clients = {c1}
    Symbols = {"A"}
    Channels <- ThreeChannels
    MaxTasks = 2
    MaxRequests = 2
INVARIANT SubscribedIsServed
CHECK_DEADLOCK FALSE
