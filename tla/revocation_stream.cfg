SPECIFICATION FairSpec
CONSTANTS
    Streams = {s1}
    Pushers = {p1, p2}
    MaxPushes = 2
    Buffer = 2
    Window = 1
    None = None
INVARIANTS DeliveryIsSound
PROPERTIES KeepsFeedPromise PushReturns GoneSubscribersLeave
CHECK_DEADLOCK FALSE
