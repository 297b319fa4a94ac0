SPECIFICATION FairIngressSpec
CONSTANTS
    m1 = m1
    m2 = m2
    Events <- Messages
    Tasks <- OneDuplicate
    SeenLimit = 1
    Inbounds = {"cli", "sdk"}
    AckModes = {"async", "sync"}
    MaxFaults = 2
INVARIANT OneVoice
PROPERTIES NoReplayOfMarked DeliveredIsHandled
CHECK_DEADLOCK FALSE
