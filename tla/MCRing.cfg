CONSTANTS
    Clients = {c1, c2}
    Workers = {w1}
    Slots = {s1, s2}
    NoSlot = NoSlot
    Calls <- OneOrTwo
    AckMod = 2
    MaxRequests = 3
SPECIFICATION ClientSpec
INVARIANTS
    SlotOwnership
    OwnReplies
    NeverStale
PROPERTIES
    CallReturns
    NoSlotLeak
CHECK_DEADLOCK FALSE
