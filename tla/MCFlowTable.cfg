CONSTANTS
    Keys <- MCKeys
    Packets <- MCPackets
    NoKey = 0
    Hash <- MCHash
    Capacities <- MCCapacities
    MaxCapacity = 16
    LOAD_NUM = 7
    LOAD_DEN = 10
    MaxAdds = 6
SPECIFICATION FairSpec
INVARIANTS
    TypeOK OneReachableSlotPerFlow CountWithinLoad FindIsExact
PROPERTIES
    ImplementsMap CallsReturn
