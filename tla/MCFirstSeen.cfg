CONSTANTS
    DECODE_MAX_VLANS = 2
    GTPU_MAX_EXT_HEADERS = 16
    GtpMsgTypes <- MCTypes
    FragSlots = {0, 1}
    SlotOf <- MCSlotOf
    GTPU_PORT = 2152
    Packets <- MCPackets
    MaxRecords = 4
SPECIFICATION MCSpec
INVARIANTS
    FirstSeenGivesDirection
