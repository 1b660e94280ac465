CONSTANTS
    DECODE_MAX_VLANS = 2
    GTPU_MAX_EXT_HEADERS = 16
    GtpMsgTypes <- MCTypes
    FragSlots = {0}
    SlotOf <- MCSlotOf
    GTPU_PORT = 2152
    Packets <- MCPackets
    MaxRecords = 2
    NS_PER_SEC = 10
    NS_PER_MS = 2
    NS_PER_US = 1
    PCAP_GLOBAL_HDR_LEN = 2
    PCAP_RECORD_HDR_LEN = 2
    PCAP_MAX_CAPLEN = 2
    MAGIC_LEN = 1
    WireLens = {2}
    Names <- MCNames
    NumberOf <- MCNumberOf
    DEFAULT_TOP_N = 3
    MAX_TOP_N = 5
    ULONG_MAX = 7
    NULL = NULL
    Files <- MCFiles
    ArgLists <- MCArgs
SPECIFICATION MCSpec
CHECK_DEADLOCK FALSE
INVARIANTS
    ExitOkMeansComplete RowsAddUp TableAgreesWithCsv NamesNeverClash ReleasedAtExit
PROPERTIES
    Exits
