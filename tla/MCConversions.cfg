CONSTANTS
    Addresses <- MCAddresses
    ADDR_STR_LEN = 46
    ENDPOINT_STR_LEN = 54
    BYTE = 4
    U64 = 65536
    MAGIC_USEC = 156
    MAGIC_NSEC = 147
    MAGIC_USEC_SWAPPED = 54
    MAGIC_NSEC_SWAPPED = 198
    MAGIC_PCAPNG = 20
    LINKTYPE_SPAN = 64
    PCAP_LINKTYPE_ETHERNET = 1
    PCAP_MAX_CAPLEN = 27
    NS_PER_SEC = 128
    NS_PER_US = 8
    Writers <- MCWriters
    Records <- MCRecords
SPECIFICATION MCSpec
CHECK_DEADLOCK FALSE
INVARIANTS
    RunIsFirstLongest FitsBuffers TextReadsBack HeaderReadsBack RecordReadsBack
