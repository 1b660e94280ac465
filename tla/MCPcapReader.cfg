CONSTANTS
    PCAP_GLOBAL_HDR_LEN = 2
    PCAP_RECORD_HDR_LEN = 2
    PCAP_MAX_CAPLEN = 2
    MAGIC_LEN = 1
    Files <- MCFiles
    WireLens = {1, 3}
SPECIFICATION Spec
INVARIANTS
    ReadsFitBuffer StreamsOwned ReadErrorsHaveErrno
PROPERTIES
    ImplementsSource
