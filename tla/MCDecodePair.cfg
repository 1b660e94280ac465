CONSTANTS
    ETH_HDR_LEN = 1
    VLAN_TAG_LEN = 1
    IPV4_MIN_HDR = 2
    IPV6_HDR_LEN = 2
    IPV6_FRAG_LEN = 1
    IPV6_EXT_MIN = 1
    TCP_MIN_HDR = 2
    UDP_HDR_LEN = 1
    ICMP_MIN_HDR = 1
    GTPU_HDR_LEN = 2
    GTPU_OPT_LEN = 1
    DECODE_MAX_VLANS = 1
    IPV6_MAX_EXT_HEADERS = 2
    GTPU_MAX_EXT_HEADERS = 1
    FrameLens <- MCFrameLens
    HdrLens <- MCHdrLens
    Len16 <- MCLen16
    Ext6Lens = {1, 2}
    ExtGLens = {0, 1}
    GtpMsgTypes = {"gpdu", "end_marker"}
SPECIFICATION PairSpec
INVARIANTS
    SameUntilCut CutOnlyTruncates
