---------------------------- MODULE HeaderBytes ----------------------------
(***************************************************************************)
(* The bytes of the two headers of a capture file: how a writer stores     *)
(* them in its own byte order (src/tests/builder.c writes every capture of *)
(* the tests), and what pcap_parse_global_header() and                     *)
(* pcap_parse_record_header() of src/src/pcap_reader.c load.  PcapReader   *)
(* takes it from there.                                                    *)
(*                                                                         *)
(* The base of the numbers is a constant: 256, or less for model checking. *)
(***************************************************************************)
EXTENDS Integers, Sequences

CONSTANTS
    BYTE,                  \* 2^8
    U64,                   \* 2^64
    MAGIC_USEC, MAGIC_NSEC, MAGIC_USEC_SWAPPED, MAGIC_NSEC_SWAPPED, MAGIC_PCAPNG,
    LINKTYPE_SPAN,         \* LINKTYPE_MASK + 1
    PCAP_LINKTYPE_ETHERNET, PCAP_MAX_CAPLEN,
    NS_PER_SEC, NS_PER_US,
    Writers,               \* global headers to write: their fields, and the byte order
    Records                \* record headers to write

U32 == BYTE * BYTE * BYTE * BYTE

ASSUME WidthAssumption ==
    /\ BYTE \in Nat /\ BYTE >= 2 /\ U64 \in Nat
    /\ NS_PER_SEC \in Nat \ {0} /\ NS_PER_US \in Nat \ {0}
    /\ (U32 - 1) * NS_PER_SEC + (U32 - 1) * NS_PER_US < U64
ASSUME FieldsAssumption ==
    /\ \A w \in Writers :
         /\ w.be \in {0, 1} /\ w.magic \in 0 .. U32 - 1
         /\ w.major \in 0 .. BYTE * BYTE - 1 /\ w.minor \in 0 .. BYTE * BYTE - 1
         /\ w.snaplen \in 0 .. U32 - 1 /\ w.linktype \in 0 .. U32 - 1
    /\ \A r \in Records :
         /\ r.sec \in 0 .. U32 - 1 /\ r.frac \in 0 .. U32 - 1
         /\ r.caplen \in 0 .. U32 - 1 /\ r.wirelen \in 0 .. U32 - 1
    /\ PCAP_MAX_CAPLEN \in Nat

VARIABLES
    pc,                    \* what comes next
    hdr,                   \* the bytes of the header
    info,                  \* struct pcap_file_info
    rec,                   \* struct pcap_record
    status,                \* what the last call returned
    writer, record         \* history: what was written

vars == <<pc, hdr, info, rec, status, writer, record>>

-----------------------------------------------------------------------------
(***************************************************************************)
(* Storing and loading                                                     *)
(***************************************************************************)
\* The bytes of a number, the least significant first.
shifted(v) == v \div BYTE
bytes16(v) == <<v % BYTE, shifted(v) % BYTE>>
bytes32(v) == <<v % BYTE, shifted(v) % BYTE, shifted(shifted(v)) % BYTE,
                shifted(shifted(shifted(v))) % BYTE>>

\* The same in the byte order of the writer.
bb_u16(v, be) ==
    LET b == bytes16(v) IN IF be = 1 THEN <<b[2], b[1]>> ELSE b
bb_u32(v, be) ==
    LET b == bytes32(v) IN IF be = 1 THEN <<b[4], b[3], b[2], b[1]>> ELSE b

\* Loads from the bytes p at offset o.
load_le16(p, o) == p[o + 2] * BYTE + p[o + 1]
load_be16(p, o) == p[o + 1] * BYTE + p[o + 2]
load_le32(p, o) == ((p[o + 4] * BYTE + p[o + 3]) * BYTE + p[o + 2]) * BYTE + p[o + 1]
load_be32(p, o) == ((p[o + 1] * BYTE + p[o + 2]) * BYTE + p[o + 3]) * BYTE + p[o + 4]

rd16(p, o, be) == IF be = 1 THEN load_be16(p, o) ELSE load_le16(p, o)
rd32(p, o, be) == IF be = 1 THEN load_be32(p, o) ELSE load_le32(p, o)

\* The swapped magics are the magics of the other byte order, and can be told from
\* the magics, which no writer swaps itself.
swapped(v) == load_le32(bb_u32(v, 1), 0)
ASSUME MagicAssumption ==
    /\ {MAGIC_USEC, MAGIC_NSEC} \subseteq 0 .. U32 - 1
    /\ MAGIC_USEC_SWAPPED = swapped(MAGIC_USEC)
    /\ MAGIC_NSEC_SWAPPED = swapped(MAGIC_NSEC)
    /\ MAGIC_USEC # MAGIC_NSEC
    /\ {MAGIC_USEC, MAGIC_NSEC} \cap {MAGIC_USEC_SWAPPED, MAGIC_NSEC_SWAPPED} = {}
    /\ MAGIC_USEC_SWAPPED # MAGIC_NSEC_SWAPPED
    /\ MAGIC_PCAPNG \notin
         {MAGIC_USEC, MAGIC_NSEC, MAGIC_USEC_SWAPPED, MAGIC_NSEC_SWAPPED}
    /\ \A w \in Writers : w.magic \notin {MAGIC_USEC_SWAPPED, MAGIC_NSEC_SWAPPED}

-----------------------------------------------------------------------------
(***************************************************************************)
(* The global header                                                       *)
(***************************************************************************)
NoInfo == [big_endian |-> 0, nsec |-> 0, major |-> 0, minor |-> 0, snaplen |-> 0,
           linktype |-> 0]
NoRecord == [caplen |-> 0, wirelen |-> 0, ts |-> 0]
NotWritten == [be |-> 0, magic |-> 0, major |-> 0, minor |-> 0, snaplen |-> 0, linktype |-> 0]
NoFields == [sec |-> 0, frac |-> 0, caplen |-> 0, wirelen |-> 0]

Init ==
    /\ pc = "write" /\ hdr = << >> /\ info = NoInfo /\ rec = NoRecord /\ status = "OK"
    /\ writer = NotWritten /\ record = NoFields

\* pcap_put_global() of a writer w; thiszone and sigfigs are 0.
pcap_put_global(w) ==
    /\ pc = "write" /\ pc' = "global"
    /\ writer' = w
    /\ hdr' = bb_u32(w.magic, w.be) \o bb_u16(w.major, w.be) \o bb_u16(w.minor, w.be)
              \o bb_u32(0, w.be) \o bb_u32(0, w.be)
              \o bb_u32(w.snaplen, w.be) \o bb_u32(w.linktype, w.be)
    /\ UNCHANGED <<info, rec, status, record>>

\* Mutant: only the low byte order is tried for nanosecond captures.
big_endian_usec(magic) == IF magic = MAGIC_USEC_SWAPPED THEN 1 ELSE 0

\* What the magic, loaded as little-endian, tells.
big_endian(magic) == IF magic \in {MAGIC_USEC_SWAPPED, MAGIC_NSEC_SWAPPED} THEN 1 ELSE 0
nsec(magic) == IF magic \in {MAGIC_NSEC, MAGIC_NSEC_SWAPPED} THEN 1 ELSE 0
is_magic(magic) ==
    magic \in {MAGIC_USEC, MAGIC_NSEC, MAGIC_USEC_SWAPPED, MAGIC_NSEC_SWAPPED}

\* The fields behind the magic; the top bits of the link type are not its own.
parsed_info(be, ns) ==
    [big_endian |-> be, nsec |-> ns, major |-> rd16(hdr, 4, be), minor |-> rd16(hdr, 6, be),
     snaplen |-> rd32(hdr, 16, be), linktype |-> rd32(hdr, 20, be) % LINKTYPE_SPAN]

pcap_parse_global_header ==
    /\ pc = "global"
    /\ LET magic == load_le32(hdr, 0)
           f == parsed_info(big_endian(magic), nsec(magic)) IN
       /\ info' = IF is_magic(magic) THEN f ELSE NoInfo
       /\ status' = CASE magic = MAGIC_PCAPNG -> "ERR_PCAPNG"
                      [] magic # MAGIC_PCAPNG /\ ~is_magic(magic) -> "ERR_BAD_MAGIC"
                      [] is_magic(magic) /\ <<f.major, f.minor>> # <<2, 4>> -> "ERR_BAD_VERSION"
                      [] is_magic(magic) /\ <<f.major, f.minor>> = <<2, 4>> ->
                           IF f.linktype # PCAP_LINKTYPE_ETHERNET THEN "ERR_BAD_LINKTYPE"
                           ELSE "OK"
    /\ pc' = IF status' = "OK" THEN "record" ELSE "refused"
    /\ UNCHANGED <<hdr, rec, writer, record>>

-----------------------------------------------------------------------------
(***************************************************************************)
(* A record header                                                         *)
(***************************************************************************)
\* pcap_put_record(), the header.
pcap_put_record(r) ==
    /\ pc = "record" /\ pc' = "header"
    /\ record' = r
    /\ hdr' = bb_u32(r.sec, writer.be) \o bb_u32(r.frac, writer.be)
              \o bb_u32(r.caplen, writer.be) \o bb_u32(r.wirelen, writer.be)
    /\ UNCHANGED <<info, rec, status, writer>>

\* Mutant: the fraction is scaled in 32 bits.
frac_ns_32(frac, ns) == IF ns = 1 THEN frac ELSE (frac * NS_PER_US) % U32

\* frac_ns and ts_ns, in 64 bits.
frac_ns(frac, ns) == IF ns = 1 THEN frac ELSE (frac * NS_PER_US) % U64
ts_ns(sec, frac, ns) == (((sec * NS_PER_SEC) % U64) + frac_ns(frac, ns)) % U64

\* A bad caplen is refused before the rest is looked at.
pcap_parse_record_header ==
    /\ pc = "header"
    /\ LET be == info.big_endian
           caplen == rd32(hdr, 8, be)
           wirelen == rd32(hdr, 12, be) IN
       \/ /\ caplen > PCAP_MAX_CAPLEN
          /\ rec' = [rec EXCEPT !.caplen = caplen, !.wirelen = wirelen]
          /\ status' = "ERR_BAD_CAPLEN" /\ pc' = "refused"
       \/ /\ caplen <= PCAP_MAX_CAPLEN
          /\ rec' = [caplen |-> caplen, wirelen |-> IF wirelen < caplen THEN caplen ELSE wirelen,
                     ts |-> ts_ns(rd32(hdr, 0, be), rd32(hdr, 4, be), info.nsec)]
          /\ status' = "OK" /\ pc' = "read"
    /\ UNCHANGED <<hdr, info, writer, record>>

Next ==
    \/ \E w \in Writers : pcap_put_global(w)
    \/ pcap_parse_global_header
    \/ \E r \in Records : pcap_put_record(r)
    \/ pcap_parse_record_header

Spec == Init /\ [][Next]_vars

-----------------------------------------------------------------------------
(***************************************************************************)
(* Properties                                                              *)
(***************************************************************************)
\* The byte order of the writer is learnt from its magic alone, and every field of
\* the header is then what was written, in either order; other magics are refused.
HeaderReadsBack ==
    pc \in {"record", "header", "read", "refused"} =>
        IF writer.magic \in {MAGIC_USEC, MAGIC_NSEC}
        THEN /\ info.big_endian = writer.be
             /\ (info.nsec = 1) <=> (writer.magic = MAGIC_NSEC)
             /\ info.major = writer.major /\ info.minor = writer.minor
             /\ info.snaplen = writer.snaplen
             /\ info.linktype = writer.linktype % LINKTYPE_SPAN
        ELSE pc = "refused"

\* A record header is read back in either byte order, and its timestamp is the sum
\* that the 64 bits are meant to hold, for every pair of 32-bit fields; seconds and
\* fraction can be told apart again unless the fraction exceeds a second.
RecordReadsBack ==
    pc = "read" =>
        LET unit == IF info.nsec = 1 THEN 1 ELSE NS_PER_US IN
        /\ rec.caplen = record.caplen
        /\ rec.wirelen = IF record.wirelen < record.caplen THEN record.caplen
                         ELSE record.wirelen
        /\ rec.ts = record.sec * NS_PER_SEC + record.frac * unit
        /\ record.frac * unit < NS_PER_SEC => (rec.ts \div NS_PER_SEC) = record.sec
=============================================================================
