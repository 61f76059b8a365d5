-------------------------------- MODULE UdpDecap --------------------------------
(***************************************************************************)
(* UdpDecap: UDP payloads out of Ethernet frames.  A frame is a record of  *)
(* what its headers say, and `len`, the bytes really there: a field counts *)
(* only once the code has made sure that its bytes exist.                  *)
(***************************************************************************)
EXTENDS Integers, Sequences, FiniteSetsExt

ETH_HDR == 14
VLAN_TAG == 4
IPV4_HDR == 20
UDP_HDR == 8
ETHERTYPE_IPV4 == 2048
ETHERTYPE_VLAN == 33024
IPPROTO_UDP == 17

\* ethertype and, under a VLAN tag, inner; ihl in bytes; frag: the fragment bits.
FrameHeaders ==
    [len : Nat, ethertype : Nat, inner : Nat, version : Nat, ihl : Nat, frag : Nat, proto : Nat,
     total : Nat, ip : Nat, port : Nat, udp_len : Nat]

Filtered(reason) == [ok |-> FALSE, why |-> reason]
Payload(from, to) == [ok |-> TRUE, start |-> from, end |-> to]

\* Mutant: the datagram's own length is trusted.
udp_len_fits_Trusted(f) == f.udp_len >= UDP_HDR

udp_len_fits(f) == f.udp_len >= UDP_HDR /\ f.udp_len <= f.total - f.ihl

\* The payload's place in the frame, or why the frame is filtered: the first check
\* that fails decides.  dst_ip is {} when any address will do.
parse_udp(f, dst_port, dst_ip) ==
    LET tagged == f.ethertype = ETHERTYPE_VLAN
        l3 == IF tagged THEN ETH_HDR + VLAN_TAG ELSE ETH_HDR
        ip_len == f.len - l3
        checks == <<
            [fails |-> f.len < ETH_HDR, why |-> "Truncated"],
            [fails |-> f.ethertype \notin {ETHERTYPE_IPV4, ETHERTYPE_VLAN}, why |-> "NotIpv4"],
            [fails |-> ip_len < 0, why |-> "Truncated"],
            [fails |-> tagged /\ f.inner # ETHERTYPE_IPV4, why |-> "NotIpv4"],
            [fails |-> ip_len < IPV4_HDR, why |-> "Truncated"],
            [fails |-> f.version # 4, why |-> "NotIpv4"],
            [fails |-> f.ihl < IPV4_HDR \/ ip_len < f.ihl, why |-> "Truncated"],
            [fails |-> f.frag # 0, why |-> "Fragment"],
            [fails |-> f.proto # IPPROTO_UDP, why |-> "WrongDst"],
            [fails |-> f.total < f.ihl \/ f.total > ip_len, why |-> "Truncated"],
            [fails |-> f.total - f.ihl < UDP_HDR, why |-> "Truncated"],
            [fails |-> f.port # dst_port \/ dst_ip \notin {{}, {f.ip}}, why |-> "WrongDst"],
            [fails |-> ~udp_len_fits(f), why |-> "Truncated"]>>
        failed == {i \in DOMAIN checks : checks[i].fails}
    IN  IF failed # {} THEN Filtered(checks[Min(failed)].why)
        ELSE Payload(l3 + f.ihl + UDP_HDR, l3 + f.ihl + f.udp_len)

\* deliver: how many pending frames one pass takes off the queue, those it filters
\* out included; it stops at the frame that fills the batch.
popped(pending, room, dst_port, dst_ip) ==
    LET accepted(n) ==
            Cardinality({i \in 1 .. n : parse_udp(pending[i].bytes, dst_port, dst_ip).ok})
    IN  Min({n \in DOMAIN pending : accepted(n) = room} \cup {Len(pending)})
=============================================================================
