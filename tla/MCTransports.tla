------------------------------- MODULE MCTransports -------------------------------
(* Small transports, and frames around every length and field the filters look at. *)
EXTENDS Transports

FrameShapes ==
    [len : {13, 17, 33, 41, 42, 45, 46, 50},
     ethertype : {ETHERTYPE_IPV4, ETHERTYPE_VLAN, 2054}, inner : {ETHERTYPE_IPV4, ETHERTYPE_VLAN},
     version : {4, 6}, ihl : {16, 20, 24}, frag : {0, 1}, proto : {6, IPPROTO_UDP},
     total : {19, 27, 28, 32}, ip : {1}, port : {1}, udp_len : {7, 8, 12}]

\* A datagram to us, tagged, and a fragment of TCP.
Wanted ==
    [len |-> 46, ethertype |-> ETHERTYPE_VLAN, inner |-> ETHERTYPE_IPV4, version |-> 4,
     ihl |-> 20, frag |-> 0, proto |-> IPPROTO_UDP, total |-> 28, ip |-> 1, port |-> 1, udp_len |-> 8]
ArrivingFrames == {Wanted, [Wanted EXCEPT !.proto = 6, !.frag = 1]}
=============================================================================
