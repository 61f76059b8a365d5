---------------------------- MODULE MCMoldUdpReceiver ----------------------------
(* Traffic mixes for the receiver.  Each is a handful of datagrams the network may
   deliver any number of times in any order. *)
EXTENDS MoldUdpReceiver

\* Every number a traffic mix here names.
Numbers == 0 .. 8

Data(seq, n) == [kind |-> "Data", session |-> "feed", sequence |-> seq, count |-> n, whole |-> TRUE]
Control(k, seq) == [kind |-> k, session |-> "feed", sequence |-> seq, count |-> 0, whole |-> TRUE]

\* One message per datagram, one datagram of two, a heartbeat: the ring of two fills up.
OneLegTraffic == {Data(1, 1), Data(2, 1), Data(3, 1), Data(4, 2), Control("Heartbeat", 5)}
Singles == {Data(q, 1) : q \in 1 .. 5}

\* Joining a live feed on two legs that cut it into datagrams differently: any packet
\* anchors the stream, a cut-off one too; the other leg may lag behind the anchor; a
\* stray session may lock first.
TwoLegTraffic ==
    {Data(2, 1), Data(2, 2), Data(3, 2), Control("Heartbeat", 3), Control("EndOfSession", 5),
     [Data(2, 2) EXCEPT !.whole = FALSE], [Data(3, 1) EXCEPT !.session = "other"],
     [Data(1, 0) EXCEPT !.kind = "Short"]}

\* Three messages: everything lost can be asked for again.
LiveTraffic == {Data(1, 1), Data(2, 1), Data(3, 1), Control("Heartbeat", 4)}

\* A three-message datagram overlapping what an earlier refusal consumed.
OverlapTraffic == {Data(1, 1), Data(2, 1), Data(4, 1), Data(7, 1), Data(3, 3)}
=============================================================================
