----------------------------- MODULE SoupBinSession -----------------------------
(***************************************************************************)
(* Session: the SoupBinTCP protocol state machine shared by both drivers.  *)
(* A session is a record; each operator is one method of Session and gives *)
(* the session it leaves behind.                                           *)
(*                                                                         *)
(* A packet is two bytes here, its prefix and its rest, so a read or a     *)
(* write can stop inside it.  Under `compressed` the socket carries one    *)
(* unit per packet, which inflates to those two bytes.  Instants are ages, *)
(* counted up to the point past which no comparison changes.               *)
(***************************************************************************)
EXTENDS Integers, Sequences, FiniteSetsExt

CONSTANTS LoginTimeout, HeartbeatInterval, HeartbeatTimeout,
          Capacity      \* decode_buf_capacity: units per read, and the inflate cap

ASSUME SessionAssumption ==
    /\ {LoginTimeout, HeartbeatInterval, HeartbeatTimeout} \subseteq Nat
    /\ Capacity \in Nat \ {0}

Packet(ty, val) == [ty |-> ty, val |-> val]
Bytes(packet) == <<[of |-> packet, part |-> 1], [of |-> packet, part |-> 2]>>
Deflated(packet) == <<packet>>

\* The bytes of packets in a row.
Flat(packets) ==
    [i \in 1 .. (2 * Len(packets)) |->
        [of |-> packets[(i + 1) \div 2], part |-> IF i % 2 = 1 THEN 1 ELSE 2]]

\* requested is cfg.requested_sequence_number.
new(requested) ==
    [state |-> "Authenticating", requested |-> requested,
     decode_buf |-> <<>>, out |-> <<>>, next_expected_sequence |-> 0,
     since_send |-> 0, since_recv |-> 0, login_left |-> 0,
     recv_staging |-> <<>>, inflating |-> <<>>, capped |-> FALSE]

aged(s) ==
    [s EXCEPT !.since_send = Min({@ + 1, HeartbeatInterval + 1}),
              !.since_recv = Min({@ + 1, HeartbeatTimeout + 1}),
              !.login_left = Max({@ - 1, 0})]

\* next_deadline has come.
deadline_reached(s) ==
    IF s.state = "Authenticating"
    THEN s.login_left = 0
    ELSE \/ s.since_recv >= HeartbeatTimeout
         \/ s.out = <<>> /\ s.since_send >= HeartbeatInterval

----------------------------------------------------------------------------
(* Sending. *)

queue(s, packet) == [s EXCEPT !.out = @ \o Bytes(packet)]

LoginRequest(requested) == Packet("LoginRequest", requested)
ClientHeartbeat == Packet("ClientHeartbeat", 0)
LogoutRequest == Packet("LogoutRequest", 0)
UnsequencedData(payload) == Packet("UnsequencedData", payload)

queue_login(s) == [queue(s, LoginRequest(s.requested)) EXCEPT !.login_left = LoginTimeout]

queue_heartbeat(s) == queue(s, ClientHeartbeat)

close_logout(s) == [s EXCEPT !.state = "Closed"]

login_timed_out(s) == [s EXCEPT !.state = "Closed", !.out = <<>>]

sent_all(s) == [s EXCEPT !.out = <<>>, !.since_send = 0]

\* Mutant: a partial write is started over.
flush_Restarts(s, n) ==
    IF n = Len(s.out) THEN [s EXCEPT !.out = <<>>, !.since_send = 0] ELSE s

\* The socket took n of the queued bytes before it was full.
flush(s, n) ==
    [s EXCEPT !.out = SubSeq(@, n + 1, Len(@)),
              !.since_send = IF n > 0 /\ n = Len(s.out) THEN 0 ELSE @]

\* Mutant: silence is measured from the last receive.
heartbeat_due_Recv(s) == s.out = <<>> /\ s.since_recv > HeartbeatInterval

heartbeat_due(s) == s.out = <<>> /\ s.since_send > HeartbeatInterval

\* Mutant: the client's own sending counts as a sign of life.
silent_Sent(s) == s.since_send > HeartbeatTimeout

silent(s) == s.since_recv > HeartbeatTimeout
heartbeat_timed_out(s) == [s EXCEPT !.state = "Closed", !.out = <<>>]

----------------------------------------------------------------------------
(* Receiving. *)

\* Mutant: output the inflater still holds is forgotten.
staged_InputOnly(s) == s.recv_staging # <<>>

staged(s) == s.recv_staging # <<>> \/ s.capped

\* CompressedReader::feed: input is used up only as far as the cap asks for it, and
\* what does not fit stays inside the inflater.
feed(s) ==
    LET missing == Max({Capacity - Len(s.inflating), 0})
        consumed == Min({Len(s.recv_staging), (missing + 1) \div 2})
        taken == SubSeq(s.recv_staging, 1, consumed)
        inflated == s.inflating \o Flat(taken)
        produced == Min({Len(inflated), Capacity})
    IN  [s EXCEPT !.decode_buf = @ \o SubSeq(inflated, 1, produced),
                  !.recv_staging = SubSeq(@, consumed + 1, Len(@)),
                  !.inflating = SubSeq(inflated, produced + 1, Len(inflated)),
                  !.capped = produced = Capacity]

\* Mutant: a read does not count as a sign of life.
land_Silent(s, units, compressed) ==
    IF compressed THEN feed([s EXCEPT !.recv_staging = @ \o units])
    ELSE [s EXCEPT !.decode_buf = @ \o units]

\* ingest with nothing staged, once the socket gave units.
land(s, units, compressed) ==
    IF compressed THEN feed([s EXCEPT !.recv_staging = @ \o units, !.since_recv = 0])
    ELSE [s EXCEPT !.decode_buf = @ \o units, !.since_recv = 0]

Oversize == "Oversize"          \* length prefix past max_frame_size
Malformed == {Oversize, "Unknown"}

\* take_packet: FrameTooLarge on the prefix alone, UnknownPacketType or a zero length
\* on the whole packet.  The packet stays at the front of the buffer.
unreadable(s) ==
    /\ s.decode_buf # <<>>
    /\ \/ Head(s.decode_buf).of.ty = Oversize
       \/ Len(s.decode_buf) >= 2 /\ Head(s.decode_buf).of.ty \in Malformed

has_packet(s) == Len(s.decode_buf) >= 2 /\ ~unreadable(s)

front(s) == Head(s.decode_buf).of

take_packet(s) == [s EXCEPT !.decode_buf = SubSeq(@, 3, Len(@))]

login_accepted(s) ==
    [take_packet(s) EXCEPT !.state = "Streaming", !.since_recv = 0,
                           !.next_expected_sequence = front(s).val]

login_rejected(s) == [take_packet(s) EXCEPT !.state = "Closed"]

\* Mutant: every packet is counted.
skip_packet_Counts(s) ==
    [take_packet(s) EXCEPT !.next_expected_sequence = @ + 1]

\* Debug, a heartbeat, or a packet reported as a protocol violation: it is consumed.
skip_packet(s) == take_packet(s)

\* Mutant: a message handed out is not counted.
sequenced_data_Uncounted(s) == take_packet(s)

sequenced_data(s) == [take_packet(s) EXCEPT !.next_expected_sequence = @ + 1]

end_of_session(s) == [take_packet(s) EXCEPT !.state = "Closed", !.out = <<>>]

----------------------------------------------------------------------------
\* Nothing is left that the client could work on without new bytes.
Worked(s) == ~staged(s) /\ s.inflating = <<>> /\ ~has_packet(s) /\ ~unreadable(s)

=============================================================================
