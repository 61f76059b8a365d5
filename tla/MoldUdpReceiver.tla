----------------------------- MODULE MoldUdpReceiver -----------------------------
(***************************************************************************)
(* MoldUdpReceiver: the parts of the MoldUDP64 client put together.  The   *)
(* reassembly ring, the gap map, the request emitter and the A/B arbiter   *)
(* are the component modules; this module is the receive path that drives  *)
(* them, one caller call at a time.                                        *)
(*                                                                         *)
(* One call (poll, recv or recv_owned) is a run of steps tracked by pc:    *)
(*   idle     between calls: the caller holds the last outcome             *)
(*   pump     top of the loop in pump(), or its round of re-requests       *)
(*   block    inside process_next_pending, one step per message block      *)
(*   confirm  inside drain_confirmed_gaps, one step per confirmed gap      *)
(*   wait     recv parked in wait_ready                                    *)
(*                                                                         *)
(* The network is any: at each poll of the sources every leg returns some  *)
(* burst of the datagrams of the session, so datagrams are lost, repeated, *)
(* reordered and delayed without bound.  The re-request server answers     *)
(* only what it was asked.                                                 *)
(***************************************************************************)
EXTENDS SequenceReassembler, GapRequestHandler, Sequences, FiniteSetsExt

CONSTANTS Legs,             \* number of legs; the arbiter runs with two or more
          Recovery,         \* TRUE with a Requester, FALSE with NoRecovery
          StartSequence,    \* configured start_sequence, 0 for None
          ConfirmWindow, Interval,
          Datagrams,        \* what the legs may deliver
          Retransmissions,  \* what the re-request server may send back
          MaxBurst,         \* datagrams one recv_burst returns
          None              \* Option::None: no session, item, datagram

ASSUME ReceiverAssumption ==
    /\ Legs \in 1 .. 255
    /\ Recovery \in BOOLEAN
    /\ StartSequence \in Nat
    /\ ConfirmWindow \in Nat
    /\ {Interval, MaxChunk, MaxBurst} \subseteq Nat \ {0}

\* A downstream packet as the receiver tells packets apart.  `kind` is what the
\* message count says, "Short" a packet parse_header rejects; `whole` is FALSE when
\* a message block is cut off.
Packet == [kind : {"Data", "Heartbeat", "EndOfSession", "Short"}, session : {"feed", "other"},
           sequence : Nat, count : Nat, whole : BOOLEAN]

\* Locals of process_next_pending: the datagram, the block at hand and the items that
\* point into the datagram so far.
Decoding == [stream : 0 .. Legs, packet : Packet, seq : Nat, inline : Nat]

ASSUME PacketAssumption ==
    /\ Datagrams \cup Retransmissions \subseteq Packet
    /\ \A d \in Datagrams \cup Retransmissions :
            d.sequence .. (d.sequence + d.count) \subseteq Seqs
    /\ None \notin Decoding
    /\ None \notin [type : {"Inline"}, sequence : Nat, of : Packet]

\* Besides slots, expected_next and seq_anchored of SequenceReassembler and gaps of
\* GapRequestHandler.
VARIABLES
    session,            \* locked session, None before the first packet
    next_unseen,        \* one past the highest sequence seen on any source
    requested, due,     \* GapRequestEmitter
    arbiter,            \* AbArbiter
    ready, current,     \* items drained, item last handed out
    pending_datagrams,  \* received, not yet decoded
    backing, inline_pending,
    decoding,           \* locals of process_next_pending, None outside it
    pc,
    asked,              \* history: sequences the server was asked for
    dropped,            \* history: sequences given up by ReassemblyBufferFull
    delivered           \* history: sequences handed to the caller, in order

ring     == <<slots, expected_next>>
emitter  == <<requested, due>>
items    == <<ready, current, backing, inline_pending>>
vars     == <<session, slots, expected_next, next_unseen, gaps, requested, due, arbiter, ready,
              current, pending_datagrams, backing, inline_pending, seq_anchored, decoding, pc,
              asked, dropped, delivered>>

Emitter == INSTANCE GapRequestEmitter
Arbiter == INSTANCE AbArbiter

MultiLeg == Legs > 1
recovery_stream == Legs

GapItem == [type |-> "Gap"]
EventItem(kind) == [type |-> "Event", event |-> kind]
InlineItem(seq, datagram) == [type |-> "Inline", sequence |-> seq, of |-> datagram]
ViewItem(seq) == [type |-> "View", sequence |-> seq]
Views(from, to) == [i \in 1 .. (to - from) |-> ViewItem(from + i - 1)]

IsInline(item) == item.type = "Inline"
IsFrame(item) == item.type \in {"Inline", "View"}

----------------------------------------------------------------------------
Init ==
    /\ session = None
    /\ slots = [i \in 0 .. (Capacity - 1) |-> Empty]
    /\ expected_next = IF StartSequence = 0 THEN 1 ELSE StartSequence
    /\ next_unseen = expected_next
    /\ seq_anchored = (StartSequence # 0)
    /\ arbiter = IF StartSequence = 0 THEN Arbiter!new ELSE Arbiter!rebase(StartSequence)
    /\ new
    /\ Emitter!Init
    /\ ready = <<>> /\ current = None
    /\ pending_datagrams = <<>>
    /\ backing = None /\ inline_pending = 0
    /\ decoding = None
    /\ pc = "idle"
    /\ asked = {} /\ dropped = {} /\ delivered = <<>>

----------------------------------------------------------------------------
(* Entering a call. *)

release_inline ==
    /\ inline_pending' = inline_pending - 1
    /\ backing' = IF inline_pending = 1 THEN None ELSE backing

retire_current ==
    /\ current' = None
    /\ IF current # None /\ IsInline(current)
       THEN release_inline
       ELSE UNCHANGED <<backing, inline_pending>>

\* Mutant: no round of re-requests.
EnterPump_NoRequests == pc' = "pump" /\ UNCHANGED emitter

\* pump(): a round of re-requests while a gap is pending and the session is known.
EnterPump ==
    /\ pc' = "pump"
    /\ IF Recovery /\ has_pending /\ session # None
       THEN Emitter!emit(pending_gaps)
       ELSE UNCHANGED emitter

Call ==
    /\ pc = "idle"
    /\ retire_current
    /\ EnterPump
    /\ UNCHANGED <<session, ring, next_unseen, gaps, arbiter, ready, pending_datagrams,
                   seq_anchored, decoding, asked, dropped, delivered>>

\* send_due, chunk by chunk: a failed or blocked send never fails the call.
SendDue ==
    /\ pc = "pump"
    /\ \E chunk \in due :
        \/ Emitter!Skip(chunk) /\ UNCHANGED asked
        \/ /\ Emitter!Send(chunk)
           /\ asked' = asked \cup (chunk.start_seq .. (Emitter!end(chunk) - 1))
        \/ Emitter!WouldBlock(chunk) /\ UNCHANGED asked
        \/ Emitter!SendFails(chunk) /\ UNCHANGED asked
    /\ UNCHANGED <<session, ring, next_unseen, gaps, arbiter, items, pending_datagrams,
                   seq_anchored, decoding, pc, dropped, delivered>>

----------------------------------------------------------------------------
(* Polling the sources. *)

AtTop == pc = "pump" /\ due = {}

Bursts(S) == UNION {[1 .. n -> S] : n \in 0 .. MaxBurst}

Tagged(stream, burst) == [i \in DOMAIN burst |-> [stream |-> stream, packet |-> burst[i]]]

\* Bursts of the legs in leg order, then of the requester.
Landed(bursts, answer) ==
    LET legs[n \in 0 .. Legs] ==
            IF n = 0 THEN <<>> ELSE legs[n - 1] \o Tagged(n - 1, bursts[n])
    IN  legs[Legs] \o Tagged(recovery_stream, answer)

Contents(packet) == packet.sequence .. (packet.sequence + packet.count - 1)

\* The requester is read only while a gap is pending; it answers what was asked.
Answers ==
    IF Recovery /\ has_pending
    THEN Bursts({d \in Retransmissions : Contents(d) \subseteq asked})
    ELSE {<<>>}

\* poll_legs, then the requester: something landed.
PollSources(bursts, answer) ==
    /\ AtTop
    /\ ready = <<>> /\ pending_datagrams = <<>>
    /\ Landed(bursts, answer) # <<>>
    /\ pending_datagrams' = Landed(bursts, answer)
    /\ UNCHANGED <<session, ring, next_unseen, gaps, emitter, arbiter, items, seq_anchored,
                   decoding, pc, asked, dropped, delivered>>

\* Nothing landed anywhere: poll returns None, recv waits for a readable source.
NothingLanded ==
    /\ AtTop
    /\ ready = <<>> /\ pending_datagrams = <<>>
    /\ pc' \in {"idle", "wait"}
    /\ UNCHANGED <<session, ring, next_unseen, gaps, emitter, arbiter, items, pending_datagrams,
                   seq_anchored, decoding, asked, dropped, delivered>>

\* A leg or the requester fails: the call returns the error, earlier bursts stay.
SourceFails(bursts, upto) ==
    /\ AtTop
    /\ ready = <<>> /\ pending_datagrams = <<>>
    /\ upto = Legs => Recovery /\ has_pending
    /\ pending_datagrams' = Landed([s \in 1 .. Legs |-> IF s <= upto THEN bursts[s] ELSE <<>>], <<>>)
    /\ pc' = "idle"
    /\ UNCHANGED <<session, ring, next_unseen, gaps, emitter, arbiter, items, seq_anchored,
                   decoding, asked, dropped, delivered>>

\* wait_ready resolves and next_item pumps again.
WaitReady ==
    /\ pc = "wait"
    /\ EnterPump
    /\ UNCHANGED <<session, ring, next_unseen, gaps, arbiter, items, pending_datagrams,
                   seq_anchored, decoding, asked, dropped, delivered>>

\* The caller drops the future, or a source's readiness fails.
CancelRecv ==
    /\ pc = "wait"
    /\ pc' = "idle"
    /\ UNCHANGED <<session, ring, next_unseen, gaps, emitter, arbiter, items, pending_datagrams,
                   seq_anchored, decoding, asked, dropped, delivered>>

----------------------------------------------------------------------------
(* process_next_pending: a datagram leaves the queue whatever becomes of it. *)

Packet1 == Head(pending_datagrams).packet

\* Runs with nothing ready and the last item retired.
Decodable == AtTop /\ ready = <<>> /\ pending_datagrams # <<>>

\* parse_header fails, or accept_header meets another session.
Rejected == Packet1.kind = "Short" \/ session \notin {None, Packet1.session}

RejectDatagram ==
    /\ Decodable
    /\ Rejected
    /\ pending_datagrams' = Tail(pending_datagrams)
    /\ pc' = "idle"
    /\ UNCHANGED <<session, ring, next_unseen, gaps, emitter, arbiter, items, seq_anchored,
                   decoding, asked, dropped, delivered>>

\* Mutant: every packet re-anchors the ring.
accept_header_Reanchors ==
    /\ Decodable
    /\ ~Rejected
    /\ pending_datagrams' = Tail(pending_datagrams)
    /\ session' = Packet1.session
    /\ seq_anchored' = TRUE
    /\ reset_expected(Packet1.sequence)

\* accept_header: lock the session, anchor ring and window on the first packet.
accept_header ==
    /\ Decodable
    /\ ~Rejected
    /\ pending_datagrams' = Tail(pending_datagrams)
    /\ session' = Packet1.session
    /\ seq_anchored' = TRUE
    /\ IF seq_anchored THEN UNCHANGED ring ELSE reset_expected(Packet1.sequence)

\* Highest sequence seen and arbiter as accept_header leaves them.
Unseen == IF seq_anchored THEN next_unseen ELSE Packet1.sequence
Anchored == IF seq_anchored \/ ~MultiLeg THEN arbiter ELSE Arbiter!rebase(Packet1.sequence)

\* A gap at once known as one: tracked, and reported to the caller.
TrackGap == record_missing_range(Unseen, Packet1.sequence)

AfterDatagram == IF MultiLeg THEN "confirm" ELSE "pump"

\* Mutant: the gap is reported and not tracked.
DecodeControl_Untracked ==
    /\ accept_header
    /\ Packet1.kind \in {"Heartbeat", "EndOfSession"}
    /\ arbiter' = Anchored
    /\ next_unseen' = Max({Unseen, Packet1.sequence})
    /\ ready' = (IF Packet1.sequence > Unseen THEN <<GapItem>> ELSE <<>>)
                    \o <<EventItem(Packet1.kind)>>
    /\ pc' = AfterDatagram
    /\ UNCHANGED <<gaps, emitter, current, backing, inline_pending, decoding, asked, dropped,
                   delivered>>

\* Heartbeat and end of session: note_tail_gap, then the event.
DecodeControl ==
    /\ accept_header
    /\ Packet1.kind \in {"Heartbeat", "EndOfSession"}
    /\ arbiter' = Anchored
    /\ TrackGap
    /\ next_unseen' = Max({Unseen, Packet1.sequence})
    /\ ready' = (IF Packet1.sequence > Unseen THEN <<GapItem>> ELSE <<>>)
                    \o <<EventItem(Packet1.kind)>>
    /\ pc' = AfterDatagram
    /\ UNCHANGED <<emitter, current, backing, inline_pending, decoding, asked, dropped, delivered>>

\* Mutant: the cut-off messages count as seen.
DecodeTruncated_Seen ==
    /\ accept_header
    /\ Packet1.kind = "Data" /\ ~Packet1.whole
    /\ arbiter' = Anchored
    /\ next_unseen' = Max({Unseen, Packet1.sequence + Packet1.count})
    /\ pc' = "idle"
    /\ UNCHANGED <<gaps, emitter, items, decoding, asked, dropped, delivered>>

\* A cut-off block fails the call before any sequence state changes, but after the
\* packet has anchored the stream.
DecodeTruncated ==
    /\ accept_header
    /\ Packet1.kind = "Data" /\ ~Packet1.whole
    /\ arbiter' = Anchored
    /\ next_unseen' = Unseen
    /\ pc' = "idle"
    /\ UNCHANGED <<gaps, emitter, items, decoding, asked, dropped, delivered>>

\* Data: a jump past the highest sequence seen is staged with several legs, tracked
\* and reported with one.  The blocks follow.
DecodeData ==
    /\ accept_header
    /\ Packet1.kind = "Data" /\ Packet1.whole
    /\ IF MultiLeg
       THEN /\ arbiter' = Arbiter!note_missing_range(Anchored, Unseen, Packet1.sequence)
            /\ UNCHANGED <<gaps, ready>>
       ELSE /\ TrackGap
            /\ ready' = IF Packet1.sequence > Unseen THEN <<GapItem>> ELSE <<>>
            /\ UNCHANGED arbiter
    /\ next_unseen' = Max({Unseen, Packet1.sequence + Packet1.count})
    /\ decoding' = [stream |-> Head(pending_datagrams).stream, packet |-> Packet1,
                    seq |-> Packet1.sequence, inline |-> 0]
    /\ pc' = "block"
    /\ UNCHANGED <<emitter, current, backing, inline_pending, asked, dropped, delivered>>

----------------------------------------------------------------------------
(* The block loop.  decoding.seq is the block at hand. *)

End(d) == d.packet.sequence + d.packet.count

AtBlock == pc = "block" /\ decoding.seq < End(decoding)

Verdict == IF MultiLeg THEN Arbiter!verdict(arbiter, decoding.seq) ELSE "Forward"

Observe == arbiter' = IF MultiLeg THEN Arbiter!observe(arbiter, decoding.seq) ELSE arbiter

NextBlock == decoding' = [decoding EXCEPT !.seq = @ + 1]

\* A duplicate or out-of-window copy: the arbiter drops it.
DropBlock ==
    /\ AtBlock
    /\ Verdict # "Forward"
    /\ Observe
    /\ NextBlock
    /\ UNCHANGED <<session, ring, next_unseen, gaps, emitter, items, pending_datagrams,
                   seq_anchored, pc, asked, dropped, delivered>>

\* Mutant: an arrival does not close its gap.
ForwardBlock_LeavesGap ==
    /\ AtBlock
    /\ Verdict = "Forward"
    /\ Observe
    /\ UNCHANGED <<session, next_unseen, gaps, emitter, current, pending_datagrams, backing,
                   inline_pending, seq_anchored, asked, delivered>>

ForwardBlock ==
    /\ AtBlock
    /\ Verdict = "Forward"
    /\ Observe
    /\ mark_received(decoding.seq)
    /\ UNCHANGED <<session, next_unseen, emitter, current, pending_datagrams, backing,
                   inline_pending, seq_anchored, asked, delivered>>

\* The expected message: handed out in place, with the run it completes.
InOrderBlock ==
    /\ ForwardBlock
    /\ decoding.seq = expected_next
    /\ \E to \in (expected_next + 1) .. (expected_next + 1 + Capacity) :
        /\ advance_and_drain(to)
        /\ ready' = ready \o <<InlineItem(decoding.seq, decoding.packet)>>
                           \o Views(decoding.seq + 1, to)
    /\ decoding' = [decoding EXCEPT !.seq = @ + 1, !.inline = @ + 1]
    /\ UNCHANGED <<pc, dropped>>

\* A message ahead: parked, or already parked.
EarlyBlock ==
    /\ ForwardBlock
    /\ decoding.seq > expected_next
    /\ ~full(decoding.seq)
    /\ insert(decoding.seq)
    /\ NextBlock
    /\ UNCHANGED <<ready, pc, dropped>>

\* ReassemblyBufferFull ends the call: the rest of the datagram goes with it, and so
\* do the locals that would have become `backing` and `inline_pending`.
RingFull ==
    /\ ForwardBlock
    /\ decoding.seq > expected_next
    /\ full(decoding.seq)
    /\ dropped' = dropped \cup (decoding.seq .. (End(decoding) - 1))
    /\ decoding' = None
    /\ pc' = "idle"
    /\ UNCHANGED <<ring, ready>>

StaleBlock ==
    /\ ForwardBlock
    /\ decoding.seq < expected_next
    /\ NextBlock
    /\ UNCHANGED <<ring, ready, pc, dropped>>

\* Past the last block: the datagram backs the items that point into it.
DatagramDone ==
    /\ pc = "block"
    /\ decoding.seq = End(decoding)
    /\ IF decoding.inline > 0
       THEN backing' = decoding.packet /\ inline_pending' = decoding.inline
       ELSE UNCHANGED <<backing, inline_pending>>
    /\ decoding' = None
    /\ pc' = AfterDatagram
    /\ UNCHANGED <<session, ring, next_unseen, gaps, emitter, arbiter, ready, current,
                   pending_datagrams, seq_anchored, asked, dropped, delivered>>

\* drain_confirmed_gaps, lowest sequence first.
ConfirmGap ==
    /\ pc = "confirm"
    /\ LET confirmed == Arbiter!confirmed_gaps(arbiter)
       IN  IF confirmed = {}
           THEN pc' = "pump" /\ UNCHANGED <<arbiter, gaps, ready>>
           ELSE /\ arbiter' = [arbiter EXCEPT !.pending_gap_confirms =
                                    Arbiter!unstaged(@, {Min(confirmed)})]
                /\ record_gap(Min(confirmed))
                /\ ready' = Append(ready, GapItem)
                /\ UNCHANGED pc
    /\ UNCHANGED <<session, ring, next_unseen, emitter, current, pending_datagrams, backing,
                   inline_pending, seq_anchored, decoding, asked, dropped, delivered>>

----------------------------------------------------------------------------
(* Handing out the first ready item. *)

\* Mutant: the item handed out stays in the queue.
Yield_Peeks ==
    /\ AtTop
    /\ ready # <<>>
    /\ delivered' = IF IsFrame(Head(ready)) THEN Append(delivered, Head(ready).sequence)
                    ELSE delivered
    /\ pc' = "idle"
    /\ UNCHANGED <<session, ring, next_unseen, gaps, emitter, arbiter, ready, pending_datagrams,
                   seq_anchored, decoding, asked, dropped>>

Yield ==
    /\ AtTop
    /\ ready # <<>>
    /\ ready' = Tail(ready)
    /\ delivered' = IF IsFrame(Head(ready)) THEN Append(delivered, Head(ready).sequence)
                    ELSE delivered
    /\ pc' = "idle"
    /\ UNCHANGED <<session, ring, next_unseen, gaps, emitter, arbiter, pending_datagrams,
                   seq_anchored, decoding, asked, dropped>>

\* poll and recv: the item is borrowed until the next call.
yield_item ==
    /\ Yield
    /\ current' = Head(ready)
    /\ UNCHANGED <<backing, inline_pending>>

\* Mutant: an owned message does not release the datagram.
yield_owned_Keeps == Yield /\ UNCHANGED <<current, backing, inline_pending>>

\* recv_owned: the message shares its datagram and is the caller's.
yield_owned ==
    /\ Yield
    /\ UNCHANGED current
    /\ IF IsInline(Head(ready)) THEN release_inline ELSE UNCHANGED <<backing, inline_pending>>

\* The clock, as emitter and arbiter read it: once per round and once per datagram.
Tick ==
    /\ pc \in {"idle", "wait"} \/ (AtTop /\ ready = <<>>)
    /\ Emitter!Age
    /\ arbiter' = Arbiter!aged(arbiter)
    /\ UNCHANGED <<session, ring, next_unseen, gaps, due, items, pending_datagrams,
                   seq_anchored, decoding, pc, asked, dropped, delivered>>

Next ==
    \/ Call
    \/ SendDue
    \/ \E bursts \in [1 .. Legs -> Bursts(Datagrams)], answer \in Answers :
            PollSources(bursts, answer)
    \/ NothingLanded
    \/ \E bursts \in [1 .. Legs -> Bursts(Datagrams)], upto \in 0 .. Legs :
            SourceFails(bursts, upto)
    \/ WaitReady
    \/ CancelRecv
    \/ RejectDatagram
    \/ DecodeControl
    \/ DecodeTruncated
    \/ DecodeData
    \/ DropBlock
    \/ InOrderBlock
    \/ EarlyBlock
    \/ RingFull
    \/ StaleBlock
    \/ DatagramDone
    \/ ConfirmGap
    \/ yield_item
    \/ yield_owned
    \/ Tick

Spec == Init /\ [][Next]_vars

\* The caller keeps calling, the code keeps running and time passes; a source that
\* is asked again and again for a sequence delivers it in the end.
Fairness ==
    /\ WF_vars(Call) /\ WF_vars(WaitReady)
    /\ WF_vars(DecodeControl \/ DecodeData \/ DecodeTruncated \/ RejectDatagram)
    /\ WF_vars(DropBlock \/ InOrderBlock \/ EarlyBlock \/ RingFull \/ StaleBlock)
    /\ WF_vars(DatagramDone) /\ WF_vars(ConfirmGap)
    /\ WF_vars(yield_item \/ yield_owned)
    /\ SF_vars(NothingLanded)
    /\ SF_vars(Tick)
    /\ SF_vars(SendDue /\ asked' # asked)
    /\ WF_vars(SendDue)
    /\ \A d \in Retransmissions :
            SF_vars(PollSources([s \in 1 .. Legs |-> <<>>], <<d>>) /\ <<d>> \in Answers)

FairSpec == Spec /\ Fairness

----------------------------------------------------------------------------
(* Properties. *)

Candidates == DOMAIN arbiter.pending_gap_confirms

\* The caller sees an ordered feed: every message once, in sequence order, from the
\* configured start or the point of joining.
Feed == INSTANCE OrderedFeed WITH Start <- StartSequence
DeliversInOrder == Feed!Spec

\* mod.rs: "outstanding `Inline` items; `backing` resets (slab reclaimed) at zero".
\* Between datagrams inline_pending counts the items, ready or lent to the caller,
\* that point into the backing datagram; with none the datagram is let go.
InlineBacked ==
    LET held == IF current = None THEN ready ELSE <<current>> \o ready
        inline == {i \in DOMAIN held : IsInline(held[i])}
    IN  pc # "block" =>
            /\ inline_pending = Cardinality(inline)
            /\ \A i \in inline : backing = held[i].of
            /\ inline = {} => backing = None

\* What is tracked as missing, and so re-requested, is missing: neither handed out
\* nor parked nor staged behind the caller's back.
GapsAreMissing == \A q \in Covered : q >= expected_next /\ q \notin Held

InDecoding == IF decoding = None THEN {} ELSE decoding.seq .. (End(decoding) - 1)

\* No sequence is forgotten: whatever lies between the next message to hand out and
\* the highest one seen is parked, being decoded, tracked as missing or staged.
Accounted == Held \cup InDecoding \cup Covered \cup Candidates
NothingForgotten == expected_next .. (next_unseen - 1) \subseteq Accounted

\* The gap map is right in both directions: nothing missing is untracked, and nothing
\* that is there is asked for again.
MissingIsTracked == NothingForgotten /\ GapsAreMissing

\* A ring that refuses a message is the one way to lose track of a sequence.
OnlyRefusalForgets == expected_next .. (next_unseen - 1) \subseteq Accounted \cup dropped

\* Once the receiver knows of a message, it hands it out in the end.
EventuallyDelivered ==
    \A q \in 1 .. (Max({d.sequence + d.count : d \in Datagrams}) - 1) :
        (seq_anchored /\ q >= expected_next /\ q < next_unseen) ~> q \in Range(delivered)
=============================================================================
