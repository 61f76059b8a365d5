------------------------------- MODULE GapRecovery -------------------------------
(***************************************************************************)
(* Gap tracking and re-requesting together, as the receiver drives them:   *)
(* datagrams open gaps past the highest sequence seen, arrivals close      *)
(* them, and every poll with a gap pending runs Requester::send_due over   *)
(* the chunks of the gap map.  With several legs a gap is recorded when the *)
(* arbiter confirms it, number by number and in any order.                 *)
(***************************************************************************)
EXTENDS GapRequestHandler

CONSTANT Interval

ASSUME ChunkAssumption == MaxChunk \in Nat \ {0}
ASSUME TicksAssumption == Interval \in Nat \ {0}
\* A session numbers its messages from one.
ASSUME SessionAssumption == \A q \in Seqs : 1 .. q \subseteq Seqs

VARIABLES requested, due,
          next_unseen,  \* one past the highest sequence seen on any source
          asked         \* history: ticks since a sequence was last asked for,
                        \* Interval when not within the last interval

vars == <<gaps, requested, due, next_unseen, asked>>

Emitter == INSTANCE GapRequestEmitter

span(chunk) == chunk.start_seq .. (Emitter!end(chunk) - 1)

Init ==
    /\ new
    /\ Emitter!Init
    /\ next_unseen = 1
    /\ asked = [q \in Seqs |-> Interval]

----------------------------------------------------------------------------
\* A datagram at `seq` with `count` messages past everything seen (a heartbeat has
\* none) opens the gap below it.  A round of requests runs within one poll.
OpenGap(seq, count) ==
    /\ due = {}
    /\ seq > next_unseen
    /\ record_missing_range(next_unseen, seq)
    /\ next_unseen' = seq + count
    /\ UNCHANGED <<requested, due, asked>>

\* drain_confirmed_gaps, for one candidate: a number both legs are past.
ConfirmGap(seq) ==
    /\ due = {}
    /\ seq < next_unseen
    /\ record_gap(seq)
    /\ UNCHANGED <<requested, due, next_unseen, asked>>

Arrival(seq) ==
    /\ due = {}
    /\ seq < next_unseen
    /\ mark_received(seq)
    /\ UNCHANGED <<requested, due, next_unseen, asked>>

send_due ==
    /\ due = {}
    /\ has_pending
    /\ Emitter!emit(pending_gaps)
    /\ UNCHANGED <<gaps, next_unseen, asked>>

Skip(chunk) ==
    /\ Emitter!Skip(chunk)
    /\ UNCHANGED <<gaps, next_unseen, asked>>

\* An attempt counts against the limit whether or not the socket took it.
Asking(chunk) ==
    /\ asked' = [q \in Seqs |-> IF q \in span(chunk) THEN 0 ELSE asked[q]]
    /\ UNCHANGED <<gaps, next_unseen>>

Send(chunk) == Emitter!Send(chunk) /\ Asking(chunk)

SendFails(chunk) == Emitter!SendFails(chunk) /\ Asking(chunk)

WouldBlock(chunk) ==
    /\ Emitter!WouldBlock(chunk)
    /\ UNCHANGED <<gaps, next_unseen, asked>>

Tick ==
    /\ due = {}
    /\ Emitter!Age
    /\ asked' = [q \in Seqs |-> Emitter!Older(asked[q])]
    /\ UNCHANGED <<gaps, due, next_unseen>>

Next ==
    \/ \E seq \in Seqs, count \in 0 .. 1 : OpenGap(seq, count)
    \/ \E seq \in Seqs : ConfirmGap(seq)
    \/ \E seq \in Seqs : Arrival(seq)
    \/ send_due
    \/ \E chunk \in due : Skip(chunk)
    \/ \E chunk \in due : Send(chunk)
    \/ \E chunk \in due : SendFails(chunk)
    \/ \E chunk \in due : WouldBlock(chunk)
    \/ Tick

\* The caller polls again and again, time passes between its polls, and a socket
\* buffer that keeps draining takes each request in the end: a round stopped by
\* the socket is tried again until it is not.
Fairness ==
    /\ WF_vars(send_due)
    /\ SF_vars(Tick)
    /\ WF_vars(\E chunk \in due : Skip(chunk))
    /\ \A q \in Seqs : SF_vars(\E chunk \in due : q \in span(chunk) /\ Send(chunk))

Spec == Init /\ [][Next]_vars

FairSpec == Spec /\ Fairness

----------------------------------------------------------------------------
\* The rate limit as the emitter states it ("gap inside range requested within last
\* interval is skipped"): a request goes out only if it asks for at least one
\* sequence that was not asked for within the last interval, however the earlier
\* requests were cut into chunks and merged.
RateLimited ==
    [][\A chunk \in due : Send(chunk) \/ SendFails(chunk) =>
                            \E q \in span(chunk) : asked[q] = Interval]_vars

\* What the remembered ranges stand for: they stay disjoint and non-adjacent, and every
\* sequence asked for within the last interval lies in one at least as young, so no limit
\* lapses early.
AskedRemembered ==
    /\ Emitter!RequestedSeparated
    /\ \A q \in Seqs : asked[q] < Interval =>
            \E r \in requested : r.start <= q /\ q < r.stop /\ r.age <= asked[q]

\* A missing sequence is asked for, again and again until it arrives.
EveryGapAsked ==
    \A q \in Seqs : q \in Covered ~> (asked[q] = 0 \/ q \notin Covered)
=============================================================================
