------------------------------ MODULE AbArbitration ------------------------------
(***************************************************************************)
(* The A/B arbiter in its place: redundant legs (and the re-request        *)
(* server) deliver messages late, twice, out of order or not at all, the   *)
(* receiver stages what is missing and drains what is confirmed after each *)
(* datagram.  The gap map is the abstract set of missing numbers that      *)
(* GapRequestHandler is proved to implement; a datagram has one message.   *)
(***************************************************************************)
EXTENDS AbArbiter, FiniteSets, FiniteSetsExt

CONSTANTS Legs,             \* stream ids of the legs: 0..Legs-1
          MaxSeq,           \* messages of the session
          MaxLost           \* bound on lost races counted per leg

ASSUME LegsAssumption == Legs \in Nat /\ Legs >= 2
ASSUME SessionAssumption == MaxSeq \in Nat /\ MaxLost \in Nat

VARIABLES arbiter, next_unseen, missing, stream_stats,
          winner            \* history: the stream whose copy of a sequence was let through

vars == <<arbiter, next_unseen, missing, stream_stats, winner>>

Seqs == 1 .. MaxSeq
recovery_stream == Legs
Streams == 0 .. (Legs - 1)

Init ==
    /\ arbiter = rebase(1)
    /\ next_unseen = 1
    /\ missing = {}
    /\ stream_stats = [s \in Streams |->
            [packets_won |-> 0, packets_lost_to_peer |-> 0, max_seq_seen |-> 0,
             sequences_behind_leader |-> 0]]
    /\ winner = [q \in {} |-> 0]

----------------------------------------------------------------------------
recompute_leader_lag(stats) ==
    LET leader == Max({stats[s].max_seq_seen : s \in Streams})
    IN  [s \in Streams |->
            [stats[s] EXCEPT !.sequences_behind_leader = leader - stats[s].max_seq_seen]]

\* Mutant: a copy that lost the race is credited too.
record_delivery_CreditsAll(stream, seq, lost_race) ==
    IF stream \notin Streams
    THEN stream_stats
    ELSE recompute_leader_lag(
            [stream_stats EXCEPT
                ![stream].packets_won = @ + 1,
                ![stream].max_seq_seen = IF seq > @ THEN seq ELSE @])

\* The recovery stream has no counters.
record_delivery(stream, seq, lost_race) ==
    IF stream \notin Streams
    THEN stream_stats
    ELSE recompute_leader_lag(
            [stream_stats EXCEPT
                ![stream].packets_won = IF lost_race THEN @ ELSE @ + 1,
                ![stream].packets_lost_to_peer = IF lost_race THEN @ + 1 ELSE @,
                ![stream].max_seq_seen = IF seq > @ THEN seq ELSE @])

\* drain_confirmed_gaps, run after every decoded datagram.
DrainConfirmed(arb, lost) ==
    /\ arbiter' = drained(arb)
    /\ missing' = lost \cup confirmed_gaps(arb)

\* One data datagram: stage the jump past the highest sequence seen, then observe.
Data(stream, seq) ==
    LET noted == IF seq > next_unseen
                 THEN note_missing_range(arbiter, next_unseen, seq) ELSE arbiter
        v == verdict(noted, seq)
    IN  /\ stream = recovery_stream => missing # {}
        /\ v = "Duplicate" /\ stream \in Streams =>
                stream_stats[stream].packets_lost_to_peer < MaxLost
        /\ next_unseen' = IF seq >= next_unseen THEN seq + 1 ELSE next_unseen
        /\ DrainConfirmed(observe(noted, seq),
                          IF v = "Forward" THEN missing \ {seq} ELSE missing)
        /\ stream_stats' = IF v = "OutOfWindow" THEN stream_stats
                           ELSE record_delivery(stream, seq, v = "Duplicate")
        /\ winner' = IF v = "Forward"
                     THEN [q \in DOMAIN winner \cup {seq} |-> IF q = seq THEN stream ELSE winner[q]]
                     ELSE winner

\* Heartbeat or end of session: note_tail_gap.
Heartbeat(next_expected) ==
    /\ next_unseen' = IF next_expected > next_unseen THEN next_expected ELSE next_unseen
    /\ DrainConfirmed(arbiter, missing \cup (next_unseen .. (next_expected - 1)))
    /\ UNCHANGED <<stream_stats, winner>>

Tick ==
    /\ arbiter' = aged(arbiter)
    /\ UNCHANGED <<next_unseen, missing, stream_stats, winner>>

Next ==
    \/ \E stream \in Streams \cup {recovery_stream}, seq \in Seqs : Data(stream, seq)
    \/ \E next_expected \in 1 .. (MaxSeq + 1) : Heartbeat(next_expected)
    \/ Tick

Spec == Init /\ [][Next]_vars

----------------------------------------------------------------------------
Candidates == DOMAIN arbiter.pending_gap_confirms

\* First arrival wins: a sequence let through is never let through again, on whatever
\* stream and however late a copy arrives, across slides that reuse its bit.
ForwardedOnce == \A q \in DOMAIN winner : verdict(arbiter, q) # "Forward"

\* A delivered sequence is neither a candidate nor a gap: "one stream's transient
\* lag never fires spurious re-request" for something another stream delivered.
NoSpuriousGap == DOMAIN winner \cap (Candidates \cup missing) = {}

\* Every sequence below the highest one seen was let through, waits for its confirm
\* window or is tracked as missing: no slide, confirmation or heartbeat forgets one.
NothingForgotten ==
    1 .. (next_unseen - 1) \subseteq DOMAIN winner \cup Candidates \cup missing

\* StreamStats: packets_won counts the sequences "this stream delivered first", each
\* credited to one leg, and the leg furthest ahead is nobody's laggard.
StatsExact ==
    \A s \in Streams :
        /\ stream_stats[s].packets_won = Cardinality({q \in DOMAIN winner : winner[q] = s})
        /\ \A q \in DOMAIN winner : winner[q] \in Streams =>
                q <= stream_stats[s].max_seq_seen + stream_stats[s].sequences_behind_leader

\* A tracked gap is staged again only by a window sliding past it: within the window
\* "datagrams landing behind an open gap never re-report it or re-stage it" (moldudp.md).
RestagedOnlyByEviction == \A q \in Candidates \cap missing : q < arbiter.window_base

\* config.rs on gap_confirm_window: "how long sequence must stay unseen on every leg
\* before it counts as gap".  Only a heartbeat or end of session goes past it: what
\* data left out is tracked once its own confirm window has elapsed.
GapsConfirmed ==
    [][\A q \in missing' \ missing :
            \/ q \in Candidates /\ arbiter.pending_gap_confirms[q] >= ConfirmWindow
            \/ ConfirmWindow = 0
            \/ \E next_expected \in 1 .. (MaxSeq + 1) :
                    Heartbeat(next_expected) /\ q \in next_unseen .. (next_expected - 1)]_vars

\* ab.rs on OutOfWindow: "Seq outside tracked window and not recoverable pending gap;
\* drop": a copy of a sequence tracked as missing, and so re-requested, is let through.
RetransmissionTaken == \A q \in missing : verdict(arbiter, q) = "Forward"
=============================================================================
