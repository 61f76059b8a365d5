-------------------------- MODULE AbArbitrationProofs --------------------------
(***************************************************************************)
(* The A/B arbiter among its legs, for every number of legs, window        *)
(* capacity, confirm window and session length.                            *)
(***************************************************************************)
EXTENDS AbArbitration, AbArbiterProofs, FiniteSetTheorems

----------------------------------------------------------------------------
(* Bounded sets of natural numbers. *)

\* A set of natural numbers has a least element.
LEMMA LeastNat ==
    ASSUME NEW S, S \subseteq Nat, S # {}
    PROVE  \E x \in S : \A y \in S : x <= y
<1>1. IsWellFoundedOn(OpToRel(<, Nat), Nat)
  BY NatLessThanWellFounded
<1>2. PICK x \in S : \A y \in S : ~(<<y, x>> \in OpToRel(<, Nat))
  BY <1>1, WFMin
<1>3. \A y \in S : ~(y < x)
  BY <1>2, Zenon DEF OpToRel
<1> QED
  BY <1>3

\* A bounded set of natural numbers has a greatest element.
LEMMA GreatestNat ==
    ASSUME NEW S, S \subseteq Nat, S # {}, NEW bound \in Nat, \A x \in S : x <= bound
    PROVE  \E x \in S : \A y \in S : y <= x
<1> DEFINE U == {u \in Nat : \A x \in S : x <= u}
<1>1. U \subseteq Nat /\ bound \in U
  OBVIOUS
<1>2. PICK u \in U : \A v \in U : u <= v
  BY <1>1, LeastNat, Zenon
<1>3. ASSUME u \notin S PROVE FALSE
  <2>1. \A x \in S : x \in Nat /\ x < u
    BY <1>3
  <2>2. PICK x \in S : TRUE
    BY Zenon
  <2>3. u \in Nat /\ x \in Nat /\ x < u
    BY <2>1
  <2>4. u - 1 \in Nat /\ \A y \in S : y <= u - 1
    BY <2>1, <2>3
  <2> QED
    BY <2>3, <2>4, <1>2
<1> QED
  BY <1>3

----------------------------------------------------------------------------
(* The arbiter in the receiver. *)

ArbitrationInv == Sound(1, arbiter, next_unseen, missing, DOMAIN winner)

LEMMA ArbitrationInit == Init => ArbitrationInv
<1> SUFFICES ASSUME Init PROVE ArbitrationInv
  OBVIOUS
<1> DEFINE none == [q \in {} |-> 0]
<1>1. none \in Staging
  <2>1. DOMAIN none = {} /\ none \in [{} -> Nat]
    OBVIOUS
  <2> QED
    BY <2>1, StagingIs, Zenon
<1>2. /\ ArbiterOK(arbiter) /\ arbiter.window_base = 1
      /\ arbiter.window_bits = [i \in 0 .. (Capacity - 1) |-> FALSE]
      /\ arbiter.pending_gap_confirms = none
  BY <1>1, WindowAssumption, Zenon DEF Init, rebase, new, ArbiterOK
<1>3. Staged(arbiter) = {} /\ DOMAIN winner = {} /\ missing = {} /\ next_unseen = 1
  BY <1>2 DEF Staged, Init
<1>4. BitsExact(arbiter, {})
  BY <1>2, IdxInWindow DEF BitsExact
<1> QED
  BY <1>2, <1>3, <1>4 DEF ArbitrationInv, Sound

LEMMA DataSound ==
    ASSUME ArbitrationInv, NEW stream, NEW seq \in Seqs, Data(stream, seq)
    PROVE  ArbitrationInv'
<1> DEFINE noted == IF seq > next_unseen
                    THEN note_missing_range(arbiter, next_unseen, seq) ELSE arbiter
           unseen == IF seq > next_unseen THEN seq ELSE next_unseen
           v == verdict(noted, seq)
           won == DOMAIN winner
<1>1. seq \in Nat /\ next_unseen \in Nat
  BY SessionAssumption DEF Seqs, ArbitrationInv, Sound
<1>2. Sound(1, noted, unseen, missing, won) /\ seq <= unseen
  BY <1>1, NotedSound DEF ArbitrationInv
<1>3. /\ next_unseen' = IF seq >= next_unseen THEN seq + 1 ELSE next_unseen
      /\ arbiter' = drained(observe(noted, seq))
      /\ missing' = (IF v = "Forward" THEN missing \ {seq} ELSE missing)
                        \cup confirmed_gaps(observe(noted, seq))
      /\ winner' = IF v = "Forward"
                   THEN [q \in DOMAIN winner \cup {seq} |-> IF q = seq THEN stream ELSE winner[q]]
                   ELSE winner
  BY DEF Data, DrainConfirmed
<1>4. next_unseen' = IF seq >= unseen THEN seq + 1 ELSE unseen
  BY <1>1, <1>3
<1>5. CASE v = "Forward"
  <2>1. Sound(1, observe(noted, seq), next_unseen', missing \ {seq}, won \cup {seq})
    <3> HIDE DEF noted, unseen
    <3> QED
      BY <1>1, <1>2, <1>4, <1>5, ForwardSound
  <2>2. Sound(1, arbiter', next_unseen', missing', won \cup {seq})
    <3> HIDE DEF noted
    <3> QED
      BY <2>1, <1>3, <1>5, DrainSound
  <2>3. DOMAIN winner' = won \cup {seq}
    BY <1>3, <1>5
  <2> QED
    BY <2>2, <2>3 DEF ArbitrationInv
<1>6. CASE v # "Forward"
  <2>1. Sound(1, observe(noted, seq), unseen, missing, won) /\ seq < unseen
    <3> HIDE DEF noted, unseen
    <3> QED
      BY <1>1, <1>2, <1>6, RefusedSound
  <2>2. next_unseen' = unseen /\ winner' = winner
    BY <1>1, <1>3, <1>6, <2>1
  <2>3. Sound(1, arbiter', unseen, missing', won)
    <3> HIDE DEF noted, unseen
    <3> QED
      BY <2>1, <1>3, <1>6, DrainSound
  <2> QED
    BY <2>2, <2>3 DEF ArbitrationInv
<1> QED
  BY <1>5, <1>6

LEMMA ArbitrationStep == ArbitrationInv /\ [Next]_vars => ArbitrationInv'
<1> SUFFICES ASSUME ArbitrationInv, [Next]_vars PROVE ArbitrationInv'
  OBVIOUS
<1>1. ASSUME NEW stream \in Streams \cup {recovery_stream}, NEW seq \in Seqs, Data(stream, seq)
      PROVE  ArbitrationInv'
  BY <1>1, DataSound
<1>2. ASSUME NEW next_expected \in 1 .. (MaxSeq + 1), Heartbeat(next_expected)
      PROVE  ArbitrationInv'
  <2> DEFINE lost == missing \cup (next_unseen .. (next_expected - 1))
  <2>1. next_expected \in Nat
    BY SessionAssumption
  <2>2. /\ next_unseen' = IF next_expected > next_unseen THEN next_expected ELSE next_unseen
        /\ arbiter' = drained(arbiter) /\ missing' = lost \cup confirmed_gaps(arbiter)
        /\ winner' = winner
    BY <1>2 DEF Heartbeat, DrainConfirmed
  <2>3. Sound(1, arbiter, next_unseen', lost, DOMAIN winner)
    BY <2>1, <2>2, TailSound DEF ArbitrationInv
  <2> HIDE DEF lost
  <2> QED
    BY <2>2, <2>3, DrainSound DEF ArbitrationInv
<1>3. CASE Tick
  BY <1>3, AgedSound DEF Tick, ArbitrationInv
<1>4. CASE UNCHANGED vars
  BY <1>4 DEF vars, ArbitrationInv
<1> QED
  BY <1>1, <1>2, <1>3, <1>4 DEF Next

\* Init and every step keep the arbiter, the gap map and the history sound.
THEOREM ArbitrationSound == Spec => []ArbitrationInv
BY ArbitrationInit, ArbitrationStep, PTL DEF Spec

\* For every number of legs and every window: whatever copies arrive late, twice or out of
\* order, observe never answers Forward for a sequence it has let through.
THEOREM EachSequenceForwardedOnce == Spec => []ForwardedOnce
<1>1. ArbitrationInv => ForwardedOnce
  <2> SUFFICES ASSUME ArbitrationInv, NEW q \in DOMAIN winner PROVE verdict(arbiter, q) # "Forward"
    BY DEF ForwardedOnce
  <2>1. /\ q \in Nat /\ arbiter.window_base \in Nat /\ q < arbiter.window_base + Capacity
        /\ q \notin Staged(arbiter)
    BY DEF ArbitrationInv, Sound, ArbiterOK
  <2>2. CASE q < arbiter.window_base
    BY <2>1, <2>2 DEF verdict, Staged
  <2>3. CASE q >= arbiter.window_base
    <3>1. Delivered(arbiter, q)
      BY <2>1, <2>3, DeliveredIs DEF ArbitrationInv
    <3> QED
      BY <2>1, <2>3, <3>1 DEF verdict
  <2> QED
    BY <2>1, <2>2, <2>3
<1> QED
  BY <1>1, ArbitrationSound, PTL

\* A sequence some leg delivered is never a candidate nor a tracked gap.
THEOREM DeliveredNeverMissing == Spec => []NoSpuriousGap
<1>1. ArbitrationInv => NoSpuriousGap
  BY DEF ArbitrationInv, Sound, NoSpuriousGap, Candidates, Staged
<1> QED
  BY <1>1, ArbitrationSound, PTL

\* No slide, confirmation, heartbeat or late copy loses track of a sequence below the
\* highest one seen.
THEOREM EverySequenceAccounted == Spec => []NothingForgotten
<1>1. ArbitrationInv => NothingForgotten
  BY DEF ArbitrationInv, Sound, NothingForgotten, Candidates, Staged
<1> QED
  BY <1>1, ArbitrationSound, PTL

\* Inside the window a tracked gap is never staged again.
THEOREM WindowNeverRestages == Spec => []RestagedOnlyByEviction
<1>1. ArbitrationInv => RestagedOnlyByEviction
  BY DEF ArbitrationInv, Sound, RestagedOnlyByEviction, Candidates, Staged
<1> QED
  BY <1>1, ArbitrationSound, PTL

----------------------------------------------------------------------------
(* A candidate's age is its own: no other datagram touches it. *)

LEMMA AgesKept ==
    ASSUME NEW arb, ArbiterOK(arb), NEW seq \in Nat
    PROVE  \A q \in Staged(observe(arb, seq)) :
             observe(arb, seq).pending_gap_confirms[q] =
                IF q \in Staged(arb) THEN arb.pending_gap_confirms[q] ELSE 0
<1> DEFINE new_arb == observe(arb, seq)
           mid == slid(arb, seq)
<1>1. arb.window_base \in Nat /\ Capacity \in Nat \ {0}
  BY WindowAssumption DEF ArbiterOK
<1>2. CASE seq < arb.window_base
  <2>1. new_arb = [arb EXCEPT !.pending_gap_confirms = unstaged(@, {seq})]
    BY <1>1, <1>2, ObserveIs
  <2> HIDE DEF new_arb
  <2>2. /\ Staged(new_arb) = Staged(arb) \ {seq}
        /\ \A q \in Staged(new_arb) :
             new_arb.pending_gap_confirms[q] = arb.pending_gap_confirms[q]
    BY <2>1, UnstageIs
  <2> QED
    BY <2>2 DEF new_arb
<1>3. CASE seq >= arb.window_base + Capacity
  <2>1. new_arb = delivering(mid, seq)
    BY <1>1, <1>3, ObserveIs, Zenon
  <2>2. /\ ArbiterOK(mid)
        /\ \A q \in Staged(mid) : mid.pending_gap_confirms[q] =
             IF q \in Staged(arb) THEN arb.pending_gap_confirms[q] ELSE 0
    <3>1. seq >= arb.window_base + Capacity
      BY <1>3
    <3> QED
      BY <3>1, SlidIs, Zenon
  <2> HIDE DEF new_arb, mid
  <2> DEFINE last == delivering(mid, seq)
  <2>3. /\ Staged(last) = Staged(mid) \ {seq}
        /\ \A q \in Staged(last) :
             last.pending_gap_confirms[q] = mid.pending_gap_confirms[q]
    BY <2>2, DeliveringIs, Zenon
  <2> HIDE DEF last
  <2>4. \A q \in Staged(last) : last.pending_gap_confirms[q] =
             IF q \in Staged(arb) THEN arb.pending_gap_confirms[q] ELSE 0
    BY <2>2, <2>3
  <2> QED
    BY <2>1, <2>4 DEF new_arb, last
<1>4. CASE Delivered(arb, seq)
  BY <1>1, <1>4, ObserveIs, Zenon
<1>5. CASE arb.window_base <= seq /\ seq < arb.window_base + Capacity /\ ~Delivered(arb, seq)
  <2>1. new_arb = delivering(arb, seq)
    BY <1>1, <1>5, ObserveIs, Zenon
  <2> HIDE DEF new_arb
  <2> DEFINE last == delivering(arb, seq)
  <2>2. /\ Staged(last) = Staged(arb) \ {seq}
        /\ \A q \in Staged(last) :
             last.pending_gap_confirms[q] = arb.pending_gap_confirms[q]
    BY DeliveringIs, Zenon
  <2> HIDE DEF last
  <2>3. \A q \in Staged(last) : last.pending_gap_confirms[q] =
             IF q \in Staged(arb) THEN arb.pending_gap_confirms[q] ELSE 0
    BY <2>2
  <2> QED
    BY <2>1, <2>3 DEF new_arb, last
<1> QED
  BY <1>1, <1>2, <1>3, <1>4, <1>5

LEMMA NotedAges ==
    ASSUME NEW arb, ArbiterOK(arb), NEW unseen \in Nat, NEW seq \in Nat, NEW noted,
           noted = IF seq > unseen THEN note_missing_range(arb, unseen, seq) ELSE arb
    PROVE  /\ ArbiterOK(noted)
           /\ \A q \in Staged(noted) : noted.pending_gap_confirms[q] =
                IF q \in Staged(arb) THEN arb.pending_gap_confirms[q] ELSE 0
<1>1. CASE seq > unseen
  <2> DEFINE fresh == {q \in unseen .. (seq - 1) : ~Delivered(arb, q)}
  <2>1. fresh \subseteq Nat
    OBVIOUS
  <2>2. noted = [arb EXCEPT !.pending_gap_confirms = staged(@, fresh)]
    BY <1>1 DEF note_missing_range
  <2> HIDE DEF fresh
  <2> QED
    BY <2>1, <2>2, StageIs
<1>2. CASE ~(seq > unseen)
  BY <1>2
<1> QED
  BY <1>1, <1>2

\* A sequence that data left out is tracked as missing only once the confirm window of its
\* own candidacy has elapsed, whatever other datagrams arrive, slide the window or are
\* drained meanwhile; only a heartbeat's tail goes past it.
THEOREM GapsAreConfirmed == Spec => GapsConfirmed
<1> DEFINE Confirmed ==
        \A q \in missing' \ missing :
            \/ q \in Candidates /\ arbiter.pending_gap_confirms[q] >= ConfirmWindow
            \/ ConfirmWindow = 0
            \/ \E next_expected \in 1 .. (MaxSeq + 1) :
                    Heartbeat(next_expected) /\ q \in next_unseen .. (next_expected - 1)
<1>1. ASSUME ArbitrationInv, [Next]_vars PROVE [Confirmed]_vars
  <2>1. ASSUME NEW stream \in Streams \cup {recovery_stream}, NEW seq \in Seqs, Data(stream, seq)
        PROVE  Confirmed
    <3> SUFFICES ASSUME NEW q \in missing' \ missing
                 PROVE  \/ q \in Candidates /\ arbiter.pending_gap_confirms[q] >= ConfirmWindow
                        \/ ConfirmWindow = 0
      OBVIOUS
    <3> DEFINE noted == IF seq > next_unseen
                        THEN note_missing_range(arbiter, next_unseen, seq) ELSE arbiter
               seen == observe(noted, seq)
    <3>1. seq \in Nat /\ next_unseen \in Nat /\ ArbiterOK(arbiter) /\ ConfirmWindow \in Nat
      BY <1>1, SessionAssumption, WindowAssumption DEF Seqs, ArbitrationInv, Sound
    <3>2. /\ ArbiterOK(noted)
          /\ \A p \in Staged(noted) : noted.pending_gap_confirms[p] =
               IF p \in Staged(arbiter) THEN arbiter.pending_gap_confirms[p] ELSE 0
      BY <3>1, NotedAges
    <3>3. missing' \subseteq missing \cup confirmed_gaps(seen)
      BY <2>1 DEF Data, DrainConfirmed
    <3> HIDE DEF noted
    <3>4. \A p \in Staged(seen) : seen.pending_gap_confirms[p] =
             IF p \in Staged(noted) THEN noted.pending_gap_confirms[p] ELSE 0
      BY <3>1, <3>2, AgesKept
    <3> HIDE DEF seen
    <3>5. q \in Staged(seen) /\ seen.pending_gap_confirms[q] >= ConfirmWindow
      BY <3>3 DEF confirmed_gaps, Staged
    <3>6. CASE q \in Staged(arbiter) /\ q \in Staged(noted)
      BY <3>2, <3>4, <3>5, <3>6 DEF Candidates, Staged
    <3>7. CASE ~(q \in Staged(arbiter) /\ q \in Staged(noted))
      <4>1. seen.pending_gap_confirms[q] = 0
        BY <3>2, <3>4, <3>5, <3>7
      <4> QED
        BY <3>1, <3>5, <4>1
    <3> QED
      BY <3>6, <3>7
  <2>2. ASSUME NEW next_expected \in 1 .. (MaxSeq + 1), Heartbeat(next_expected)
        PROVE  Confirmed
    <3>1. missing' = (missing \cup (next_unseen .. (next_expected - 1))) \cup confirmed_gaps(arbiter)
      BY <2>2 DEF Heartbeat, DrainConfirmed
    <3> SUFFICES ASSUME NEW q \in missing' \ missing
                 PROVE  \/ q \in Candidates /\ arbiter.pending_gap_confirms[q] >= ConfirmWindow
                        \/ q \in next_unseen .. (next_expected - 1)
      BY <2>2
    <3> QED
      BY <3>1 DEF confirmed_gaps, Candidates
  <2>3. CASE Tick
    BY <2>3 DEF Tick
  <2>4. CASE UNCHANGED vars
    BY <2>4
  <2> HIDE DEF Confirmed
  <2> QED
    BY <1>1, <2>1, <2>2, <2>3, <2>4 DEF Next
<1>2. Spec => [][Confirmed]_vars
  BY <1>1, ArbitrationSound, PTL DEF Spec
<1> QED
  BY <1>2 DEF GapsConfirmed

----------------------------------------------------------------------------
(* Per-stream statistics. *)

StreamStats == [packets_won : Nat, packets_lost_to_peer : Nat, max_seq_seen : 0 .. MaxSeq,
                sequences_behind_leader : Nat]

\* Every leg's distance makes up for its lag behind one leader.
OneLeader(stats) ==
    \E leader \in Nat : \A s \in Streams :
        stats[s].max_seq_seen + stats[s].sequences_behind_leader = leader

WonBy(w, s) == {q \in DOMAIN w : w[q] = s}

\* StatsExact and what its induction needs: the history is finite, and a leg has seen what
\* it delivered first.
StatsInv ==
    /\ stream_stats \in [Streams -> StreamStats]
    /\ DOMAIN winner \subseteq Nat /\ IsFiniteSet(DOMAIN winner)
    /\ \A s \in Streams : stream_stats[s].packets_won = Cardinality(WonBy(winner, s))
    /\ \A q \in DOMAIN winner : winner[q] \in Streams => q <= stream_stats[winner[q]].max_seq_seen
    /\ OneLeader(stream_stats)

LEMMA RecomputeIs ==
    ASSUME NEW stats \in [Streams -> StreamStats]
    PROVE  LET new_stats == recompute_leader_lag(stats)
           IN  /\ new_stats \in [Streams -> StreamStats]
               /\ OneLeader(new_stats)
               /\ \A s \in Streams :
                    /\ new_stats[s].packets_won = stats[s].packets_won
                    /\ new_stats[s].max_seq_seen = stats[s].max_seq_seen
<1> DEFINE seen == {stats[s].max_seq_seen : s \in Streams}
           leader == Max(seen)
           new_stats == recompute_leader_lag(stats)
<1>1. seen \subseteq 0 .. MaxSeq /\ \A s \in Streams : stats[s].max_seq_seen \in seen
  BY DEF StreamStats
<1>2. 0 \in Streams
  BY LegsAssumption DEF Streams
<1>3. seen \subseteq Nat /\ seen # {} /\ \A x \in seen : x <= MaxSeq
  BY <1>1, <1>2, SessionAssumption
<1> HIDE DEF seen
<1>4. \E x \in seen : \A y \in seen : x >= y
  <2>1. PICK x \in seen : \A y \in seen : y <= x
    BY <1>3, SessionAssumption, GreatestNat, Zenon
  <2>2. \A y \in seen : x >= y
    BY <1>3, <2>1
  <2> QED
    BY <2>2
<1>5. leader \in seen /\ \A y \in seen : leader >= y
  BY <1>4 DEF Max
<1>6. new_stats = [s \in Streams |->
            [stats[s] EXCEPT !.sequences_behind_leader = leader - stats[s].max_seq_seen]]
  BY DEF recompute_leader_lag, seen
<1> HIDE DEF leader, new_stats
<1>7. ASSUME NEW s \in Streams
      PROVE  /\ new_stats[s] \in StreamStats
             /\ new_stats[s].packets_won = stats[s].packets_won
             /\ new_stats[s].max_seq_seen = stats[s].max_seq_seen
             /\ new_stats[s].sequences_behind_leader = leader - stats[s].max_seq_seen
  <2>1. stats[s] \in StreamStats /\ leader - stats[s].max_seq_seen \in Nat
    <3>1. leader \in Nat /\ stats[s].max_seq_seen \in Nat /\ leader >= stats[s].max_seq_seen
      BY <1>1, <1>3, <1>5, Zenon
    <3> QED
      BY <3>1
  <2> QED
    BY <1>6, <2>1 DEF StreamStats
<1>8. ASSUME NEW s \in Streams
      PROVE  new_stats[s].max_seq_seen + new_stats[s].sequences_behind_leader = leader
  <2>1. leader \in Nat /\ stats[s].max_seq_seen \in Nat
    BY <1>1, <1>3, <1>5, Zenon
  <2> QED
    BY <1>7, <2>1
<1>9. new_stats \in [Streams -> StreamStats]
  BY <1>6, <1>7, Zenon
<1> QED
  BY <1>3, <1>5, <1>7, <1>8, <1>9 DEF OneLeader, new_stats

LEMMA RecordIs ==
    ASSUME stream_stats \in [Streams -> StreamStats], NEW stream \in Streams, NEW seq \in Seqs,
           NEW lost_race \in BOOLEAN
    PROVE  LET new_stats == record_delivery(stream, seq, lost_race)
           IN  /\ new_stats \in [Streams -> StreamStats]
               /\ OneLeader(new_stats)
               /\ \A s \in Streams :
                    /\ new_stats[s].packets_won =
                         IF s = stream /\ ~lost_race THEN stream_stats[s].packets_won + 1
                         ELSE stream_stats[s].packets_won
                    /\ new_stats[s].max_seq_seen =
                         IF s = stream /\ seq > stream_stats[s].max_seq_seen THEN seq
                         ELSE stream_stats[s].max_seq_seen
<1> DEFINE old == stream_stats[stream]
           won == IF lost_race THEN old.packets_won ELSE old.packets_won + 1
           lost == IF lost_race THEN old.packets_lost_to_peer + 1 ELSE old.packets_lost_to_peer
           seen == IF seq > old.max_seq_seen THEN seq ELSE old.max_seq_seen
           counted == [old EXCEPT !.packets_won = won, !.packets_lost_to_peer = lost,
                                  !.max_seq_seen = seen]
           stats == [stream_stats EXCEPT ![stream] = counted]
           new_stats == record_delivery(stream, seq, lost_race)
<1>1. old \in StreamStats
  OBVIOUS
<1>2. /\ counted \in StreamStats
      /\ counted.packets_won = won
      /\ counted.max_seq_seen = seen
  <2>1. won \in Nat /\ lost \in Nat /\ seen \in 0 .. MaxSeq
    BY <1>1, SessionAssumption DEF StreamStats, Seqs
  <2> HIDE DEF won, lost, seen
  <2> QED
    BY <1>1, <2>1, Zenon DEF StreamStats
<1>3. new_stats = recompute_leader_lag(stats)
  BY Zenon DEF record_delivery, StreamStats
<1> HIDE DEF counted, new_stats
<1>4. /\ stats \in [Streams -> StreamStats]
      /\ \A s \in Streams : stats[s] = IF s = stream THEN counted ELSE stream_stats[s]
  BY <1>2
<1> HIDE DEF stats
<1> DEFINE fin == recompute_leader_lag(stats)
<1>5. /\ fin \in [Streams -> StreamStats]
      /\ OneLeader(fin)
      /\ \A s \in Streams :
            /\ fin[s].packets_won = stats[s].packets_won
            /\ fin[s].max_seq_seen = stats[s].max_seq_seen
  BY <1>4, RecomputeIs
<1> HIDE DEF fin
<1>6. new_stats = fin
  BY <1>3 DEF fin
<1> QED
  BY <1>2, <1>4, <1>5, <1>6 DEF new_stats

LEMMA StatsInit == Init => StatsInv
<1> SUFFICES ASSUME Init PROVE StatsInv
  OBVIOUS
<1>1. /\ DOMAIN winner = {}
      /\ \A s \in Streams : stream_stats[s] =
            [packets_won |-> 0, packets_lost_to_peer |-> 0, max_seq_seen |-> 0,
             sequences_behind_leader |-> 0]
  BY DEF Init
<1>2. stream_stats \in [Streams -> StreamStats]
  BY SessionAssumption DEF Init, StreamStats
<1>3. \A s \in Streams : WonBy(winner, s) = {}
  BY <1>1 DEF WonBy
<1>4. OneLeader(stream_stats)
  <2>1. \A s \in Streams :
            stream_stats[s].max_seq_seen + stream_stats[s].sequences_behind_leader = 0
    BY <1>1
  <2> QED
    BY <2>1 DEF OneLeader
<1>5. \A s \in Streams : stream_stats[s].packets_won = Cardinality(WonBy(winner, s))
  <2>1. Cardinality({}) = 0
    BY FS_EmptySet
  <2> QED
    BY <1>1, <1>3, <2>1, SMTT(30)
<1>6. IsFiniteSet(DOMAIN winner)
  BY <1>1, FS_EmptySet
<1> QED
  BY <1>1, <1>2, <1>4, <1>5, <1>6 DEF StatsInv

\* The history with one more sequence let through, which it did not hold.
LEMMA WonIs ==
    ASSUME NEW w, IsFiniteSet(DOMAIN w), NEW seq, seq \notin DOMAIN w, NEW stream, NEW w2,
           w2 = [q \in DOMAIN w \cup {seq} |-> IF q = seq THEN stream ELSE w[q]]
    PROVE  /\ DOMAIN w2 = DOMAIN w \cup {seq} /\ IsFiniteSet(DOMAIN w2)
           /\ w2[seq] = stream /\ \A q \in DOMAIN w : w2[q] = w[q]
           /\ \A s : Cardinality(WonBy(w2, s)) =
                IF s = stream THEN Cardinality(WonBy(w, s)) + 1 ELSE Cardinality(WonBy(w, s))
<1>1. /\ DOMAIN w2 = DOMAIN w \cup {seq}
      /\ w2[seq] = stream /\ \A q \in DOMAIN w : w2[q] = w[q]
  OBVIOUS
<1>2. IsFiniteSet(DOMAIN w2)
  BY <1>1, FS_AddElement
<1>3. ASSUME NEW s
      PROVE  Cardinality(WonBy(w2, s)) =
                IF s = stream THEN Cardinality(WonBy(w, s)) + 1 ELSE Cardinality(WonBy(w, s))
  <2>1. WonBy(w, s) \subseteq DOMAIN w /\ seq \notin WonBy(w, s)
    BY DEF WonBy
  <2>2. IsFiniteSet(WonBy(w, s))
    BY <2>1, FS_Subset
  <2>3. WonBy(w2, s) = IF s = stream THEN WonBy(w, s) \cup {seq} ELSE WonBy(w, s)
    BY <1>1 DEF WonBy
  <2> QED
    BY <2>1, <2>2, <2>3, FS_AddElement
<1> QED
  BY <1>1, <1>2, <1>3

LEMMA DataStats ==
    ASSUME ArbitrationInv, StatsInv, NEW stream \in Streams \cup {recovery_stream},
           NEW seq \in Seqs, Data(stream, seq)
    PROVE  StatsInv'
<1> DEFINE noted == IF seq > next_unseen
                    THEN note_missing_range(arbiter, next_unseen, seq) ELSE arbiter
           unseen == IF seq > next_unseen THEN seq ELSE next_unseen
           v == verdict(noted, seq)
<1>1. seq \in Nat /\ next_unseen \in Nat
  BY SessionAssumption DEF Seqs, ArbitrationInv, Sound
<1>2. Sound(1, noted, unseen, missing, DOMAIN winner) /\ seq <= unseen
  BY <1>1, NotedSound DEF ArbitrationInv
<1>3. v = "Forward" => seq \notin DOMAIN winner
  <2> HIDE DEF noted, unseen
  <2>1. 1 \in Nat
    OBVIOUS
  <2> QED
    BY <1>1, <1>2, <2>1, ForwardedFirst
<1>4. /\ stream_stats' = IF v = "OutOfWindow" THEN stream_stats
                         ELSE record_delivery(stream, seq, v = "Duplicate")
      /\ winner' = IF v = "Forward"
                   THEN [q \in DOMAIN winner \cup {seq} |-> IF q = seq THEN stream ELSE winner[q]]
                   ELSE winner
  BY DEF Data
<1>5. v \in {"Forward", "OutOfWindow", "Duplicate"}
  <2>1. noted.window_base \in Nat
    BY <1>2 DEF Sound, ArbiterOK
  <2> HIDE DEF noted
  <2> QED
    BY <1>1, <2>1 DEF verdict
<1> HIDE DEF noted, unseen, v
<1> DEFINE dup == v = "Duplicate"
           recorded == record_delivery(stream, seq, dup)
<1>6. stream \in Streams =>
        /\ recorded \in [Streams -> StreamStats]
        /\ OneLeader(recorded)
        /\ \A s \in Streams :
            /\ recorded[s].packets_won =
                 IF s = stream /\ ~(v = "Duplicate") THEN stream_stats[s].packets_won + 1
                 ELSE stream_stats[s].packets_won
            /\ recorded[s].max_seq_seen =
                 IF s = stream /\ seq > stream_stats[s].max_seq_seen THEN seq
                 ELSE stream_stats[s].max_seq_seen
  <2>1. dup \in BOOLEAN /\ stream_stats \in [Streams -> StreamStats]
    BY DEF StatsInv
  <2> SUFFICES ASSUME stream \in Streams
               PROVE  /\ recorded \in [Streams -> StreamStats]
                      /\ OneLeader(recorded)
                      /\ \A s \in Streams :
                          /\ recorded[s].packets_won =
                               IF s = stream /\ ~dup THEN stream_stats[s].packets_won + 1
                               ELSE stream_stats[s].packets_won
                          /\ recorded[s].max_seq_seen =
                               IF s = stream /\ seq > stream_stats[s].max_seq_seen THEN seq
                               ELSE stream_stats[s].max_seq_seen
    OBVIOUS
  <2> HIDE DEF dup
  <2> QED
    BY <2>1, RecordIs
<1>7. stream \notin Streams => recorded = stream_stats
  BY DEF record_delivery
<1> HIDE DEF recorded
<1>8. \A s \in Streams : stream_stats[s].max_seq_seen \in Nat /\ stream_stats[s].packets_won \in Nat
  BY SessionAssumption DEF StatsInv, StreamStats
<1>9. CASE v = "OutOfWindow"
  BY <1>4, <1>9 DEF StatsInv
<1>10. CASE v = "Duplicate"
  <2>1. winner' = winner /\ stream_stats' = recorded
    BY <1>4, <1>10 DEF recorded
  <2>2. CASE stream \notin Streams
    BY <2>1, <2>2, <1>7 DEF StatsInv
  <2>3. CASE stream \in Streams
    <3>1. \A s \in Streams : /\ recorded[s].packets_won = stream_stats[s].packets_won
                             /\ recorded[s].max_seq_seen >= stream_stats[s].max_seq_seen
                             /\ recorded[s].max_seq_seen \in Nat
      BY <1>1, <1>6, <1>8, <1>10, <2>3
    <3>2. \A q \in DOMAIN winner : winner[q] \in Streams => q <= recorded[winner[q]].max_seq_seen
      BY <3>1, <1>8 DEF StatsInv
    <3> QED
      BY <1>6, <2>1, <2>3, <3>1, <3>2 DEF StatsInv
  <2> QED
    BY <2>2, <2>3
<1>11. CASE v = "Forward"
  <2>1. /\ winner' = [q \in DOMAIN winner \cup {seq} |-> IF q = seq THEN stream ELSE winner[q]]
        /\ stream_stats' = recorded
    BY <1>4, <1>11 DEF recorded
  <2>2. IsFiniteSet(DOMAIN winner) /\ seq \notin DOMAIN winner
    BY <1>3, <1>11 DEF StatsInv
  <2>3. /\ DOMAIN winner' = DOMAIN winner \cup {seq} /\ IsFiniteSet(DOMAIN winner')
        /\ winner'[seq] = stream /\ \A q \in DOMAIN winner : winner'[q] = winner[q]
        /\ \A s : Cardinality(WonBy(winner', s)) =
             IF s = stream THEN Cardinality(WonBy(winner, s)) + 1 ELSE Cardinality(WonBy(winner, s))
    BY <2>1, <2>2, WonIs
  <2>4. CASE stream \notin Streams
    <3>1. stream_stats' = stream_stats
      BY <2>1, <2>4, <1>7
    <3>2. \A s \in Streams : Cardinality(WonBy(winner', s)) = Cardinality(WonBy(winner, s))
      BY <2>3, <2>4
    <3>3. \A q \in DOMAIN winner' :
            winner'[q] \in Streams => q <= stream_stats'[winner'[q]].max_seq_seen
      BY <2>3, <2>4, <3>1 DEF StatsInv
    <3> QED
      BY <1>1, <2>3, <3>1, <3>2, <3>3 DEF StatsInv
  <2>5. CASE stream \in Streams
    <3>1. \A s \in Streams : /\ recorded[s].max_seq_seen >= stream_stats[s].max_seq_seen
                             /\ recorded[s].max_seq_seen \in Nat
      BY <1>1, <1>6, <1>8, <2>5
    <3>2. recorded[stream].max_seq_seen >= seq
      BY <1>1, <1>6, <1>8, <2>5
    <3>3. \A s \in Streams : recorded[s].packets_won = Cardinality(WonBy(winner', s))
      BY <1>6, <1>11, <2>3, <2>5 DEF StatsInv
    <3>4. ASSUME NEW q \in DOMAIN winner', winner'[q] \in Streams
          PROVE  q <= recorded[winner'[q]].max_seq_seen
      <4>1. CASE q = seq
        BY <4>1, <1>1, <2>3, <3>1, <3>2
      <4>2. CASE q # seq
        <5>1. q \in DOMAIN winner /\ winner'[q] = winner[q] /\ q \in Nat
          BY <4>2, <2>3 DEF StatsInv
        <5>2. q <= stream_stats[winner'[q]].max_seq_seen
          BY <3>4, <5>1 DEF StatsInv
        <5> QED
          BY <3>1, <3>4, <1>8, <5>1, <5>2
      <4> QED
        BY <4>1, <4>2
    <3> QED
      BY <1>1, <1>6, <2>1, <2>3, <2>5, <3>3, <3>4, Zenon DEF StatsInv
  <2> QED
    BY <2>4, <2>5
<1> QED
  BY <1>5, <1>9, <1>10, <1>11

\* packets_won counts exactly the sequences a leg delivered first, each credited to one leg
\* however many copies race, and no leg's lag is understated: every sequence some leg won
\* is within max_seq_seen + sequences_behind_leader of every leg.
THEOREM StatsAreExact == Spec => []StatsExact
<1>1. ArbitrationInv /\ StatsInv /\ [Next]_vars => StatsInv'
  <2> SUFFICES ASSUME ArbitrationInv, StatsInv, [Next]_vars PROVE StatsInv'
    OBVIOUS
  <2>1. ASSUME NEW stream \in Streams \cup {recovery_stream}, NEW seq \in Seqs, Data(stream, seq)
        PROVE  StatsInv'
    BY <2>1, DataStats
  <2>2. ASSUME NEW next_expected \in 1 .. (MaxSeq + 1), Heartbeat(next_expected)
        PROVE  StatsInv'
    BY <2>2 DEF Heartbeat, StatsInv
  <2>3. CASE Tick
    BY <2>3 DEF Tick, StatsInv
  <2>4. CASE UNCHANGED vars
    BY <2>4 DEF vars, StatsInv
  <2> QED
    BY <2>1, <2>2, <2>3, <2>4 DEF Next
<1>2. StatsInv => StatsExact
  <2> SUFFICES ASSUME StatsInv, NEW s \in Streams
               PROVE  /\ stream_stats[s].packets_won = Cardinality({q \in DOMAIN winner : winner[q] = s})
                      /\ \A q \in DOMAIN winner : winner[q] \in Streams =>
                            q <= stream_stats[s].max_seq_seen + stream_stats[s].sequences_behind_leader
    BY DEF StatsExact
  <2>1. stream_stats[s].packets_won = Cardinality({q \in DOMAIN winner : winner[q] = s})
    BY DEF StatsInv, WonBy
  <2>2. PICK leader \in Nat : \A t \in Streams :
            stream_stats[t].max_seq_seen + stream_stats[t].sequences_behind_leader = leader
    BY DEF StatsInv, OneLeader
  <2>3. \A t \in Streams : /\ stream_stats[t].max_seq_seen \in Nat
                           /\ stream_stats[t].sequences_behind_leader \in Nat
    BY SessionAssumption DEF StatsInv, StreamStats
  <2>4. ASSUME NEW q \in DOMAIN winner, winner[q] \in Streams PROVE q <= leader
    <3>1. q \in Nat /\ q <= stream_stats[winner[q]].max_seq_seen
      BY <2>4 DEF StatsInv
    <3>2. stream_stats[winner[q]].max_seq_seen <= leader
      BY <2>2, <2>3, <2>4
    <3> QED
      BY <2>3, <2>4, <3>1, <3>2
  <2> QED
    BY <2>1, <2>2, <2>4
<1> QED
  BY <1>1, <1>2, StatsInit, ArbitrationSound, PTL DEF Spec
=============================================================================
