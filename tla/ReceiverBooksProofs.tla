-------------------------- MODULE ReceiverBooksProofs --------------------------
(***************************************************************************)
(* The receiver's books, for every number of legs, ring capacity and       *)
(* traffic: what was let through and what is tracked as missing.           *)
(***************************************************************************)
EXTENDS MoldUdpReceiverProofs

\* What is proved of the arbiter's operators for the arbiter on its own.
ArbiterFacts == INSTANCE AbArbiterProofs

\* `u` is one past the highest sequence seen, `lost` the sequences known to be missing
\* and `won` the ones let through.  With one leg nothing is staged.
Ledger(arb, u, lost, won) ==
    IF MultiLeg
    THEN ArbiterFacts!Sound(0, arb, u, lost, won)
    ELSE /\ u \in Nat /\ lost \subseteq Nat /\ won \subseteq Nat
         /\ \A q \in won \cup lost : q < u
         /\ won \cap lost = {}
         /\ \A q \in 0 .. (u - 1) : q \in won \cup lost

\* The arbiter's window as the receiver configures it.
LEMMA WindowIs ==
    Capacity \in Nat \ {0} /\ ConfirmWindow \in Nat
BY ReceiverAssumption, CapacityAssumption

\* The arbiter's operators are the ones the facts are about.
LEMMA SameArbiter ==
    /\ \A n : Arbiter!rebase(n) = ArbiterFacts!rebase(n)
    /\ \A arb, q : Arbiter!verdict(arb, q) = ArbiterFacts!verdict(arb, q)
    /\ \A arb, q : Arbiter!observe(arb, q) = ArbiterFacts!observe(arb, q)
    /\ \A arb, m, n : Arbiter!note_missing_range(arb, m, n) = ArbiterFacts!note_missing_range(arb, m, n)
    /\ \A arb : Arbiter!aged(arb) = ArbiterFacts!aged(arb)
    /\ \A p, S : Arbiter!unstaged(p, S) = ArbiterFacts!unstaged(p, S)
BY DEF Arbiter!rebase, Arbiter!new, Arbiter!verdict, Arbiter!observe, Arbiter!slid,
       Arbiter!delivering, Arbiter!note_missing_range, Arbiter!aged, Arbiter!unstaged,
       Arbiter!staged, Arbiter!Delivered, Arbiter!idx,
       ArbiterFacts!rebase, ArbiterFacts!new, ArbiterFacts!verdict, ArbiterFacts!observe,
       ArbiterFacts!slid, ArbiterFacts!delivering, ArbiterFacts!note_missing_range,
       ArbiterFacts!aged, ArbiterFacts!unstaged, ArbiterFacts!staged,
       ArbiterFacts!Delivered, ArbiterFacts!idx

LEMMA LedgerIs ==
    ASSUME NEW arb, NEW u, NEW lost, NEW won, Ledger(arb, u, lost, won)
    PROVE  /\ u \in Nat /\ lost \subseteq Nat /\ won \subseteq Nat
           /\ \A q \in won \cup lost : q < u
           /\ won \cap lost = {}
           /\ \A q \in 0 .. (u - 1) : q \in won \cup lost \cup DOMAIN arb.pending_gap_confirms
<1>1. CASE MultiLeg
  BY <1>1 DEF Ledger, ArbiterFacts!Sound, ArbiterFacts!Staged
<1>2. CASE ~MultiLeg
  BY <1>2 DEF Ledger
<1> QED
  BY <1>1, <1>2

\* The stream is anchored at n: everything before it is somebody else's.
LEMMA LedgerStart ==
    ASSUME NEW n \in Nat, NEW arb, MultiLeg => arb = Arbiter!rebase(n)
    PROVE  Ledger(arb, n, {}, {q \in Nat : q < n})
<1>1. CASE MultiLeg
  <2>1. arb = ArbiterFacts!rebase(n)
    BY <1>1, SameArbiter
  <2>2. 0 \in Nat
    OBVIOUS
  <2> QED
    BY <1>1, <2>1, <2>2, WindowIs, ArbiterFacts!RebaseSound DEF Ledger
<1>2. CASE ~MultiLeg
  BY <1>2 DEF Ledger
<1> QED
  BY <1>1, <1>2

\* A jump that is tracked at once.
LEMMA LedgerTail ==
    ASSUME NEW arb, NEW u, NEW lost, NEW won, Ledger(arb, u, lost, won), NEW n \in Nat,
           NEW top, top = IF n > u THEN n ELSE u
    PROVE  Ledger(arb, top, lost \cup (u .. (n - 1)), won)
<1>1. CASE MultiLeg
  <2>1. ArbiterFacts!Sound(0, arb, u, lost, won) /\ 0 \in Nat
    BY <1>1 DEF Ledger
  <2>2. ArbiterFacts!Sound(0, arb, top, lost \cup (u .. (n - 1)), won)
    BY <1>1, <2>1, WindowIs, ArbiterFacts!TailSound
  <2> QED
    BY <1>1, <2>2 DEF Ledger
<1>2. CASE ~MultiLeg
  BY <1>2 DEF Ledger
<1> QED
  BY <1>1, <1>2

\* A jump that is staged with several legs, tracked at once with one.
LEMMA LedgerJump ==
    ASSUME NEW arb, NEW u, NEW lost, NEW won, Ledger(arb, u, lost, won), NEW n \in Nat,
           NEW top, top = IF n > u THEN n ELSE u, MultiLeg
    PROVE  Ledger(Arbiter!note_missing_range(arb, u, n), top, lost, won)
<1>1. ArbiterFacts!Sound(0, arb, u, lost, won) /\ 0 \in Nat
  BY DEF Ledger
<1> DEFINE noted == ArbiterFacts!note_missing_range(arb, u, n)
<1>2. ArbiterFacts!Sound(0, noted, top, lost, won)
  <2>1. CASE n > u
    BY <1>1, <2>1, WindowIs, ArbiterFacts!NoteSound
  <2>2. CASE ~(n > u)
    <3>1. u \in Nat /\ n <= u /\ ArbiterFacts!ArbiterOK(arb)
      BY <1>1, <2>2 DEF ArbiterFacts!Sound
    <3>2. noted = arb
      BY <3>1, WindowIs, ArbiterFacts!NoteNothing
    <3> QED
      BY <1>1, <2>2, <3>2
  <2> QED
    BY <2>1, <2>2
<1> QED
  BY <1>2, SameArbiter DEF Ledger

\* A sequence let through.
LEMMA LedgerForward ==
    ASSUME NEW arb, NEW u, NEW lost, NEW won, Ledger(arb, u, lost, won),
           NEW seq \in Nat, seq <= u, MultiLeg => Arbiter!verdict(arb, seq) = "Forward",
           NEW top, top = IF seq >= u THEN seq + 1 ELSE u,
           NEW next_arb, next_arb = IF MultiLeg THEN Arbiter!observe(arb, seq) ELSE arb
    PROVE  Ledger(next_arb, top, lost \ {seq}, won \cup {seq})
<1>1. CASE MultiLeg
  <2>1. ArbiterFacts!Sound(0, arb, u, lost, won) /\ 0 \in Nat
    BY <1>1 DEF Ledger
  <2>2. ArbiterFacts!verdict(arb, seq) = "Forward" /\ next_arb = ArbiterFacts!observe(arb, seq)
    BY <1>1, SameArbiter, SMTT(30)
  <2>3. ArbiterFacts!Sound(0, ArbiterFacts!observe(arb, seq), top, lost \ {seq}, won \cup {seq})
    BY <2>1, <2>2, WindowIs, ArbiterFacts!ForwardSound, SMTT(60)
  <2> QED
    BY <1>1, <2>2, <2>3 DEF Ledger
<1>2. CASE ~MultiLeg
  BY <1>2 DEF Ledger
<1> QED
  BY <1>1, <1>2

\* A copy the arbiter drops.
LEMMA LedgerRefused ==
    ASSUME NEW arb, NEW u, NEW lost, NEW won, Ledger(arb, u, lost, won),
           NEW seq \in Nat, MultiLeg, Arbiter!verdict(arb, seq) # "Forward"
    PROVE  Ledger(Arbiter!observe(arb, seq), u, lost, won) /\ seq < u
<1>1. ArbiterFacts!Sound(0, arb, u, lost, won) /\ 0 \in Nat
  BY SMTT(30) DEF Ledger
<1>2. ArbiterFacts!verdict(arb, seq) # "Forward"
  BY SameArbiter
<1>3. ArbiterFacts!Sound(0, ArbiterFacts!observe(arb, seq), u, lost, won) /\ seq < u
  BY <1>1, <1>2, WindowIs, ArbiterFacts!RefusedSound, SMTT(30)
<1> QED
  BY <1>3, SameArbiter DEF Ledger

\* Time passes.
LEMMA LedgerAged ==
    ASSUME NEW arb, NEW u, NEW lost, NEW won, Ledger(arb, u, lost, won)
    PROVE  Ledger(Arbiter!aged(arb), u, lost, won)
<1>1. CASE MultiLeg
  <2>1. ArbiterFacts!Sound(0, arb, u, lost, won) /\ 0 \in Nat
    BY <1>1 DEF Ledger
  <2>2. ArbiterFacts!Sound(0, ArbiterFacts!aged(arb), u, lost, won)
    BY <1>1, <2>1, WindowIs, ArbiterFacts!AgedSound
  <2> QED
    BY <1>1, <2>2, SameArbiter DEF Ledger
<1>2. CASE ~MultiLeg
  BY <1>2 DEF Ledger
<1> QED
  BY <1>1, <1>2

\* One candidate becomes a tracked gap.
LEMMA LedgerConfirm ==
    ASSUME NEW arb, NEW u, NEW lost, NEW won, Ledger(arb, u, lost, won), MultiLeg,
           NEW q \in DOMAIN arb.pending_gap_confirms
    PROVE  /\ Ledger([arb EXCEPT !.pending_gap_confirms = Arbiter!unstaged(@, {q})],
                     u, lost \cup {q}, won)
           /\ q \in Nat
<1>1. ArbiterFacts!Sound(0, arb, u, lost, won) /\ 0 \in Nat
  BY DEF Ledger
<1>2. {q} \subseteq ArbiterFacts!Staged(arb)
  BY DEF ArbiterFacts!Staged
<1>3. ArbiterFacts!Sound(0, [arb EXCEPT !.pending_gap_confirms = ArbiterFacts!unstaged(@, {q})],
                         u, lost \cup {q}, won)
  BY <1>1, <1>2, WindowIs, ArbiterFacts!ConfirmSound
<1>4. Arbiter!unstaged(arb.pending_gap_confirms, {q}) =
        ArbiterFacts!unstaged(arb.pending_gap_confirms, {q})
  BY SameArbiter
<1>5. q \in Nat
  <2>1. arb.pending_gap_confirms \in ArbiterFacts!Staging
    BY <1>1 DEF ArbiterFacts!Sound, ArbiterFacts!ArbiterOK
  <2> QED
    BY <2>1, Zenon DEF ArbiterFacts!Staging
<1> QED
  BY <1>3, <1>4, <1>5, SMTT(60) DEF Ledger

\* The larger of two numbers, as the code's max.
LEMMA MaxPair ==
    ASSUME NEW a \in Nat, NEW b \in Nat
    PROVE  Max({a, b}) = IF b > a THEN b ELSE a
<1> DEFINE m == IF b > a THEN b ELSE a
<1>1. m \in {a, b} /\ \A y \in {a, b} : m >= y
  OBVIOUS
<1>2. Max({a, b}) \in {a, b} /\ \A y \in {a, b} : Max({a, b}) >= y
  <2> HIDE DEF m
  <2> QED
    BY <1>1, Zenon DEF Max
<1> QED
  BY <1>1, <1>2

\* The lowest confirmed candidate is one of them.
LEMMA MinMember ==
    ASSUME NEW S, S \subseteq Nat, S # {}
    PROVE  Min(S) \in S
<1>1. \E m \in S : \A y \in S : m <= y
  BY LeastNat, Zenon
<1> QED
  BY <1>1, Zenon DEF Min

----------------------------------------------------------------------------
(* The books kept by the receive path. *)

\* The sequences handed out, skipped at the start or parked.
Reached == {q \in Nat : q < expected_next} \cup Held

\* The books agree with the gap map and the ring, up to what a full ring refused; while
\* a datagram is decoded, the part ahead of the block at hand may be still unseen.
Books(u, lost, won) ==
    /\ Ledger(arbiter, u, lost, won)
    /\ Covered \subseteq lost /\ lost \subseteq Covered \cup dropped
    /\ Reached \subseteq won /\ won \subseteq Reached \cup dropped
    /\ IF pc = "block"
       THEN /\ decoding.seq <= u /\ u <= next_unseen /\ End(decoding) <= next_unseen
            /\ u < next_unseen => End(decoding) = next_unseen
       ELSE u = next_unseen

BooksInv ==
    /\ IInv /\ next_unseen \in Nat
    /\ pc = "confirm" => MultiLeg
    /\ ~seq_anchored => Covered = {} /\ next_unseen = expected_next
    /\ seq_anchored => \E u, lost, won : Books(u, lost, won)

\* The message handed out in place, with the run it completes.
LEMMA ReachedInOrder ==
    ASSUME RingInv, seq_anchored, UNCHANGED seq_anchored,
           NEW to \in (expected_next + 1) .. (expected_next + 1 + Capacity),
           advance_and_drain(to)
    PROVE  Reached' = Reached \cup {expected_next}
<1>1. /\ slots \in [0 .. (Capacity - 1) -> Nat \cup {Empty}]
      /\ expected_next \in Nat /\ expected_next + 1 \in Nat
      /\ to \in Nat /\ expected_next + 1 <= to /\ seq_anchored = TRUE
  BY CapacityAssumption DEF RingInv, RingOK
<1>2. \A i \in DOMAIN slots :
        slots[i] # Empty => slots[i] >= expected_next + 1 /\ slot_index(slots[i]) = i
  BY <1>1, EmptyNotNat DEF RingInv, RingOK, RingConsistent
<1>3. drain(slots, expected_next + 1, to)
  BY DEF advance_and_drain
<1> DEFINE run == (expected_next + 1) .. (to - 1)
<1>4. run \subseteq Held /\ Held' = Held \ run /\ expected_next' = to
  <2>1. expected_next' = to
    BY <1>3, ZenonT(30) DEF drain
  <2> QED
    BY <1>1, <1>2, <1>3, <2>1, DrainExact, ZenonT(40) DEF Held
<1> DEFINE below == {q \in Nat : q < expected_next}
           upto == {q \in Nat : q < to}
<1>5. upto = below \cup {expected_next} \cup run
  BY <1>1
<1>6. Reached' = upto \cup Held' /\ Reached = below \cup Held
  BY <1>4 DEF Reached
<1> HIDE DEF run, below, upto
<1> QED
  BY <1>4, <1>5, <1>6

\* A message parked, or parked already.
LEMMA ReachedEarly ==
    ASSUME RingInv, NEW seq \in Nat, seq > expected_next, ~full(seq), insert(seq)
    PROVE  Reached' = Reached \cup {seq} /\ expected_next' = expected_next
<1>1. /\ slots \in [0 .. (Capacity - 1) -> Nat \cup {Empty}] /\ expected_next \in Nat
      /\ slot_index(seq) \in DOMAIN slots
  BY IndexInRing DEF RingInv, RingOK
<1>2. CASE Holds(slots, seq)
  <2>1. seq \in Held
    BY <1>2, HeldInSlot
  <2>2. UNCHANGED <<slots, expected_next>>
    BY <1>2 DEF insert, ignored
  <2> QED
    BY <2>1, <2>2 DEF Reached, Held
<1>3. CASE ~Holds(slots, seq)
  <2>1. slots' = stored(seq) /\ expected_next' = expected_next
    BY <1>1, <1>3 DEF insert, ignored
  <2>2. slots[slot_index(seq)] = Empty
    BY <1>1, <1>3 DEF full, Holds
  <2>3. Held' = Held \cup {seq}
    BY <1>1, <2>1, <2>2, EmptyNotNat DEF stored, Held
  <2> QED
    BY <2>1, <2>3 DEF Reached
<1> QED
  BY <1>2, <1>3

\* What accept_header leaves: the books of the stream it anchored, or of the one that
\* was anchored before.
LEMMA BooksAccepted ==
    ASSUME QueueInv, RingInv, BooksInv, accept_header
    PROVE  /\ Unseen \in Nat /\ seq_anchored' /\ Packet1.sequence \in Nat
           /\ Packet1.count \in Nat
           /\ \E lost, won : /\ Ledger(Anchored, Unseen, lost, won)
                             /\ Covered \subseteq lost /\ lost \subseteq Covered \cup dropped
                             /\ Reached' \subseteq won /\ won \subseteq Reached' \cup dropped
<1>1. /\ pc = "pump" /\ pending_datagrams # <<>> /\ seq_anchored' = TRUE
      /\ IF seq_anchored THEN UNCHANGED ring ELSE reset_expected(Packet1.sequence)
  BY DEF accept_header, Decodable, AtTop
<1>2. Packet1.sequence \in Nat /\ Packet1.count \in Nat /\ next_unseen \in Nat
  BY <1>1, HeadIs DEF BooksInv
<1>3. Unseen \in Nat
  BY <1>2 DEF Unseen
<1>4. CASE seq_anchored
  <2>1. PICK u, lost, won : Books(u, lost, won)
    BY <1>4 DEF BooksInv
  <2>2. Anchored = arbiter /\ Unseen = next_unseen /\ u = next_unseen
    BY <1>1, <1>4, <2>1, SMTT(30) DEF Anchored, Unseen, Books
  <2>3. Reached' = Reached
    BY <1>1, <1>4 DEF ring, Reached, Held
  <2> QED
    BY <1>1, <1>2, <1>3, <2>1, <2>2, <2>3 DEF Books
<1>5. CASE ~seq_anchored
  <2> DEFINE n == Packet1.sequence
             before == {q \in Nat : q < n}
  <2>1. Unseen = n /\ (MultiLeg => Anchored = Arbiter!rebase(n)) /\ expected_next' = n
    BY <1>1, <1>5 DEF Unseen, Anchored, reset_expected
  <2>2. Ledger(Anchored, n, {}, before)
    BY <1>2, <2>1, LedgerStart
  <2>3. Held' = {}
    BY <1>1, <1>5 DEF reset_expected, RingInv, Held
  <2>4. Reached' = before
    BY <2>1, <2>3 DEF Reached
  <2>5. Covered = {}
    BY <1>5 DEF BooksInv
  <2> QED
    BY <1>1, <1>2, <1>3, <2>1, <2>2, <2>4, <2>5, SMTT(30)
<1> QED
  BY <1>4, <1>5

\* A packet that fails the call after it anchored the stream.
LEMMA BooksTruncated ==
    ASSUME QueueInv, RingInv, BooksInv, DecodeTruncated
    PROVE  BooksInv'
<1>1. /\ accept_header /\ arbiter' = Anchored /\ next_unseen' = Unseen /\ pc' = "idle"
      /\ UNCHANGED gaps /\ UNCHANGED dropped
  BY DEF DecodeTruncated
<1>2. Unseen \in Nat /\ seq_anchored'
  BY <1>1, BooksAccepted
<1>3. PICK lost, won : /\ Ledger(Anchored, Unseen, lost, won)
                       /\ Covered \subseteq lost /\ lost \subseteq Covered \cup dropped
                       /\ Reached' \subseteq won /\ won \subseteq Reached' \cup dropped
  BY <1>1, BooksAccepted
<1>4. Covered' = Covered /\ IInv'
  BY <1>1 DEF Covered, BooksInv, IInv, GapsOK, Separated
<1>5. PICK u : u = Unseen
  OBVIOUS
<1>6. Books(u, lost, won)'
  BY <1>1, <1>3, <1>4, <1>5 DEF Books
<1> QED
  BY <1>1, <1>2, <1>4, <1>5, <1>6 DEF BooksInv

\* A heartbeat or an end of session: the tail up to it is tracked at once.
LEMMA BooksControl ==
    ASSUME QueueInv, RingInv, BooksInv, DecodeControl
    PROVE  BooksInv'
<1>1. /\ accept_header /\ arbiter' = Anchored /\ record_missing_range(Unseen, Packet1.sequence)
      /\ next_unseen' = Max({Unseen, Packet1.sequence}) /\ pc' = AfterDatagram
      /\ UNCHANGED dropped
  BY DEF DecodeControl, TrackGap
<1>2. Unseen \in Nat /\ seq_anchored' /\ Packet1.sequence \in Nat
  BY <1>1, BooksAccepted
<1>3. PICK lost, won : /\ Ledger(Anchored, Unseen, lost, won)
                       /\ Covered \subseteq lost /\ lost \subseteq Covered \cup dropped
                       /\ Reached' \subseteq won /\ won \subseteq Reached' \cup dropped
  BY <1>1, BooksAccepted
<1>4. IInv' /\ Covered' = Covered \cup (Unseen .. (Packet1.sequence - 1))
  BY <1>1, <1>2, RecordExact DEF BooksInv
<1>5. PICK u : u = Unseen
  OBVIOUS
<1>6. PICK n : n = Packet1.sequence
  OBVIOUS
<1>7. PICK top : top = IF n > u THEN n ELSE u
  OBVIOUS
<1>8. next_unseen' = top /\ top \in Nat
  BY <1>1, <1>2, <1>5, <1>6, <1>7, MaxPair
<1>9. Ledger(arbiter', top, lost \cup (u .. (n - 1)), won)
  BY <1>1, <1>2, <1>3, <1>5, <1>6, <1>7, LedgerTail, Zenon
<1>10. pc' # "block" /\ (pc' = "confirm" => MultiLeg)
  BY <1>1 DEF AfterDatagram
<1> DEFINE more == lost \cup (u .. (n - 1))
<1>11. Covered' \subseteq more /\ more \subseteq Covered' \cup dropped'
  <2>1. Covered' = Covered \cup (u .. (n - 1)) /\ dropped' = dropped
    BY <1>1, <1>4, <1>5, <1>6
  <2> QED
    BY <2>1, <1>3
<1>12. PICK tracked : tracked = more
  BY Zenon
<1> HIDE DEF more
<1>13. Books(top, tracked, won)'
  BY <1>1, <1>3, <1>8, <1>9, <1>10, <1>11, <1>12 DEF Books, more
<1> QED
  BY <1>2, <1>4, <1>8, <1>10, <1>13 DEF BooksInv

\* Data: the jump is staged with several legs, tracked at once with one, and the blocks
\* follow from there.
LEMMA BooksData ==
    ASSUME QueueInv, RingInv, BooksInv, DecodeData
    PROVE  BooksInv'
<1>1. /\ accept_header /\ next_unseen' = Max({Unseen, Packet1.sequence + Packet1.count})
      /\ decoding' = [stream |-> Head(pending_datagrams).stream, packet |-> Packet1,
                      seq |-> Packet1.sequence, inline |-> 0]
      /\ pc' = "block" /\ UNCHANGED dropped
  BY SMTT(60) DEF DecodeData
<1>2. /\ Unseen \in Nat /\ seq_anchored' /\ Packet1.sequence \in Nat /\ Packet1.count \in Nat
      /\ Packet1.sequence + Packet1.count \in Nat
  BY <1>1, BooksAccepted, SMTT(60)
<1>3. PICK lost, won : /\ Ledger(Anchored, Unseen, lost, won)
                       /\ Covered \subseteq lost /\ lost \subseteq Covered \cup dropped
                       /\ Reached' \subseteq won /\ won \subseteq Reached' \cup dropped
  BY <1>1, BooksAccepted
<1>4. PICK u : u = Unseen
  OBVIOUS
<1>5. PICK n : n = Packet1.sequence
  OBVIOUS
<1>6. PICK top : top = IF n > u THEN n ELSE u
  OBVIOUS
<1>7. decoding'.seq = n /\ End(decoding)' = Packet1.sequence + Packet1.count
  BY <1>1, <1>5, SMTT(60) DEF End
<1>8. /\ next_unseen' \in Nat /\ decoding'.seq <= top /\ top <= next_unseen'
      /\ End(decoding)' <= next_unseen'
      /\ top < next_unseen' => End(decoding)' = next_unseen'
  <2>1. next_unseen' = IF Packet1.sequence + Packet1.count > Unseen
                       THEN Packet1.sequence + Packet1.count ELSE Unseen
    BY <1>1, <1>2, MaxPair
  <2> QED
    BY <1>2, <1>4, <1>5, <1>6, <1>7, <2>1
<1>9. \E tracked : /\ Ledger(arbiter', top, tracked, won) /\ IInv'
                   /\ Covered' \subseteq tracked /\ tracked \subseteq Covered' \cup dropped
  <2>1. CASE MultiLeg
    <3>1. arbiter' = Arbiter!note_missing_range(Anchored, Unseen, Packet1.sequence)
          /\ gaps' = gaps
      BY <2>1 DEF DecodeData
    <3>2. Covered' = Covered /\ IInv'
      BY <3>1 DEF Covered, BooksInv, IInv, GapsOK, Separated
    <3>3. Ledger(arbiter', top, lost, won)
      BY <1>2, <1>3, <1>4, <1>5, <1>6, <2>1, <3>1, LedgerJump
    <3> QED
      BY <1>3, <3>2, <3>3
  <2>2. CASE ~MultiLeg
    <3>1. record_missing_range(Unseen, Packet1.sequence) /\ arbiter' = Anchored
      BY <2>2 DEF DecodeData, TrackGap, Anchored
    <3>2. IInv' /\ Covered' = Covered \cup (u .. (n - 1))
      BY <1>2, <1>4, <1>5, <3>1, RecordExact DEF BooksInv
    <3>3. Ledger(arbiter', top, lost \cup (u .. (n - 1)), won)
      BY <1>2, <1>3, <1>4, <1>5, <1>6, <3>1, LedgerTail, Zenon
    <3>4. /\ Covered' \subseteq lost \cup (u .. (n - 1))
          /\ lost \cup (u .. (n - 1)) \subseteq Covered' \cup dropped
      BY <1>3, <3>2
    <3> QED
      BY <3>2, <3>3, <3>4
  <2> QED
    BY <2>1, <2>2
<1>10. PICK tracked : /\ Ledger(arbiter', top, tracked, won) /\ IInv'
                      /\ Covered' \subseteq tracked /\ tracked \subseteq Covered' \cup dropped
  BY <1>9
<1>11. Books(top, tracked, won)'
  BY <1>1, <1>3, <1>8, <1>10, SMTT(60) DEF Books
<1> QED
  BY <1>1, <1>2, <1>8, <1>10, <1>11, SMTT(60) DEF BooksInv

\* A block let through, before the ring has taken it.
LEMMA BooksForward ==
    ASSUME QueueInv, AnchorInv, BooksInv, ForwardBlock
    PROVE  /\ IInv' /\ End(decoding) <= next_unseen
           /\ \E top, lost, won :
                /\ Ledger(arbiter', top, lost, won)
                /\ Covered' \subseteq lost /\ lost \subseteq Covered' \cup dropped
                /\ Reached \cup {decoding.seq} \subseteq won
                /\ won \subseteq Reached \cup {decoding.seq} \cup dropped
                /\ top \in Nat /\ decoding.seq + 1 <= top /\ top <= next_unseen
                /\ top < next_unseen => End(decoding) = next_unseen
<1>1. /\ AtBlock /\ pc = "block" /\ seq_anchored /\ Verdict = "Forward"
      /\ arbiter' = IF MultiLeg THEN Arbiter!observe(arbiter, decoding.seq) ELSE arbiter
      /\ mark_received(decoding.seq)
  BY SMTT(30) DEF ForwardBlock, AtBlock, AnchorInv, Observe
<1>2. decoding.seq \in Nat /\ End(decoding) \in Nat /\ decoding.seq + 1 <= End(decoding)
  BY <1>1, BlockIs, SMTT(60)
<1>3. PICK u, lost, won : Books(u, lost, won)
  BY <1>1 DEF BooksInv
<1>4. /\ Ledger(arbiter, u, lost, won)
      /\ Covered \subseteq lost /\ lost \subseteq Covered \cup dropped
      /\ Reached \subseteq won /\ won \subseteq Reached \cup dropped
      /\ decoding.seq <= u /\ u <= next_unseen /\ End(decoding) <= next_unseen
      /\ u < next_unseen => End(decoding) = next_unseen
  BY <1>1, <1>3 DEF Books
<1>5. IInv' /\ Covered' = Covered \ {decoding.seq}
  BY <1>1, <1>2, ReceiveExact DEF BooksInv
<1>6. PICK seq : seq = decoding.seq
  OBVIOUS
<1>7. PICK top : top = IF seq >= u THEN seq + 1 ELSE u
  OBVIOUS
<1>8. MultiLeg => Arbiter!verdict(arbiter, seq) = "Forward"
  BY <1>1, <1>6 DEF Verdict
<1>9. Ledger(arbiter', top, lost \ {seq}, won \cup {seq})
  BY <1>1, <1>2, <1>4, <1>6, <1>7, <1>8, LedgerForward, Zenon
<1>10. u \in Nat /\ next_unseen \in Nat
  BY <1>4, LedgerIs, SMTT(60) DEF BooksInv
<1>11. /\ top \in Nat /\ seq + 1 <= top /\ top <= next_unseen
       /\ top < next_unseen => End(decoding) = next_unseen
  BY <1>2, <1>4, <1>6, <1>7, <1>10
<1>12. /\ Covered' \subseteq lost \ {seq} /\ lost \ {seq} \subseteq Covered' \cup dropped
       /\ Reached \cup {seq} \subseteq won \cup {seq}
       /\ won \cup {seq} \subseteq Reached \cup {seq} \cup dropped
  BY <1>4, <1>5, <1>6
<1> QED
  BY <1>4, <1>5, <1>6, <1>9, <1>11, <1>12, SMTT(60)

\* A block the ring takes, or has handed out before: the next one is at hand.
LEMMA BooksTaken ==
    ASSUME QueueInv, AnchorInv, RingInv, BooksInv, InOrderBlock \/ EarlyBlock \/ StaleBlock
    PROVE  BooksInv'
<1>1. /\ ForwardBlock /\ UNCHANGED <<pc, dropped>> /\ AtBlock /\ pc = "block" /\ seq_anchored
      /\ UNCHANGED <<seq_anchored, next_unseen>>
  BY DEF InOrderBlock, EarlyBlock, StaleBlock, ForwardBlock, AtBlock, AnchorInv
<1>2. /\ decoding.seq \in Nat /\ decoding.inline \in Nat /\ decoding.inline + 1 \in Nat
      /\ expected_next \in Nat
  BY <1>1, BlockIs DEF RingInv, RingOK
<1>3. decoding'.seq = decoding.seq + 1 /\ End(decoding)' = End(decoding)
  <2>1. \/ decoding' = [decoding EXCEPT !.seq = @ + 1]
        \/ decoding' = [decoding EXCEPT !.seq = @ + 1, !.inline = decoding.inline + 1]
    BY DEF InOrderBlock, EarlyBlock, StaleBlock, NextBlock
  <2>2. PICK n \in Nat : decoding' = [decoding EXCEPT !.seq = @ + 1, !.inline = n]
    BY <1>1, <1>2, <2>1, NextBlockInline, Zenon
  <2>3. PICK d : d = decoding'
    OBVIOUS
  <2>4. d.seq = decoding.seq + 1 /\ d.packet = decoding.packet
    BY <1>1, <2>2, <2>3, NextBlockIs, Zenon
  <2> QED
    BY <2>3, <2>4 DEF End
<1>4. Reached' = Reached \cup {decoding.seq}
  <2>1. CASE InOrderBlock
    BY <1>1, <2>1, ReachedInOrder DEF InOrderBlock
  <2>2. CASE EarlyBlock
    BY <1>2, <2>2, ReachedEarly DEF EarlyBlock
  <2>3. CASE StaleBlock
    <3>1. decoding.seq < expected_next /\ UNCHANGED ring
      BY <2>3 DEF StaleBlock
    <3>2. decoding.seq \in Reached
      BY <1>2, <3>1 DEF Reached
    <3>3. Reached' = Reached
      BY <3>1 DEF ring, Reached, Held
    <3> QED
      BY <3>2, <3>3
  <2> QED
    BY <2>1, <2>2, <2>3
<1>5. IInv' /\ End(decoding) <= next_unseen
  BY <1>1, BooksForward, SMTT(60)
<1>6. PICK top, lost, won :
        /\ Ledger(arbiter', top, lost, won)
        /\ Covered' \subseteq lost /\ lost \subseteq Covered' \cup dropped
        /\ Reached \cup {decoding.seq} \subseteq won
        /\ won \subseteq Reached \cup {decoding.seq} \cup dropped
        /\ top \in Nat /\ decoding.seq + 1 <= top /\ top <= next_unseen
        /\ top < next_unseen => End(decoding) = next_unseen
  BY <1>1, BooksForward, SMTT(60)
<1>7. Books(top, lost, won)'
  BY <1>1, <1>3, <1>4, <1>5, <1>6, SMTT(60) DEF Books
<1>8. next_unseen' \in Nat
  BY <1>1, SMTT(30) DEF BooksInv
<1> QED
  BY <1>1, <1>5, <1>7, <1>8 DEF BooksInv

\* A full ring: what is left of the datagram counts as seen, and is lost track of.
LEMMA BooksRefused ==
    ASSUME QueueInv, AnchorInv, BooksInv, RingFull
    PROVE  BooksInv'
<1>1. /\ ForwardBlock /\ AtBlock /\ pc' = "idle" /\ seq_anchored
      /\ UNCHANGED <<slots, expected_next, seq_anchored, next_unseen>>
      /\ dropped' = dropped \cup (decoding.seq .. (End(decoding) - 1))
  BY SMTT(60) DEF RingFull, ForwardBlock, AtBlock, AnchorInv, ring
<1>2. decoding.seq \in Nat /\ End(decoding) \in Nat /\ decoding.seq + 1 <= End(decoding)
  BY <1>1, BlockIs
<1>3. IInv' /\ Reached' = Reached /\ next_unseen \in Nat
  BY <1>1, BooksForward, SMTT(60) DEF Reached, Held, BooksInv
<1>4. PICK top, lost, won :
        /\ Ledger(arbiter', top, lost, won)
        /\ Covered' \subseteq lost /\ lost \subseteq Covered' \cup dropped
        /\ Reached \cup {decoding.seq} \subseteq won
        /\ won \subseteq Reached \cup {decoding.seq} \cup dropped
        /\ top \in Nat /\ decoding.seq + 1 <= top /\ top <= next_unseen
        /\ top < next_unseen => End(decoding) = next_unseen
  BY <1>1, BooksForward, SMTT(60)
<1>5. PICK n : n = next_unseen
  OBVIOUS
<1>6. n = IF n > top THEN n ELSE top
  BY <1>3, <1>4, <1>5
<1>7. Ledger(arbiter', n, lost \cup (top .. (n - 1)), won)
  BY <1>3, <1>4, <1>5, <1>6, LedgerTail, Zenon
<1>8. top .. (n - 1) \subseteq dropped' /\ decoding.seq \in dropped' /\ dropped \subseteq dropped'
  <2>1. top .. (n - 1) \subseteq decoding.seq .. (End(decoding) - 1)
    BY <1>2, <1>3, <1>4, <1>5, SMTT(60)
  <2>2. decoding.seq \in decoding.seq .. (End(decoding) - 1)
    BY <1>2
  <2> QED
    BY <1>1, <2>1, <2>2
<1>9. PICK tracked : tracked = lost \cup (top .. (n - 1))
  BY Zenon
<1>10. Books(n, tracked, won)'
  <2>1. /\ Covered' \subseteq tracked /\ tracked \subseteq Covered' \cup dropped'
        /\ Reached' \subseteq won /\ won \subseteq Reached' \cup dropped'
    BY <1>3, <1>4, <1>8, <1>9, SMTT(30)
  <2> QED
    BY <1>1, <1>5, <1>7, <1>9, <2>1, SMTT(60) DEF Books
<1> QED
  BY <1>1, <1>3, <1>10 DEF BooksInv

\* A copy the arbiter drops.
LEMMA BooksDropped ==
    ASSUME QueueInv, AnchorInv, BooksInv, DropBlock
    PROVE  BooksInv'
<1>1. /\ AtBlock /\ pc = "block" /\ seq_anchored /\ Verdict # "Forward"
      /\ arbiter' = IF MultiLeg THEN Arbiter!observe(arbiter, decoding.seq) ELSE arbiter
      /\ decoding' = [decoding EXCEPT !.seq = @ + 1]
      /\ UNCHANGED <<pc, next_unseen, gaps, slots, expected_next, seq_anchored, dropped>>
  BY DEF DropBlock, AtBlock, AnchorInv, Observe, NextBlock, ring
<1>2. MultiLeg /\ Arbiter!verdict(arbiter, decoding.seq) # "Forward"
  BY <1>1 DEF Verdict
<1>3. decoding.seq \in Nat /\ decoding.inline \in Nat
  BY <1>1, BlockIs
<1>4. PICK d : d = decoding'
  OBVIOUS
<1>5. d.seq = decoding.seq + 1 /\ End(d) = End(decoding)
  BY <1>1, <1>3, <1>4, NextBlockIs, NextBlockInline, Zenon
<1>6. PICK u, lost, won : Books(u, lost, won)
  BY <1>1 DEF BooksInv
<1>7. Ledger(arbiter', u, lost, won) /\ decoding.seq < u /\ u \in Nat
  <2>1. Ledger(arbiter, u, lost, won)
    BY <1>6 DEF Books
  <2> QED
    BY <1>1, <1>2, <1>3, <2>1, LedgerRefused, LedgerIs, SMTT(30)
<1>8. decoding'.seq <= u /\ End(decoding)' = End(decoding)
  BY <1>3, <1>4, <1>5, <1>7 DEF End
<1>9. Covered' = Covered /\ Reached' = Reached /\ IInv'
  BY <1>1 DEF Covered, Reached, Held, BooksInv, IInv, GapsOK, Separated
<1>10. Books(u, lost, won)'
  BY <1>1, <1>6, <1>7, <1>8, <1>9 DEF Books
<1> QED
  BY <1>1, <1>9, <1>10 DEF BooksInv

\* A confirmed candidate becomes a tracked gap.
LEMMA BooksConfirmed ==
    ASSUME QueueInv, AnchorInv, BooksInv, ConfirmGap
    PROVE  BooksInv'
<1> DEFINE confirmed == Arbiter!confirmed_gaps(arbiter)
<1>1. /\ pc = "confirm" /\ MultiLeg /\ seq_anchored
      /\ UNCHANGED <<next_unseen, slots, expected_next, seq_anchored, dropped>>
  BY DEF ConfirmGap, AnchorInv, BooksInv, ring
<1>2. PICK u, lost, won : Books(u, lost, won)
  BY <1>1 DEF BooksInv
<1>3. Reached' = Reached
  BY <1>1, SMTT(60) DEF Reached, Held
<1>4. CASE confirmed = {}
  <2>1. pc' = "pump" /\ UNCHANGED <<arbiter, gaps>>
    BY <1>4 DEF ConfirmGap
  <2>2. Covered' = Covered /\ IInv'
    BY <2>1 DEF Covered, BooksInv, IInv, GapsOK, Separated
  <2>3. Books(u, lost, won)'
    BY <1>1, <1>2, <1>3, <2>1, <2>2 DEF Books
  <2> QED
    BY <1>1, <2>1, <2>2, <2>3, SMTT(60) DEF BooksInv
<1>5. CASE confirmed # {}
  <2>1. PICK q : q = Min(confirmed)
    OBVIOUS
  <2>2. /\ arbiter' = [arbiter EXCEPT !.pending_gap_confirms = Arbiter!unstaged(@, {q})]
        /\ record_missing_range(q, q + 1) /\ pc' = pc
    BY <1>5, <2>1 DEF ConfirmGap, record_gap
  <2>3. Ledger(arbiter, u, lost, won)
    BY <1>2 DEF Books
  <2>4. confirmed \subseteq DOMAIN arbiter.pending_gap_confirms
    BY DEF Arbiter!confirmed_gaps
  <2> HIDE DEF confirmed
  <2>5. confirmed \subseteq Nat
    BY <1>1, <2>3, <2>4, LedgerConfirm, Zenon
  <2>6. q \in DOMAIN arbiter.pending_gap_confirms /\ q \in Nat /\ q + 1 \in Nat
    BY <1>5, <2>1, <2>4, <2>5, MinMember, SMTT(60)
  <2>7. Ledger(arbiter', u, lost \cup {q}, won)
    BY <1>1, <2>2, <2>3, <2>6, LedgerConfirm, Zenon
  <2>8. IInv' /\ Covered' = Covered \cup {q}
    <3>1. IInv' /\ Covered' = Covered \cup (q .. ((q + 1) - 1))
      BY <2>2, <2>6, RecordExact DEF BooksInv
    <3>2. q .. ((q + 1) - 1) = {q}
      BY <2>6
    <3> QED
      BY <3>1, <3>2
  <2>9. PICK tracked : tracked = lost \cup {q}
    BY Zenon
  <2>10. Covered' \subseteq tracked /\ tracked \subseteq Covered' \cup dropped
    BY <1>2, <2>8, <2>9 DEF Books
  <2>11. Books(u, tracked, won)'
    BY <1>1, <1>2, <1>3, <2>2, <2>7, <2>9, <2>10 DEF Books
  <2> QED
    BY <1>1, <2>2, <2>8, <2>11 DEF BooksInv
<1> QED
  BY <1>4, <1>5

\* Steps that leave map, ring and blocks alone; time may pass for the candidates.
LEMMA BooksKept ==
    ASSUME BooksInv, arbiter' = arbiter \/ arbiter' = Arbiter!aged(arbiter),
           UNCHANGED <<next_unseen, gaps, slots, expected_next, seq_anchored, dropped>>,
           pc # "block", pc' # "block", pc' = "confirm" => MultiLeg
    PROVE  BooksInv'
<1>1. Covered' = Covered /\ Reached' = Reached /\ IInv'
  BY SMTT(60) DEF Covered, Reached, Held, BooksInv, IInv, GapsOK, Separated
<1>2. ASSUME seq_anchored
      PROVE  \E u, lost, won : Books(u, lost, won)'
  <2>1. PICK u, lost, won : Books(u, lost, won)
    BY <1>2 DEF BooksInv
  <2>2. Ledger(arbiter', u, lost, won)
    BY <2>1, LedgerAged, SMTT(60) DEF Books
  <2>3. Books(u, lost, won)'
    BY <1>1, <2>1, <2>2 DEF Books
  <2> QED
    BY <2>3
<1> QED
  BY <1>1, <1>2 DEF BooksInv

\* Past the last block: everything the datagram announced has been seen.
LEMMA BooksDone ==
    ASSUME QueueInv, AnchorInv, BooksInv, DatagramDone
    PROVE  BooksInv'
<1>1. /\ pc = "block" /\ decoding.seq = End(decoding) /\ seq_anchored
      /\ pc' # "block" /\ (pc' = "confirm" => MultiLeg)
      /\ UNCHANGED <<arbiter, next_unseen, gaps, slots, expected_next, seq_anchored, dropped>>
  BY SMTT(30) DEF DatagramDone, AfterDatagram, AnchorInv, ring
<1>2. PICK u, lost, won : Books(u, lost, won)
  BY <1>1 DEF BooksInv
<1>3. u \in Nat /\ next_unseen \in Nat
  BY <1>2, LedgerIs, SMTT(60) DEF Books, BooksInv
<1>4. u = next_unseen
  BY <1>1, <1>2, <1>3 DEF Books
<1>5. Covered' = Covered /\ Reached' = Reached /\ IInv'
  BY <1>1, SMTT(60) DEF Covered, Reached, Held, BooksInv, IInv, GapsOK, Separated
<1>6. Books(u, lost, won)'
  BY <1>1, <1>2, <1>4, <1>5, SMTT(60) DEF Books
<1> QED
  BY <1>1, <1>3, <1>5, <1>6 DEF BooksInv

LEMMA BooksStep ==
    ASSUME QueueInv, AnchorInv, RingInv, BooksInv, [Next]_vars
    PROVE  BooksInv'
<1>1. CASE UNCHANGED vars
  <2>1. UNCHANGED <<arbiter, next_unseen, gaps, slots, expected_next, seq_anchored, dropped, pc,
                    decoding>>
    BY <1>1, SMTT(60) DEF vars
  <2>2. Covered' = Covered /\ Reached' = Reached /\ IInv' /\ End(decoding)' = End(decoding)
    BY <2>1, SMTT(60) DEF Covered, Reached, Held, End, BooksInv, IInv, GapsOK, Separated
  <2>3. \A u, lost, won : Books(u, lost, won) => Books(u, lost, won)'
    BY <2>1, <2>2, SMTT(60) DEF Books
  <2> QED
    BY <2>1, <2>2, <2>3, SMTT(60) DEF BooksInv
<1>2. CASE Elsewhere
  <2>1. arbiter' = arbiter \/ arbiter' = Arbiter!aged(arbiter)
    BY <1>2, SMTT(60) DEF Elsewhere, Call, SendDue, NothingLanded, WaitReady, CancelRecv, Tick
  <2> QED
    BY <1>2, <2>1, ElsewhereIs, BooksKept, Zenon
<1>3. CASE \/ \E bursts \in [1 .. Legs -> Bursts(Datagrams)], answer \in Answers :
                    PollSources(bursts, answer)
           \/ \E bursts \in [1 .. Legs -> Bursts(Datagrams)], upto \in 0 .. Legs :
                    SourceFails(bursts, upto)
           \/ RejectDatagram \/ yield_item \/ yield_owned
  <2>1. /\ UNCHANGED <<arbiter, next_unseen, gaps, slots, expected_next, seq_anchored, dropped>>
        /\ pc = "pump" /\ pc' \in {"pump", "idle"}
    BY <1>3, Zenon DEF PollSources, SourceFails, RejectDatagram, yield_item, yield_owned, Yield,
                Decodable, AtTop, ring
  <2> QED
    BY <2>1, BooksKept
<1>4. CASE DecodeControl \/ DecodeTruncated \/ DecodeData
  BY <1>4, BooksControl, BooksTruncated, BooksData
<1>5. CASE InOrderBlock \/ EarlyBlock \/ StaleBlock
  BY <1>5, BooksTaken
<1>6. CASE DropBlock \/ RingFull \/ DatagramDone \/ ConfirmGap
  BY <1>6, BooksDropped, BooksRefused, BooksDone, BooksConfirmed
<1> QED
  BY <1>1, <1>2, <1>3, <1>4, <1>5, <1>6, SMTT(60) DEF Next, Elsewhere

LEMMA BooksInit == Init => BooksInv
<1> SUFFICES ASSUME Init PROVE BooksInv
  OBVIOUS
<1>1. /\ new /\ pc = "idle" /\ next_unseen = expected_next
      /\ expected_next = (IF StartSequence = 0 THEN 1 ELSE StartSequence)
      /\ seq_anchored = (StartSequence # 0)
      /\ arbiter = IF StartSequence = 0 THEN Arbiter!new ELSE Arbiter!rebase(StartSequence)
      /\ slots = [i \in 0 .. (Capacity - 1) |-> Empty]
  BY SMTT(60) DEF Init
<1>2. expected_next \in Nat /\ StartSequence \in Nat
  BY <1>1, ReceiverAssumption, SMTT(60)
<1>3. IInv /\ Covered = {}
  BY <1>1, InitExact DEF Missing!Init
<1>4. ASSUME seq_anchored
      PROVE  \E u, lost, won : Books(u, lost, won)
  <2>1. StartSequence # 0 /\ expected_next = StartSequence /\ arbiter = Arbiter!rebase(expected_next)
    BY <1>1, <1>4, Zenon
  <2>2. PICK n : n = expected_next
    OBVIOUS
  <2>3. Ledger(arbiter, n, {}, {q \in Nat : q < n})
    BY <1>2, <2>1, <2>2, LedgerStart
  <2>4. Held = {}
    BY <1>1 DEF Held
  <2>5. Reached = {q \in Nat : q < n}
    BY <2>2, <2>4 DEF Reached
  <2>6. Books(n, {}, {q \in Nat : q < n})
    BY <1>1, <1>3, <2>2, <2>3, <2>5, SMTT(60) DEF Books
  <2> QED
    BY <2>6
<1> QED
  BY <1>1, <1>2, <1>3, <1>4, SMTT(60) DEF BooksInv

LEMMA BooksAlways == Spec => [](QueueInv /\ RingInv /\ BooksInv)
<1>1. Init => QueueInv /\ AnchorInv /\ RingInv /\ BooksInv
  BY ReceiverInit, BooksInit
<1>2. QueueInv /\ AnchorInv /\ RingInv /\ BooksInv /\ [Next]_vars
        => (QueueInv /\ AnchorInv /\ RingInv /\ BooksInv)'
  BY ReceiverRing, BooksStep, SMTT(60)
<1> QED
  BY <1>1, <1>2, PTL DEF Spec

\* What is tracked as missing, and so re-requested, is missing: on any number of legs no
\* sequence that was handed out or is parked stays in the gap map or enters it.
THEOREM TrackedGapsAreMissing == Spec => []GapsAreMissing
<1>1. RingInv /\ BooksInv => GapsAreMissing
  <2> SUFFICES ASSUME RingInv, BooksInv, NEW q \in Covered PROVE q >= expected_next /\ q \notin Held
    BY DEF GapsAreMissing
  <2>1. seq_anchored
    BY DEF BooksInv
  <2>2. PICK u, lost, won : Books(u, lost, won)
    BY <2>1, SMTT(30) DEF BooksInv
  <2>3. q \in lost /\ q \in Nat /\ q \notin won
    BY <2>2, LedgerIs, SMTT(60) DEF Books
  <2>4. q \notin Reached
    BY <2>2, <2>3 DEF Books
  <2>5. expected_next \in Nat /\ q \notin Held /\ ~(q < expected_next)
    BY <2>3, <2>4, SMTT(60) DEF Reached, RingInv, RingOK
  <2> QED
    BY <2>3, <2>5
<1> QED
  BY <1>1, BooksAlways, PTL

\* A ring that refuses a message is the one way to lose track of a sequence: whatever else
\* was seen and not handed out is parked, being decoded, tracked as missing or staged, on
\* any number of legs and at every point of the receive path.
THEOREM OnlyFullRingForgets == Spec => []OnlyRefusalForgets
<1>1. QueueInv /\ RingInv /\ BooksInv => OnlyRefusalForgets
  <2> SUFFICES ASSUME QueueInv, RingInv, BooksInv, NEW q \in expected_next .. (next_unseen - 1)
               PROVE  q \in Accounted \cup dropped
    BY DEF OnlyRefusalForgets
  <2>1. /\ next_unseen \in Nat /\ expected_next \in Nat /\ q \in Nat
        /\ expected_next <= q /\ q < next_unseen
    BY SMTT(60) DEF BooksInv, RingInv, RingOK
  <2>2. seq_anchored
    BY <2>1, SMTT(60) DEF BooksInv
  <2>3. PICK u, lost, won : Books(u, lost, won)
    BY <2>2, SMTT(60) DEF BooksInv
  <2>4. /\ u \in Nat
        /\ \A p \in 0 .. (u - 1) : p \in won \cup lost \cup DOMAIN arbiter.pending_gap_confirms
    BY <2>3, LedgerIs, SMTT(60) DEF Books
  <2>5. CASE q < u
    <3>1. q \in won \cup lost \cup Candidates
      BY <2>1, <2>4, <2>5, SMTT(60) DEF Candidates
    <3>2. q \notin {p \in Nat : p < expected_next}
      BY <2>1
    <3>3. q \in Held \cup dropped \cup Covered \cup Candidates
      BY <2>3, <3>1, <3>2, SMTT(60) DEF Books, Reached
    <3> QED
      BY <3>3 DEF Accounted
  <2>6. CASE q >= u
    <3>1. u < next_unseen
      BY <2>1, <2>4, <2>6, SMTT(60)
    <3>2. pc = "block" /\ decoding.seq <= u /\ End(decoding) = next_unseen
      BY <2>1, <2>3, <2>4, <3>1, SMTT(60) DEF Books
    <3>3. decoding # None /\ decoding.seq \in Nat
      BY <3>2, PacketAssumption, SMTT(60) DEF QueueInv, Decoding
    <3>4. q \in decoding.seq .. (End(decoding) - 1)
      BY <2>1, <2>4, <2>6, <3>2, <3>3, SMTT(60)
    <3> QED
      BY <3>3, <3>4 DEF Accounted, InDecoding
  <2> QED
    BY <2>1, <2>4, <2>5, <2>6, SMTT(60)
<1> QED
  BY <1>1, BooksAlways, PTL

\* Nothing missing goes untracked and nothing that is there is asked for again, for any
\* number of legs, until a full ring has refused a message.
THEOREM TracksAllUnlessRefused == Spec => [](dropped = {} => MissingIsTracked)
<1>1. GapsAreMissing /\ OnlyRefusalForgets => (dropped = {} => MissingIsTracked)
  BY Zenon DEF MissingIsTracked, NothingForgotten, OnlyRefusalForgets
<1> QED
  BY <1>1, TrackedGapsAreMissing, OnlyFullRingForgets, PTL

=============================================================================
