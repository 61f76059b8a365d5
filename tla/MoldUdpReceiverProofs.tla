------------------------- MODULE MoldUdpReceiverProofs -------------------------
(***************************************************************************)
(* The receive path, for every number of legs, ring capacity and traffic:  *)
(* the ring on its own implements the in-order buffer and stays consistent *)
(* in the receiver's use of it, the caller sees an ordered feed, and on    *)
(* one leg every inline item is backed by the datagram it points into.     *)
(***************************************************************************)
EXTENDS MoldUdpReceiver, GapRequestHandlerProofs, FiniteSetTheorems, SequenceTheorems

----------------------------------------------------------------------------
(* The reassembly ring. *)

\* Inductive invariant: a run drains to its end because nothing stale is parked,
\* and re-anchoring finds an empty ring because nothing is parked before it.
RingInv ==
    /\ RingOK
    /\ RingConsistent
    /\ ~seq_anchored => \A i \in DOMAIN slots : slots[i] = Empty

LEMMA IndexInRing ==
    ASSUME NEW seq \in Nat
    PROVE  slot_index(seq) \in 0 .. (Capacity - 1)
BY CapacityAssumption DEF slot_index

LEMMA EmptyNotNat == Empty \notin Nat /\ Empty \in Int
BY DEF Empty

\* A number is parked exactly when its own slot holds it.
LEMMA HeldInSlot ==
    ASSUME RingInv, NEW seq \in Nat
    PROVE  seq \in Held <=> Holds(slots, seq)
BY IndexInRing, EmptyNotNat, Zenon DEF RingInv, RingOK, RingConsistent, Held, Holds

\* Draining a consistent ring hands out the longest run and keeps it consistent.
\* `from` may itself be parked: the run then starts with it.
LEMMA DrainExact ==
    ASSUME NEW parked \in [0 .. (Capacity - 1) -> Nat \cup {Empty}],
           NEW from \in Nat, NEW to \in Nat, from <= to,
           \A i \in DOMAIN parked : parked[i] # Empty => parked[i] >= from /\ slot_index(parked[i]) = i,
           drain(parked, from, to), seq_anchored = TRUE, UNCHANGED seq_anchored
    PROVE  LET inRing == {parked[i] : i \in DOMAIN parked} \ {Empty}
           IN  /\ RingInv'
               /\ from .. (to - 1) \subseteq inRing
               /\ to \notin inRing
               /\ Held' = inRing \ (from .. (to - 1))
<1> USE EmptyNotNat
<1> DEFINE inRing == {parked[i] : i \in DOMAIN parked} \ {Empty}
<1>1. /\ expected_next' = to
      /\ slots' = [i \in DOMAIN parked |-> IF parked[i] \in from .. (to - 1) THEN Empty ELSE parked[i]]
      /\ \A q \in from .. (to - 1) : Holds(parked, q)
      /\ ~Holds(parked, to)
  BY DEF drain
<1>2. RingOK'
  BY <1>1 DEF RingOK
<1>3. from .. (to - 1) \subseteq inRing
  <2> SUFFICES ASSUME NEW q \in from .. (to - 1) PROVE q \in inRing
    OBVIOUS
  <2>1. q \in Nat
    OBVIOUS
  <2>2. slot_index(q) \in DOMAIN parked
    BY <2>1, IndexInRing, SMTT(30)
  <2> QED
    BY <1>1, <2>1, <2>2 DEF Holds
<1>4. to \notin inRing
  BY <1>1 DEF Holds
<1>5. Held' = inRing \ (from .. (to - 1))
  <2>1. Held' = {slots'[i] : i \in DOMAIN slots'} \ {Empty}
    BY DEF Held
  <2>2. DOMAIN slots' = DOMAIN parked
    BY <1>1
  <2>3. \A i \in DOMAIN parked :
          slots'[i] = IF parked[i] \in from .. (to - 1) THEN Empty ELSE parked[i]
    BY <1>1
  <2> QED
    BY <2>1, <2>2, <2>3
<1>6. RingConsistent'
  <2> SUFFICES ASSUME NEW i \in DOMAIN parked, slots'[i] # Empty
               PROVE  slots'[i] > to /\ slot_index(slots'[i]) = i
    BY <1>1 DEF RingConsistent, slot_index
  <2>1. slots'[i] = parked[i] /\ parked[i] \in Nat /\ parked[i] \notin from .. (to - 1)
    BY <1>1
  <2>2. parked[i] >= from /\ slot_index(parked[i]) = i
    BY <2>1
  <2>3. parked[i] # to
    BY <2>1, <2>2, <1>1 DEF Holds
  <2> QED
    BY <2>1, <2>2, <2>3
<1>7. seq_anchored' = TRUE
  OBVIOUS
<1> QED
  BY <1>2, <1>3, <1>4, <1>5, <1>6, <1>7 DEF RingInv

\* The in-order path: advance_expected(1), then drain_ready.
LEMMA InOrderArrivalExact ==
    ASSUME RingInv, InOrderArrival
    PROVE  RingInv' /\ Buffer!Release
<1>1. PICK to \in (expected_next + 1) .. (expected_next + 1 + Capacity) :
            advance_and_drain(to)
  BY DEF InOrderArrival
<1>2. /\ slots \in [0 .. (Capacity - 1) -> Nat \cup {Empty}]
      /\ expected_next \in Nat /\ expected_next + 1 \in Nat
      /\ to \in Nat /\ expected_next + 1 <= to
      /\ seq_anchored = TRUE /\ seq_anchored' = seq_anchored
  BY <1>1, CapacityAssumption DEF RingInv, RingOK, InOrderArrival
<1>3. \A i \in DOMAIN slots :
        slots[i] # Empty => slots[i] >= expected_next + 1 /\ slot_index(slots[i]) = i
  BY <1>2 DEF RingInv, RingConsistent
<1>4. /\ RingInv'
      /\ (expected_next + 1) .. (to - 1) \subseteq Held
      /\ to \notin Held
      /\ Held' = Held \ ((expected_next + 1) .. (to - 1))
  BY <1>1, <1>2, <1>3, DrainExact, ZenonT(40) DEF advance_and_drain, Held
<1>5. expected_next' = to
  BY <1>1 DEF advance_and_drain, drain
<1> QED
  BY <1>2, <1>4, <1>5 DEF Buffer!Release

\* insert ahead of the cursor, on it, and the calls it ignores or refuses.
LEMMA InsertExact ==
    ASSUME RingInv, NEW seq \in Seqs, Insert(seq)
    PROVE  RingInv' /\ [Buffer!Next]_(Buffer!vars)
<1> USE EmptyNotNat
<1>1. /\ seq \in Nat /\ slot_index(seq) \in DOMAIN slots
      /\ slots \in [0 .. (Capacity - 1) -> Nat \cup {Empty}]
      /\ expected_next \in Nat /\ seq_anchored = TRUE /\ seq_anchored' = seq_anchored
  BY SeqsAssumption, IndexInRing DEF RingInv, RingOK, Insert
<1>2. CASE UNCHANGED <<slots, expected_next>>
  BY <1>1, <1>2 DEF RingInv, RingOK, RingConsistent, Held, Buffer!vars, slot_index
<1>3. ASSUME ~ignored(seq), ~full(seq)
      PROVE  /\ seq >= expected_next /\ slots[slot_index(seq)] = Empty
             /\ stored(seq) \in [0 .. (Capacity - 1) -> Nat \cup {Empty}]
             /\ stored(seq)[slot_index(seq)] = seq
             /\ \A i \in DOMAIN slots : i # slot_index(seq) => stored(seq)[i] = slots[i]
             /\ {stored(seq)[i] : i \in DOMAIN stored(seq)} \ {Empty} = Held \cup {seq}
  <2>1. seq >= expected_next /\ slots[slot_index(seq)] = Empty
    BY <1>1, <1>3 DEF ignored, full, Holds
  <2>2. /\ stored(seq) \in [0 .. (Capacity - 1) -> Nat \cup {Empty}]
        /\ stored(seq)[slot_index(seq)] = seq
        /\ \A i \in DOMAIN slots : i # slot_index(seq) => stored(seq)[i] = slots[i]
    BY <1>1 DEF stored
  <2>3. DOMAIN stored(seq) = DOMAIN slots
    BY <1>1, <2>2
  <2>4. {stored(seq)[i] : i \in DOMAIN stored(seq)} \ {Empty} = Held \cup {seq}
    BY <1>1, <2>1, <2>2, <2>3 DEF Held
  <2> QED
    BY <2>1, <2>2, <2>4, Zenon
<1>4. CASE ~ignored(seq) /\ ~full(seq) /\ seq # expected_next /\ slots' = stored(seq)
           /\ expected_next' = expected_next
  <2>1. RingOK'
    BY <1>1, <1>3, <1>4 DEF RingInv, RingOK
  <2>2. RingConsistent'
    BY <1>1, <1>3, <1>4 DEF RingInv, RingConsistent, slot_index
  <2>3. Held' = Held \cup {seq}
    BY <1>3, <1>4, Zenon DEF Held
  <2>4. Buffer!Take(seq)
    BY <1>1, <1>3, <1>4, <2>3 DEF Buffer!Take
  <2> QED
    BY <1>1, <2>1, <2>2, <2>4 DEF RingInv, Buffer!Next
<1>5. ASSUME ~ignored(seq), ~full(seq), seq = expected_next,
             NEW to \in seq .. (seq + Capacity), drain(stored(seq), seq, to)
      PROVE  RingInv' /\ Buffer!Release
  <2> DEFINE parked == stored(seq)
  <2>1. \A i \in DOMAIN parked : parked[i] # Empty => parked[i] >= seq /\ slot_index(parked[i]) = i
    BY <1>1, <1>3, <1>5 DEF RingInv, RingConsistent
  <2>2. to \in Nat /\ seq <= to
    BY <1>1, <1>5, CapacityAssumption
  <2>3. parked \in [0 .. (Capacity - 1) -> Nat \cup {Empty}]
    BY <1>3, <1>5
  <2>4. {parked[i] : i \in DOMAIN parked} \ {Empty} = Held \cup {seq}
    BY <1>3, <1>5
  <2>5. drain(parked, seq, to)
    BY <1>5
  <2> HIDE DEF parked
  <2>6. /\ RingInv'
        /\ seq .. (to - 1) \subseteq Held \cup {seq}
        /\ to \notin Held \cup {seq}
        /\ Held' = (Held \cup {seq}) \ (seq .. (to - 1))
    BY <1>1, <2>1, <2>2, <2>3, <2>4, <2>5, DrainExact, ZenonT(40)
  <2>7. expected_next' = to
    BY <2>5 DEF drain
  <2>8. seq \notin Held
    BY <1>1, <1>5 DEF RingInv, RingOK, RingConsistent, Held
  <2>9. /\ to > seq
        /\ (seq + 1) .. (to - 1) \subseteq Held
        /\ Held' = Held \ ((seq + 1) .. (to - 1))
    BY <1>1, <2>2, <2>6, <2>8
  <2> QED
    BY <1>1, <1>5, <2>6, <2>7, <2>9 DEF Buffer!Release
<1> QED
  BY <1>2, <1>4, <1>5 DEF Insert, insert, Buffer!Next

LEMMA AnchorExact ==
    ASSUME RingInv, NEW seq \in Seqs, Anchor(seq)
    PROVE  RingInv' /\ Buffer!Anchor(seq)
<1>1. /\ seq_anchored = FALSE /\ seq_anchored' = TRUE
      /\ expected_next' = seq /\ slots' = slots /\ seq \in Nat
      /\ \A i \in DOMAIN slots : slots[i] = Empty
  BY SeqsAssumption DEF Anchor, reset_expected, RingInv, RingOK
<1>2. RingInv'
  BY <1>1 DEF RingInv, RingOK, RingConsistent
<1> QED
  BY <1>1, <1>2 DEF Buffer!Anchor, Held

LEMMA RingStepExact ==
    ASSUME RingInv, [RingNext]_ring_vars
    PROVE  RingInv' /\ [Buffer!Next]_(Buffer!vars)
<1>1. CASE UNCHANGED ring_vars
  BY <1>1 DEF ring_vars, RingInv, RingOK, RingConsistent, Held, Buffer!vars, slot_index
<1>2. ASSUME NEW seq \in Seqs, Anchor(seq)
      PROVE  RingInv' /\ [Buffer!Next]_(Buffer!vars)
  BY <1>2, AnchorExact DEF Buffer!Next
<1>3. CASE InOrderArrival
  BY <1>3, InOrderArrivalExact DEF Buffer!Next
<1>4. ASSUME NEW seq \in Seqs, Insert(seq)
      PROVE  RingInv' /\ [Buffer!Next]_(Buffer!vars)
  BY <1>4, InsertExact
<1> QED
  BY <1>1, <1>2, <1>3, <1>4 DEF RingNext

LEMMA RingInitExact == RingInit => RingInv /\ Buffer!Init
<1> SUFFICES ASSUME RingInit PROVE RingInv /\ Buffer!Init
  OBVIOUS
<1>1. /\ slots \in [0 .. (Capacity - 1) -> Nat \cup {Empty}]
      /\ \A i \in DOMAIN slots : slots[i] = Empty
      /\ expected_next = 1 /\ seq_anchored \in BOOLEAN
  BY DEF RingInit
<1>2. Held = {}
  BY <1>1 DEF Held
<1> QED
  BY <1>1, <1>2 DEF RingInv, RingOK, RingConsistent, Buffer!Init

\* Every message parked by SequenceReassembler sits in the slot of its own number
\* and is ahead of expected_next, for every ring capacity.
THEOREM RingAlwaysConsistent == RingSpec => [](RingOK /\ RingConsistent)
<1>1. RingInit => RingInv
  BY RingInitExact
<1>2. RingInv /\ [RingNext]_ring_vars => RingInv'
  BY RingStepExact
<1>3. RingInv => RingOK /\ RingConsistent
  BY DEF RingInv
<1> QED
  BY <1>1, <1>2, <1>3, PTL DEF RingSpec

\* The ring implements the in-order buffer for every capacity: insert, the in-order
\* path and the drain hand out consecutive numbers only, and a parked message
\* leaves only by being handed out ("existing entry is never evicted").
THEOREM RingDeliversInOrder == RingSpec => InOrder
<1>1. RingInit => RingInv /\ Buffer!Init
  BY RingInitExact
<1>2. RingInv /\ [RingNext]_ring_vars => RingInv' /\ [Buffer!Next]_(Buffer!vars)
  BY RingStepExact
<1> QED
  BY <1>1, <1>2, PTL DEF RingSpec, InOrder, Buffer!Spec
----------------------------------------------------------------------------
(* What lands is a sequence of datagrams. *)

Arrivals == [stream : 0 .. Legs, packet : Datagrams \cup Retransmissions]

LEMMA TaggedIn ==
    ASSUME NEW stream \in 0 .. Legs, NEW burst \in Seq(Datagrams \cup Retransmissions)
    PROVE  Tagged(stream, burst) \in Seq(Arrivals)
<1>1. \A i \in DOMAIN burst : [stream |-> stream, packet |-> burst[i]] \in Arrivals
  BY DEF Arrivals
<1>2. Len(burst) \in Nat /\ DOMAIN burst = 1 .. Len(burst)
  OBVIOUS
<1>3. Tagged(stream, burst) \in [1 .. Len(burst) -> Arrivals]
  BY <1>1, <1>2 DEF Tagged
<1> QED
  BY <1>2, <1>3, SeqDef

LEMMA BurstIn ==
    ASSUME NEW S, NEW burst \in Bursts(S)
    PROVE  burst \in Seq(S)
BY ReceiverAssumption, SeqDef DEF Bursts

\* What has landed on the legs up to the nth: the recursive function of Landed.
UpTo(f, bursts, n) ==
    f = [i \in 0 .. n |-> IF i = 0 THEN <<>> ELSE f[i - 1] \o Tagged(i - 1, bursts[i])]

LEMMA UpToExists ==
    ASSUME NEW bursts, NEW n \in Nat
    PROVE  \E f : UpTo(f, bursts, n)
<1> DEFINE Def(m) == \E f : UpTo(f, bursts, m)
           Bad == {m \in Nat : ~Def(m)}
           Val(f, i) == IF i = 0 THEN <<>> ELSE f[i - 1] \o Tagged(i - 1, bursts[i])
<1>1. Def(0)
  <2> DEFINE f == [i \in 0 .. 0 |-> <<>>]
  <2>1. f = [i \in 0 .. 0 |-> Val(f, i)]
    OBVIOUS
  <2> QED
    BY <2>1, Zenon DEF UpTo
<1>2. ASSUME NEW m \in Nat, Def(m) PROVE Def(m + 1)
  <2>1. PICK f : UpTo(f, bursts, m)
    BY <1>2
  <2> DEFINE g == [i \in 0 .. (m + 1) |-> IF i = m + 1 THEN Val(f, i) ELSE f[i]]
  <2>2. \A i \in 0 .. m : g[i] = f[i]
    OBVIOUS
  <2>3. \A i \in 0 .. m : f[i] = Val(f, i)
    BY <2>1 DEF UpTo
  <2>4. ASSUME NEW i \in 0 .. (m + 1)
        PROVE  g[i] = Val(g, i)
    <3>1. i # 0 => i - 1 \in 0 .. m
      OBVIOUS
    <3>2. i # 0 => g[i - 1] = f[i - 1]
      BY <3>1, <2>2
    <3>3. Val(g, i) = Val(f, i)
      BY <3>2
    <3>4. CASE i = m + 1
      BY <3>3, <3>4
    <3>5. CASE i # m + 1
      <4>1. i \in 0 .. m
        BY <3>5
      <4> QED
        BY <4>1, <2>2, <2>3, <3>3
    <3> QED
      BY <3>4, <3>5
  <2>5. g = [i \in 0 .. (m + 1) |-> g[i]]
    OBVIOUS
  <2> HIDE DEF g
  <2>6. g = [i \in 0 .. (m + 1) |-> Val(g, i)]
    BY <2>4, <2>5
  <2> QED
    BY <2>6, Zenon DEF UpTo
<1>3. ASSUME NEW m \in Bad, \A k \in Bad : m <= k PROVE FALSE
  <2>1. m \in Nat /\ ~Def(m) /\ m # 0
    BY <1>1
  <2> HIDE DEF Def
  <2>2. m - 1 \in Nat /\ (m - 1) + 1 = m
    BY <2>1
  <2>3. Def(m - 1)
    BY <2>2, <1>3
  <2> QED
    BY <2>1, <2>2, <2>3, <1>2
<1> HIDE DEF Def
<1>4. Bad = {}
  <2>1. Bad \subseteq Nat
    OBVIOUS
  <2> QED
    BY <2>1, <1>3, LeastNat, Zenon
<1>5. Def(n)
  BY <1>4
<1> QED
  BY <1>5 DEF Def

LEMMA LandedIn ==
    ASSUME NEW bursts, \A s \in 1 .. Legs : bursts[s] \in Seq(Datagrams),
           NEW answer \in Seq(Retransmissions)
    PROVE  Landed(bursts, answer) \in Seq(Arrivals)
<1> DEFINE both == Datagrams \cup Retransmissions
           legs == CHOOSE f : UpTo(f, bursts, Legs)
           Bad == {i \in 0 .. Legs : legs[i] \notin Seq(Arrivals)}
<1>1. Legs \in Nat /\ Legs \in 0 .. Legs
  BY ReceiverAssumption
<1>2. answer \in Seq(both) /\ \A s \in 1 .. Legs : bursts[s] \in Seq(both)
  BY SeqMonotonic
<1>3. \A s \in 1 .. Legs : s - 1 \in 0 .. Legs
  BY <1>1
<1>4. \A s \in 1 .. Legs : Tagged(s - 1, bursts[s]) \in Seq(Arrivals)
  BY <1>2, <1>3, TaggedIn
<1>5. Tagged(Legs, answer) \in Seq(Arrivals)
  BY <1>1, <1>2, TaggedIn
<1>6. UpTo(legs, bursts, Legs)
  BY <1>1, UpToExists, Zenon
<1>7. Landed(bursts, answer) = legs[Legs] \o Tagged(Legs, answer)
  BY DEF Landed, recovery_stream, UpTo
<1> HIDE DEF legs
<1>8. \A i \in 0 .. Legs : legs[i] = IF i = 0 THEN <<>>
                                    ELSE legs[i - 1] \o Tagged(i - 1, bursts[i])
  BY <1>6, Zenon DEF UpTo
<1>9. ASSUME NEW i \in Bad, \A k \in Bad : i <= k PROVE FALSE
  <2>1. <<>> \in Seq(Arrivals) /\ legs[0] = <<>>
    BY <1>1, <1>8
  <2>2. i \in 0 .. Legs /\ legs[i] \notin Seq(Arrivals)
    OBVIOUS
  <2>3. i # 0
    BY <2>1, <2>2, Zenon
  <2>4. i \in 1 .. Legs /\ i - 1 \in 0 .. Legs /\ ~(i <= i - 1)
    BY <2>2, <2>3, <1>1
  <2>5. legs[i - 1] \in Seq(Arrivals)
    BY <2>4, <1>9
  <2>6. legs[i] = legs[i - 1] \o Tagged(i - 1, bursts[i])
    BY <2>2, <2>3, <1>8, Zenon
  <2>7. Tagged(i - 1, bursts[i]) \in Seq(Arrivals)
    BY <2>4, <1>4
  <2>8. legs[i] \in Seq(Arrivals)
    BY <2>5, <2>6, <2>7, ConcatProperties
  <2> QED
    BY <2>2, <2>8
<1>10. Bad = {}
  <2>1. Bad \subseteq Nat
    OBVIOUS
  <2> QED
    BY <2>1, <1>9, LeastNat, Zenon
<1>11. legs[Legs] \in Seq(Arrivals)
  BY <1>1, <1>10
<1> QED
  BY <1>5, <1>7, <1>11, ConcatProperties, Zenon

----------------------------------------------------------------------------
(* Frames in a queue of items, numbered without a break. *)

\* The frames of `queue` are first, first + 1, ..., last - 1 in this order; f[i] is the
\* number the next frame from position i on will have.
Numbered(queue, first, last) ==
    \E f \in [1 .. (Len(queue) + 1) -> Nat] :
        /\ f[1] = first
        /\ f[Len(queue) + 1] = last
        /\ \A i \in 1 .. Len(queue) :
                IF IsFrame(queue[i]) THEN queue[i].sequence = f[i] /\ f[i + 1] = f[i] + 1
                ELSE f[i + 1] = f[i]

LEMMA NumberedEmpty ==
    ASSUME NEW n \in Nat
    PROVE  Numbered(<<>>, n, n)
<1> DEFINE f == [i \in 1 .. 1 |-> n]
<1>1. f \in [1 .. (Len(<<>>) + 1) -> Nat] /\ f[1] = n /\ f[Len(<<>>) + 1] = n
  OBVIOUS
<1>2. 1 .. Len(<<>>) = {}
  OBVIOUS
<1> HIDE DEF f
<1> QED
  BY <1>1, <1>2 DEF Numbered

\* One item: a frame has the number the queue ends at.
LEMMA NumberedOne ==
    ASSUME NEW item, NEW first \in Nat, NEW last \in Nat,
           IF IsFrame(item) THEN item.sequence = first /\ last = first + 1 ELSE last = first
    PROVE  Numbered(<<item>>, first, last)
<1> DEFINE f == [i \in 1 .. 2 |-> IF i = 1 THEN first ELSE last]
           s == <<item>>
<1>1. Len(s) = 1 /\ s[1] = item
  OBVIOUS
<1>2. f \in [1 .. (Len(s) + 1) -> Nat] /\ f[1] = first /\ f[Len(s) + 1] = last /\ f[2] = last
  BY <1>1
<1>3. \A i \in 1 .. Len(s) : i = 1
  BY <1>1
<1> HIDE DEF f, s
<1>4. Numbered(s, first, last)
  BY <1>1, <1>2, <1>3 DEF Numbered
<1> QED
  BY <1>4 DEF s

\* One queue after another.
LEMMA NumberedConcat ==
    ASSUME NEW T, NEW s \in Seq(T), NEW t \in Seq(T), NEW a, NEW b, NEW c,
           Numbered(s, a, b), Numbered(t, b, c)
    PROVE  Numbered(s \o t, a, c)
<1> DEFINE m == Len(s)
           n == Len(t)
           u == s \o t
<1>1. PICK f \in [1 .. (m + 1) -> Nat] :
        /\ f[1] = a /\ f[m + 1] = b
        /\ \A i \in 1 .. m :
                IF IsFrame(s[i]) THEN s[i].sequence = f[i] /\ f[i + 1] = f[i] + 1
                ELSE f[i + 1] = f[i]
  BY SMTT(30) DEF Numbered
<1>2. PICK g \in [1 .. (n + 1) -> Nat] :
        /\ g[1] = b /\ g[n + 1] = c
        /\ \A i \in 1 .. n :
                IF IsFrame(t[i]) THEN t[i].sequence = g[i] /\ g[i + 1] = g[i] + 1
                ELSE g[i + 1] = g[i]
  BY Zenon DEF Numbered
<1> DEFINE h == [i \in 1 .. (m + n + 1) |-> IF i <= m THEN f[i] ELSE g[i - m]]
<1>3. m \in Nat /\ n \in Nat
  OBVIOUS
<1>4. /\ Len(u) = m + n
      /\ \A i \in 1 .. m : u[i] = s[i]
      /\ \A i \in (m + 1) .. (m + n) : u[i] = t[i - m]
  OBVIOUS
<1>5. h \in [1 .. (m + n + 1) -> Nat]
  <2>1. \A i \in 1 .. (m + n + 1) : i <= m => i \in 1 .. (m + 1)
    BY <1>3
  <2>2. \A i \in 1 .. (m + n + 1) : ~(i <= m) => i - m \in 1 .. (n + 1)
    BY <1>3
  <2> QED
    BY <2>1, <2>2
<1>6. /\ \A i \in 1 .. m : h[i] = f[i]
      /\ \A i \in (m + 1) .. (m + n + 1) : h[i] = g[i - m]
  BY <1>3
<1>7. h[m + 1] = f[m + 1]
  BY <1>1, <1>2, <1>3
<1> HIDE DEF h, u, m, n
<1>8. h[1] = a /\ h[Len(u) + 1] = c
  BY <1>1, <1>2, <1>3, <1>4, <1>6, <1>7, SMTT(30)
<1>9. ASSUME NEW i \in 1 .. Len(u)
      PROVE  IF IsFrame(u[i]) THEN u[i].sequence = h[i] /\ h[i + 1] = h[i] + 1
             ELSE h[i + 1] = h[i]
  <2>1. CASE i <= m
    <3>1. i \in 1 .. m /\ (i + 1 \in 1 .. m \/ i + 1 = m + 1)
      BY <2>1, <1>3, <1>4, SMTT(30)
    <3>2. u[i] = s[i] /\ h[i] = f[i] /\ h[i + 1] = f[i + 1]
      BY <3>1, <1>4, <1>6, <1>7, Zenon
    <3> QED
      BY <3>1, <3>2, <1>1, SMTT(60)
  <2>2. CASE i > m
    <3>1. /\ i - m \in 1 .. n /\ i \in (m + 1) .. (m + n) /\ i \in (m + 1) .. (m + n + 1)
          /\ i + 1 \in (m + 1) .. (m + n + 1) /\ (i + 1) - m = (i - m) + 1
      BY <2>2, <1>3, <1>4
    <3>2. u[i] = t[i - m] /\ h[i] = g[i - m] /\ h[i + 1] = g[(i + 1) - m]
      BY <3>1, <1>4, <1>6, Zenon
    <3> QED
      BY <3>1, <3>2, <1>2, SMTT(30)
  <2> QED
    BY <2>1, <2>2, <1>3, <1>4
<1>10. Numbered(u, a, c)
  <2>1. h \in [1 .. (Len(u) + 1) -> Nat]
    BY <1>4, <1>5
  <2> QED
    BY <2>1, <1>8, <1>9, Zenon DEF Numbered
<1> QED
  BY <1>10 DEF u

\* Taking the first item off a queue.
LEMMA NumberedTail ==
    ASSUME NEW T, NEW s \in Seq(T), s # <<>>, NEW a, NEW b, Numbered(s, a, b)
    PROVE  /\ a \in Nat
           /\ IF IsFrame(Head(s)) THEN Head(s).sequence = a /\ Numbered(Tail(s), a + 1, b)
              ELSE Numbered(Tail(s), a, b)
<1> DEFINE n == Len(s)
           t == Tail(s)
<1>1. PICK f \in [1 .. (n + 1) -> Nat] :
        /\ f[1] = a /\ f[n + 1] = b
        /\ \A i \in 1 .. n :
                IF IsFrame(s[i]) THEN s[i].sequence = f[i] /\ f[i + 1] = f[i] + 1
                ELSE f[i + 1] = f[i]
  BY DEF Numbered
<1> DEFINE g == [i \in 1 .. n |-> f[i + 1]]
<1>2. n \in Nat /\ n >= 1 /\ Head(s) = s[1]
  OBVIOUS
<1>3. t \in Seq(T) /\ Len(t) = n - 1 /\ \A i \in 1 .. (n - 1) : t[i] = s[i + 1]
  OBVIOUS
<1>4. \A i \in 1 .. n : i + 1 \in 1 .. (n + 1)
  BY <1>2
<1>5. g \in [1 .. n -> Nat] /\ \A i \in 1 .. n : g[i] = f[i + 1]
  BY <1>4
<1>6. a \in Nat
  BY <1>1, <1>2
<1> HIDE DEF g, t, n
<1>7. g[1] = f[2] /\ g[n] = b
  BY <1>1, <1>2, <1>5
<1>8. ASSUME NEW i \in 1 .. Len(t)
      PROVE  IF IsFrame(t[i]) THEN t[i].sequence = g[i] /\ g[i + 1] = g[i] + 1
             ELSE g[i + 1] = g[i]
  <2>1. i \in 1 .. (n - 1) /\ i \in 1 .. n /\ i + 1 \in 1 .. n
    BY <1>2, <1>3
  <2>2. t[i] = s[i + 1] /\ g[i] = f[i + 1] /\ g[i + 1] = f[(i + 1) + 1]
    BY <2>1, <1>3, <1>5, Zenon
  <2> QED
    BY <2>1, <2>2, <1>1
<1>9. Numbered(t, f[2], b)
  <2>1. Len(t) + 1 = n
    BY <1>2, <1>3
  <2> QED
    BY <2>1, <1>5, <1>7, <1>8, Zenon DEF Numbered
<1>10. IF IsFrame(s[1]) THEN s[1].sequence = f[1] /\ f[2] = f[1] + 1 ELSE f[2] = f[1]
  BY <1>1, <1>2
<1> QED
  BY <1>1, <1>2, <1>6, <1>9, <1>10 DEF t

\* The parked run a drain hands out.
LEMMA NumberedViews ==
    ASSUME NEW from \in Nat, NEW to \in Nat, from <= to
    PROVE  Numbered(Views(from, to), from, to)
<1> DEFINE v == Views(from, to)
           f == [i \in 1 .. (to - from + 1) |-> from + i - 1]
<1>1. to - from \in Nat /\ Len(v) = to - from
  BY DEF Views
<1>2. \A i \in 1 .. Len(v) : v[i] = ViewItem(from + i - 1)
  BY DEF Views
<1>3. f \in [1 .. (Len(v) + 1) -> Nat] /\ \A i \in 1 .. (Len(v) + 1) : f[i] = from + i - 1
  BY <1>1
<1> HIDE DEF f, v
<1>4. f[1] = from /\ f[Len(v) + 1] = to
  BY <1>1, <1>3
<1>5. ASSUME NEW i \in 1 .. Len(v)
      PROVE  IF IsFrame(v[i]) THEN v[i].sequence = f[i] /\ f[i + 1] = f[i] + 1
             ELSE f[i + 1] = f[i]
  <2>1. v[i] = ViewItem(from + i - 1)
    BY <1>2
  <2>2. IsFrame(v[i]) /\ v[i].sequence = from + i - 1
    BY <2>1 DEF IsFrame, ViewItem
  <2>3. f[i] = from + i - 1 /\ f[i + 1] = (from + i - 1) + 1
    BY <1>1, <1>3
  <2> QED
    BY <2>2, <2>3
<1>6. Numbered(v, from, to)
  BY <1>3, <1>4, <1>5, SMTT(30) DEF Numbered
<1> QED
  BY <1>6 DEF v

----------------------------------------------------------------------------
(* The datagrams at hand. *)

\* Every queued datagram is one of the session's, and the block at hand lies in the
\* datagram being decoded.
QueueInv ==
    /\ pending_datagrams \in Seq(Arrivals)
    /\ pc = "block" =>
        /\ decoding \in Decoding
        /\ decoding.packet \in Datagrams \cup Retransmissions
        /\ decoding.packet.sequence <= decoding.seq
        /\ decoding.seq <= End(decoding)

LEMMA HeadIs ==
    ASSUME QueueInv, pending_datagrams # <<>>
    PROVE  /\ Head(pending_datagrams).stream \in 0 .. Legs
           /\ Packet1 \in Datagrams \cup Retransmissions
           /\ Packet1 \in Packet
           /\ Packet1.sequence \in Nat /\ Packet1.count \in Nat
           /\ Packet1.sequence \in Seqs
           /\ Tail(pending_datagrams) \in Seq(Arrivals)
<1>1. Head(pending_datagrams) \in Arrivals /\ Tail(pending_datagrams) \in Seq(Arrivals)
  BY DEF QueueInv
<1>2. Packet1 \in Datagrams \cup Retransmissions /\ Head(pending_datagrams).stream \in 0 .. Legs
  BY <1>1 DEF Packet1, Arrivals
<1>3. Packet1 \in Packet
  BY <1>2, PacketAssumption
<1>4. Packet1.sequence \in Nat /\ Packet1.count \in Nat
  BY <1>3 DEF Packet
<1>5. Packet1.sequence \in Packet1.sequence .. (Packet1.sequence + Packet1.count)
  BY <1>4
<1> QED
  BY <1>1, <1>2, <1>3, <1>4, <1>5, PacketAssumption

LEMMA BlockIs ==
    ASSUME QueueInv, AtBlock
    PROVE  /\ decoding \in Decoding
           /\ decoding.packet \in Datagrams \cup Retransmissions
           /\ decoding.packet.sequence \in Nat /\ End(decoding) \in Nat
           /\ decoding.seq \in Nat /\ decoding.seq \in Seqs /\ decoding.inline \in Nat
           /\ decoding.packet.sequence <= decoding.seq
           /\ decoding.seq + 1 <= End(decoding)
<1>1. /\ decoding \in Decoding /\ decoding.packet \in Datagrams \cup Retransmissions
      /\ decoding.packet.sequence <= decoding.seq
      /\ decoding.seq < End(decoding)
  BY DEF QueueInv, AtBlock
<1>2. /\ decoding.seq \in Nat /\ decoding.inline \in Nat
      /\ decoding.packet.sequence \in Nat /\ decoding.packet.count \in Nat
  BY <1>1 DEF Decoding, Packet
<1>3. /\ End(decoding) \in Nat
      /\ decoding.seq \in decoding.packet.sequence ..
                            (decoding.packet.sequence + decoding.packet.count)
      /\ decoding.seq + 1 <= End(decoding)
  BY <1>1, <1>2 DEF End
<1> QED
  BY <1>1, <1>2, <1>3, PacketAssumption

\* Steps that neither decode nor poll.
Elsewhere == \/ Call \/ SendDue \/ NothingLanded \/ WaitReady \/ CancelRecv \/ Tick

LEMMA ElsewhereIs ==
    ASSUME Elsewhere
    PROVE  /\ UNCHANGED <<session, slots, expected_next, seq_anchored, next_unseen, gaps, ready>>
           /\ UNCHANGED <<pending_datagrams, decoding, dropped, delivered>>
           /\ {pc, pc'} \cap {"block", "confirm"} = {}
BY DEF Elsewhere, Call, SendDue, NothingLanded, WaitReady, CancelRecv, Tick, EnterPump, AtTop,
       ring, items

\* A decoded block leaves the datagram's own fields alone.
LEMMA NextBlockIs ==
    ASSUME QueueInv, AtBlock, NEW n \in Nat, NEW d,
           d = [decoding EXCEPT !.seq = @ + 1, !.inline = n]
    PROVE  /\ d \in Decoding /\ d.packet = decoding.packet
           /\ d.seq = decoding.seq + 1 /\ d.inline = n /\ End(d) = End(decoding)
           /\ d.packet.sequence <= d.seq /\ d.seq <= End(d)
<1> DEFINE q == decoding.seq + 1
<1>0. decoding \in Decoding /\ q \in Nat /\ d = [decoding EXCEPT !.seq = q, !.inline = n]
  BY BlockIs
<1> HIDE DEF q
<1>1. d \in Decoding /\ d.packet = decoding.packet /\ d.seq = q /\ d.inline = n
  BY <1>0, Zenon DEF Decoding
<1>2. End(d) = End(decoding)
  BY <1>1 DEF End
<1> QED
  BY <1>1, <1>2, BlockIs DEF q

LEMMA NextBlockInline ==
    ASSUME QueueInv, AtBlock
    PROVE  [decoding EXCEPT !.seq = @ + 1] =
             [decoding EXCEPT !.seq = @ + 1, !.inline = decoding.inline]
BY BlockIs, Zenon DEF Decoding

LEMMA QueueStep ==
    ASSUME QueueInv, [Next]_vars
    PROVE  QueueInv'
<1>1. CASE UNCHANGED vars
  BY <1>1 DEF vars, QueueInv, End
<1>2. CASE Elsewhere
  BY <1>2, ElsewhereIs, Zenon DEF QueueInv
<1>3. ASSUME NEW bursts \in [1 .. Legs -> Bursts(Datagrams)], NEW answer \in Answers,
             PollSources(bursts, answer)
      PROVE  QueueInv'
  <2>1. \A s \in 1 .. Legs : bursts[s] \in Seq(Datagrams)
    BY BurstIn
  <2>2. answer \in Seq(Retransmissions)
    <3> DEFINE S == {d \in Retransmissions : Contents(d) \subseteq asked}
    <3>1. answer = <<>> \/ answer \in Bursts(S)
      BY DEF Answers
    <3>2. S \subseteq Retransmissions
      OBVIOUS
    <3> HIDE DEF S
    <3>3. Seq(S) \subseteq Seq(Retransmissions)
      BY <3>2, SeqMonotonic
    <3>4. CASE answer = <<>>
      BY <3>4
    <3>5. CASE answer \in Bursts(S)
      BY <3>3, <3>5, BurstIn
    <3> QED
      BY <3>1, <3>4, <3>5
  <2>3. pending_datagrams' \in Seq(Arrivals)
    BY <1>3, <2>1, <2>2, LandedIn, Zenon DEF PollSources
  <2> QED
    BY <1>3, <2>3, SMTT(30) DEF PollSources, AtTop, QueueInv
<1>4. ASSUME NEW bursts \in [1 .. Legs -> Bursts(Datagrams)], NEW upto \in 0 .. Legs,
             SourceFails(bursts, upto)
      PROVE  QueueInv'
  <2> DEFINE some == [s \in 1 .. Legs |-> IF s <= upto THEN bursts[s] ELSE <<>>]
  <2>1. \A s \in 1 .. Legs : bursts[s] \in Seq(Datagrams)
    BY BurstIn
  <2>2. \A s \in 1 .. Legs : some[s] \in Seq(Datagrams)
    BY <2>1
  <2>3. pending_datagrams' = Landed(some, <<>>) /\ pc' = "idle"
    BY <1>4 DEF SourceFails
  <2> HIDE DEF some
  <2>4. <<>> \in Seq(Retransmissions)
    OBVIOUS
  <2>5. pending_datagrams' \in Seq(Arrivals)
    BY <2>2, <2>3, <2>4, LandedIn, Zenon
  <2> QED
    BY <2>3, <2>5 DEF QueueInv
<1>5. CASE RejectDatagram
  BY <1>5, HeadIs DEF RejectDatagram, Decodable, QueueInv
<1>6. CASE DecodeControl \/ DecodeTruncated
  <2>1. pending_datagrams # <<>> /\ pending_datagrams' = Tail(pending_datagrams) /\ pc' # "block"
    BY <1>6 DEF DecodeControl, DecodeTruncated, accept_header, Decodable, AfterDatagram
  <2> QED
    BY <2>1, HeadIs DEF QueueInv
<1>7. CASE DecodeData
  <2>1. /\ pending_datagrams # <<>> /\ pending_datagrams' = Tail(pending_datagrams)
        /\ decoding' = [stream |-> Head(pending_datagrams).stream, packet |-> Packet1,
                        seq |-> Packet1.sequence, inline |-> 0]
    BY <1>7, SMTT(60) DEF DecodeData, accept_header, Decodable
  <2>2. /\ decoding' \in Decoding /\ decoding'.packet = Packet1
        /\ decoding'.seq = Packet1.sequence
    BY <2>1, HeadIs, SMTT(60) DEF Decoding
  <2>3. Packet1.sequence <= Packet1.sequence + Packet1.count
        /\ Packet1.sequence <= Packet1.sequence
    BY <2>1, HeadIs, SMTT(30)
  <2> QED
    BY <2>1, <2>2, <2>3, HeadIs, SMTT(60) DEF QueueInv, End
<1>8. ASSUME AtBlock, decoding' = [decoding EXCEPT !.seq = @ + 1], pc' = pc,
             pending_datagrams' = pending_datagrams
      PROVE  QueueInv'
  BY <1>8, NextBlockIs, NextBlockInline, BlockIs, Zenon DEF QueueInv, End
<1>9. CASE DropBlock \/ EarlyBlock \/ StaleBlock
  BY <1>9, <1>8 DEF DropBlock, EarlyBlock, StaleBlock, ForwardBlock, NextBlock
<1>10. CASE InOrderBlock
  <2>1. /\ AtBlock /\ pc' = pc /\ pending_datagrams' = pending_datagrams
        /\ decoding' = [decoding EXCEPT !.seq = @ + 1, !.inline = @ + 1]
    BY <1>10 DEF InOrderBlock, ForwardBlock
  <2>2. decoding.inline + 1 \in Nat /\ decoding' =
          [decoding EXCEPT !.seq = @ + 1, !.inline = decoding.inline + 1]
    BY <2>1, BlockIs
  <2>3. /\ decoding' \in Decoding /\ decoding'.packet = decoding.packet
        /\ End(decoding') = End(decoding)
        /\ decoding'.packet.sequence <= decoding'.seq /\ decoding'.seq <= End(decoding')
    BY <2>1, <2>2, NextBlockIs, Zenon
  <2> QED
    BY <2>1, <2>3, BlockIs DEF QueueInv, End
<1>11. CASE RingFull \/ DatagramDone \/ ConfirmGap \/ yield_item \/ yield_owned
  <2>1. pending_datagrams' = pending_datagrams /\ pc' # "block"
    BY <1>11 DEF RingFull, ForwardBlock, DatagramDone, AfterDatagram, ConfirmGap, yield_item,
                 yield_owned, Yield
  <2> QED
    BY <2>1 DEF QueueInv
<1> QED
  BY <1>1, <1>2, <1>3, <1>4, <1>5, <1>6, <1>7, <1>9, <1>10, <1>11 DEF Next, Elsewhere

----------------------------------------------------------------------------
(* The ring as the receiver drives it. *)

\* Blocks are decoded and gaps confirmed only once the stream is anchored.
AnchorInv == pc \in {"block", "confirm"} => seq_anchored

\* The receiver makes only the calls the ring is proved for: it anchors once, and parks
\* or hands out sequences of the session.
LEMMA RingCalls ==
    ASSUME QueueInv, AnchorInv, RingOK, [Next]_vars
    PROVE  /\ [RingNext]_ring_vars
           /\ AnchorInv'
<1>1. CASE UNCHANGED vars
  BY <1>1 DEF vars, ring_vars, AnchorInv
<1>2. CASE Elsewhere
  BY <1>2, ElsewhereIs, Zenon DEF ring_vars, AnchorInv
<1>3. CASE \/ \E bursts \in [1 .. Legs -> Bursts(Datagrams)], answer \in Answers :
                    PollSources(bursts, answer)
           \/ \E bursts \in [1 .. Legs -> Bursts(Datagrams)], upto \in 0 .. Legs :
                    SourceFails(bursts, upto)
           \/ RejectDatagram \/ ConfirmGap \/ yield_item \/ yield_owned
  BY <1>3, Zenon DEF PollSources, SourceFails, RejectDatagram, Decodable, ConfirmGap, yield_item,
              yield_owned, Yield, AtTop, ring, ring_vars, AnchorInv
<1>4. CASE accept_header
  <2>1. Packet1.sequence \in Seqs
    BY <1>4, HeadIs DEF accept_header, Decodable
  <2>2. /\ seq_anchored' = TRUE
        /\ IF seq_anchored THEN UNCHANGED ring ELSE reset_expected(Packet1.sequence)
    BY <1>4 DEF accept_header
  <2> QED
    BY <2>1, <2>2, Zenon DEF RingOK, RingNext, Anchor, ring, ring_vars, AnchorInv
<1>5. CASE DecodeControl \/ DecodeTruncated \/ DecodeData
  BY <1>5, <1>4, SMTT(60) DEF DecodeControl, DecodeTruncated, DecodeData
<1>6. CASE DropBlock \/ StaleBlock \/ RingFull \/ DatagramDone
  BY <1>6, SMTT(30) DEF DropBlock, StaleBlock, RingFull, ForwardBlock, DatagramDone, AtBlock, ring, ring_vars,
              AnchorInv
<1>7. ASSUME ForwardBlock, pc' = pc
      PROVE  /\ seq_anchored /\ seq_anchored' = seq_anchored /\ AnchorInv'
             /\ decoding.seq \in Seqs
  BY <1>7, BlockIs, SMTT(30) DEF ForwardBlock, AtBlock, AnchorInv
<1>8. CASE EarlyBlock
  <2>1. ForwardBlock /\ pc' = pc /\ insert(decoding.seq)
    BY <1>8 DEF EarlyBlock
  <2> QED
    BY <2>1, <1>7 DEF RingNext, Insert
<1>9. CASE InOrderBlock
  <2>1. /\ ForwardBlock /\ pc' = pc /\ decoding.seq = expected_next
        /\ \E to \in (expected_next + 1) .. (expected_next + 1 + Capacity) : advance_and_drain(to)
    BY <1>9 DEF InOrderBlock
  <2> QED
    BY <2>1, <1>7 DEF RingNext, InOrderArrival
<1> QED
  BY <1>1, <1>2, <1>3, <1>5, <1>6, <1>8, <1>9 DEF Next, Elsewhere

LEMMA ReceiverInit ==
    ASSUME Init
    PROVE  QueueInv /\ AnchorInv /\ RingInv /\ Buffer!Init
<1>1. /\ slots \in [0 .. (Capacity - 1) -> Nat \cup {Empty}]
      /\ \A i \in DOMAIN slots : slots[i] = Empty
      /\ expected_next \in Nat /\ seq_anchored \in BOOLEAN
  BY ReceiverAssumption DEF Init
<1>2. Held = {}
  BY <1>1 DEF Held
<1>3. RingInv
  BY <1>1 DEF RingInv, RingOK, RingConsistent
<1>4. Buffer!Init
  BY <1>1, <1>2 DEF Buffer!Init
<1>5. QueueInv /\ AnchorInv
  BY DEF Init, QueueInv, AnchorInv
<1> QED
  BY <1>3, <1>4, <1>5

LEMMA ReceiverRing ==
    ASSUME QueueInv, AnchorInv, RingInv, [Next]_vars
    PROVE  /\ QueueInv' /\ AnchorInv' /\ RingInv'
           /\ [Buffer!Next]_(Buffer!vars)
<1>1. QueueInv'
  BY QueueStep
<1>2. [RingNext]_ring_vars /\ AnchorInv'
  BY RingCalls DEF RingInv
<1>3. RingInv' /\ [Buffer!Next]_(Buffer!vars)
  BY <1>2, RingStepExact
<1> QED
  BY <1>1, <1>2, <1>3

\* Whatever the legs and the server deliver, every message the receiver has parked is in
\* its own slot and ahead of the next one to hand out.
THEOREM ReceiverRingConsistent == Spec => []RingConsistent
<1>1. Init => QueueInv /\ AnchorInv /\ RingInv
  BY ReceiverInit
<1>2. QueueInv /\ AnchorInv /\ RingInv /\ [Next]_vars => (QueueInv /\ AnchorInv /\ RingInv)'
  BY ReceiverRing
<1>3. RingInv => RingConsistent
  BY DEF RingInv
<1> QED
  BY <1>1, <1>2, <1>3, PTL DEF Spec

\* The receive path uses the ring as an in-order buffer: it anchors it once, and no
\* decoding, refusal, error or early return loses, repeats or reorders what is parked.
THEOREM ReceiverBuffersInOrder == Spec => InOrder
<1>1. Init => QueueInv /\ AnchorInv /\ RingInv /\ Buffer!Init
  BY ReceiverInit
<1>2. QueueInv /\ AnchorInv /\ RingInv /\ [Next]_vars
        => (QueueInv /\ AnchorInv /\ RingInv)' /\ [Buffer!Next]_(Buffer!vars)
  BY ReceiverRing
<1> QED
  BY <1>1, <1>2, PTL DEF Spec, InOrder, Buffer!Spec

----------------------------------------------------------------------------
(* The feed the caller sees. *)

Items == {GapItem} \cup {EventItem(k) : k \in {"Heartbeat", "EndOfSession"}}
            \cup {InlineItem(q, d) : q \in Nat, d \in Packet} \cup {ViewItem(q) : q \in Nat}

\* `first` is the number the caller is to get next after `out`.
Follows(first, out) ==
    /\ out # <<>> => first = out[Len(out)] + 1
    /\ out = <<>> /\ StartSequence # 0 => first = StartSequence

\* The ready frames lead without a break from what the caller has to the ring's cursor.
FeedInv ==
    /\ ready \in Seq(Items) /\ delivered \in Seq(Nat)
    /\ ~seq_anchored => ready = <<>> /\ delivered = <<>>
    /\ StartSequence # 0 => seq_anchored
    /\ \E first \in Nat : Numbered(ready, first, expected_next) /\ Follows(first, delivered)

LEMMA NumberedNone ==
    ASSUME NEW a, NEW b, Numbered(<<>>, a, b)
    PROVE  a = b
BY DEF Numbered

\* Items join the queue.
LEMMA FeedAppends ==
    ASSUME FeedInv, seq_anchored', delivered' = delivered, NEW more \in Seq(Items),
           ready' = ready \o more, Numbered(more, expected_next, expected_next')
    PROVE  FeedInv'
<1>1. PICK first \in Nat : Numbered(ready, first, expected_next) /\ Follows(first, delivered)
  BY DEF FeedInv
<1>2. ready \in Seq(Items) /\ delivered \in Seq(Nat)
  BY DEF FeedInv
<1>3. Numbered(ready', first, expected_next')
  BY <1>1, <1>2, NumberedConcat
<1>4. ready' \in Seq(Items)
  BY <1>2, ConcatProperties, Zenon
<1> QED
  BY <1>1, <1>2, <1>3, <1>4 DEF FeedInv, Follows

\* Items enter the empty queue of a datagram that may anchor the stream.
LEMMA FeedStarts ==
    ASSUME FeedInv, ready = <<>>, seq_anchored', delivered' = delivered,
           ready' \in Seq(Items), expected_next' \in Nat,
           Numbered(ready', expected_next', expected_next'),
           seq_anchored => expected_next' = expected_next
    PROVE  FeedInv'
<1>1. PICK first \in Nat : Numbered(ready, first, expected_next) /\ Follows(first, delivered)
  BY DEF FeedInv
<1>2. first = expected_next
  BY <1>1, NumberedNone
<1>3. Follows(expected_next', delivered')
  BY <1>1, <1>2 DEF FeedInv, Follows
<1> QED
  BY <1>3 DEF FeedInv

LEMMA OneItem ==
    /\ <<GapItem>> \in Seq(Items) /\ \A n \in Nat : Numbered(<<GapItem>>, n, n)
    /\ \A k \in {"Heartbeat", "EndOfSession"} :
            /\ <<EventItem(k)>> \in Seq(Items)
            /\ \A n \in Nat : Numbered(<<EventItem(k)>>, n, n)
<1>1. GapItem \in Items /\ \A k \in {"Heartbeat", "EndOfSession"} : EventItem(k) \in Items
  BY DEF Items
<1>2. ~IsFrame(GapItem) /\ \A k \in {"Heartbeat", "EndOfSession"} : ~IsFrame(EventItem(k))
  BY DEF IsFrame, GapItem, EventItem
<1> HIDE DEF Items
<1>3. <<GapItem>> \in Seq(Items) /\ \A k \in {"Heartbeat", "EndOfSession"} : <<EventItem(k)>> \in Seq(Items)
  BY <1>1
<1> QED
  BY <1>2, <1>3, NumberedOne

\* What the in-order path hands out: the block itself and the run it completes.
LEMMA HandedOut ==
    ASSUME NEW q \in Nat, NEW d \in Packet, NEW to \in Nat, q + 1 <= to
    PROVE  LET more == <<InlineItem(q, d)>> \o Views(q + 1, to)
           IN  /\ more \in Seq(Items) /\ Numbered(more, q, to)
               /\ <<InlineItem(q, d)>> \in Seq(Items) /\ Views(q + 1, to) \in Seq(Items)
<1> DEFINE one == <<InlineItem(q, d)>>
           run == Views(q + 1, to)
<1>1. InlineItem(q, d) \in Items /\ IsFrame(InlineItem(q, d)) /\ InlineItem(q, d).sequence = q
  BY DEF Items, IsFrame, InlineItem
<1>2. \A i \in 1 .. (to - (q + 1)) : ViewItem((q + 1) + i - 1) \in Items
  BY DEF Items
<1>3. run \in Seq(Items)
  <2>1. to - (q + 1) \in Nat
    OBVIOUS
  <2>2. run \in [1 .. (to - (q + 1)) -> Items]
    BY <1>2 DEF Views
  <2> QED
    BY <2>1, <2>2, SeqDef
<1>4. Numbered(run, q + 1, to)
  BY NumberedViews
<1>5. one \in Seq(Items)
  BY <1>1
<1>6. Numbered(one, q, q + 1)
  BY <1>1, NumberedOne
<1> HIDE DEF one, run
<1>7. one \o run \in Seq(Items)
  BY <1>3, <1>5, ConcatProperties, Zenon
<1>8. Numbered(one \o run, q, to)
  BY <1>3, <1>4, <1>5, <1>6, NumberedConcat
<1> QED
  BY <1>3, <1>5, <1>7, <1>8 DEF one, run

\* accept_header runs with nothing ready and leaves the stream anchored.
LEMMA AcceptIs ==
    ASSUME QueueInv, RingInv, accept_header
    PROVE  /\ ready = <<>> /\ seq_anchored' = TRUE /\ expected_next' \in Nat
           /\ seq_anchored => expected_next' = expected_next
           /\ ~seq_anchored => expected_next' = Packet1.sequence
           /\ pending_datagrams # <<>>
<1>1. /\ ready = <<>> /\ seq_anchored' = TRUE /\ pending_datagrams # <<>>
      /\ IF seq_anchored THEN UNCHANGED ring ELSE reset_expected(Packet1.sequence)
  BY DEF accept_header, Decodable
<1>2. Packet1.sequence \in Nat
  BY <1>1, HeadIs
<1> QED
  BY <1>1, <1>2 DEF RingInv, RingOK, ring, reset_expected

LEMMA FeedDecodes ==
    ASSUME QueueInv, RingInv, FeedInv, DecodeControl \/ DecodeTruncated \/ DecodeData
    PROVE  FeedInv'
<1>1. accept_header /\ delivered' = delivered
  BY SMTT(30) DEF DecodeControl, DecodeTruncated, DecodeData
<1>2. /\ ready = <<>> /\ seq_anchored' = TRUE /\ expected_next' \in Nat
      /\ seq_anchored => expected_next' = expected_next
  BY <1>1, AcceptIs
<1>3. ready' \in Seq(Items) /\ Numbered(ready', expected_next', expected_next')
  <2> DEFINE jump == IF Packet1.sequence > Unseen THEN <<GapItem>> ELSE <<>>
  <2>1. <<>> \in Seq(Items) /\ Numbered(<<>>, expected_next', expected_next')
    BY <1>2, NumberedEmpty
  <2>2. jump \in Seq(Items) /\ Numbered(jump, expected_next', expected_next')
    BY <1>2, <2>1, OneItem
  <2>3. CASE DecodeControl
    <3>1. ready' = jump \o <<EventItem(Packet1.kind)>>
          /\ Packet1.kind \in {"Heartbeat", "EndOfSession"}
      BY <2>3 DEF DecodeControl
    <3>2. /\ <<EventItem(Packet1.kind)>> \in Seq(Items)
          /\ Numbered(<<EventItem(Packet1.kind)>>, expected_next', expected_next')
      BY <1>2, <3>1, OneItem
    <3> HIDE DEF jump
    <3>3. ready' \in Seq(Items)
      BY <2>2, <3>1, <3>2, ConcatProperties, Zenon
    <3>4. Numbered(ready', expected_next', expected_next')
      BY <2>2, <3>1, <3>2, NumberedConcat, Zenon
    <3> QED
      BY <3>3, <3>4
  <2>4. CASE DecodeTruncated
    BY <2>4, <1>2, <2>1 DEF DecodeTruncated, items
  <2>5. CASE DecodeData
    <3>1. ready' = <<>> \/ ready' = jump
      BY <2>5, <1>2, SMTT(30) DEF DecodeData
    <3> HIDE DEF jump
    <3> QED
      BY <3>1, <2>1, <2>2, Zenon
  <2> QED
    BY <2>3, <2>4, <2>5
<1> QED
  BY <1>1, <1>2, <1>3, FeedStarts

LEMMA FeedYields ==
    ASSUME FeedInv, Yield, UNCHANGED seq_anchored, UNCHANGED expected_next
    PROVE  FeedInv' /\ [Feed!Next]_delivered
<1>1. PICK first \in Nat : Numbered(ready, first, expected_next) /\ Follows(first, delivered)
  BY DEF FeedInv
<1>2. /\ ready \in Seq(Items) /\ delivered \in Seq(Nat) /\ ready # <<>> /\ ready' = Tail(ready)
      /\ seq_anchored
  BY DEF FeedInv, Yield
<1>3. /\ ready' \in Seq(Items)
      /\ IF IsFrame(Head(ready))
         THEN Head(ready).sequence = first /\ Numbered(ready', first + 1, expected_next')
         ELSE Numbered(ready', first, expected_next')
  BY <1>1, <1>2, NumberedTail
<1>4. CASE ~IsFrame(Head(ready))
  <2>1. delivered' = delivered
    BY <1>4 DEF Yield
  <2> QED
    BY <1>1, <1>2, <1>3, <1>4, <2>1, SMTT(60) DEF FeedInv, Follows
<1>5. CASE IsFrame(Head(ready))
  <2>1. delivered' = Append(delivered, first)
    BY <1>3, <1>5 DEF Yield
  <2>2. /\ delivered' \in Seq(Nat) /\ delivered' # <<>>
        /\ Len(delivered') = Len(delivered) + 1
        /\ delivered'[Len(delivered')] = first
    BY <1>2, <2>1
  <2>3. Follows(first + 1, delivered') /\ first + 1 \in Nat
    BY <2>2 DEF Follows
  <2>4. FeedInv'
    BY <1>2, <1>3, <1>5, <2>2, <2>3 DEF FeedInv
  <2>5. CASE delivered = <<>>
    <3>1. Len(delivered') = 1 /\ delivered'[1] = first
      BY <2>5, <2>2
    <3>2. first \in IF StartSequence = 0 THEN Nat ELSE {StartSequence}
      BY <1>1, <2>5 DEF Follows
    <3> QED
      BY <2>4, <2>5, <3>1, <3>2 DEF Feed!Next, Feed!First
  <2>6. CASE delivered # <<>>
    <3>1. first = delivered[Len(delivered)] + 1
      BY <1>1, <2>6 DEF Follows
    <3> QED
      BY <2>1, <2>4, <2>6, <3>1 DEF Feed!Next, Feed!Following
  <2> QED
    BY <2>5, <2>6
<1> QED
  BY <1>4, <1>5

LEMMA FeedStep ==
    ASSUME QueueInv, AnchorInv, RingInv, FeedInv, [Next]_vars
    PROVE  FeedInv' /\ [Feed!Next]_delivered
<1>0. expected_next \in Nat /\ seq_anchored \in BOOLEAN
  BY DEF RingInv, RingOK
<1>1. ASSUME UNCHANGED <<ready, delivered, seq_anchored, expected_next>>
      PROVE  FeedInv' /\ [Feed!Next]_delivered
  BY <1>1 DEF FeedInv
<1>2. CASE UNCHANGED vars \/ Elsewhere
  BY <1>1, <1>2, ElsewhereIs, SMTT(60) DEF vars
<1>3. CASE \/ \E bursts \in [1 .. Legs -> Bursts(Datagrams)], answer \in Answers :
                    PollSources(bursts, answer)
           \/ \E bursts \in [1 .. Legs -> Bursts(Datagrams)], upto \in 0 .. Legs :
                    SourceFails(bursts, upto)
           \/ RejectDatagram
  <2>1. UNCHANGED <<ready, delivered, seq_anchored, expected_next>>
    BY <1>3, Zenon DEF PollSources, SourceFails, RejectDatagram, ring, items
  <2> QED
    BY <1>1, <2>1
<1>4. CASE DropBlock \/ RingFull \/ StaleBlock \/ DatagramDone
  <2>1. ASSUME DropBlock \/ DatagramDone
        PROVE  UNCHANGED <<ready, delivered, seq_anchored, expected_next>>
    BY <2>1, SMTT(60) DEF DropBlock, DatagramDone, ring, items
  <2>2. ASSUME RingFull \/ StaleBlock
        PROVE  UNCHANGED <<ready, delivered, seq_anchored, expected_next>>
    BY <2>2, SMTT(60) DEF RingFull, StaleBlock, ForwardBlock, ring, items
  <2> QED
    BY <1>1, <1>4, <2>1, <2>2
<1>5. CASE DecodeControl \/ DecodeTruncated \/ DecodeData
  BY <1>5, FeedDecodes, SMTT(30) DEF DecodeControl, DecodeTruncated, DecodeData
<1>6. CASE EarlyBlock
  <2>1. /\ UNCHANGED <<ready, delivered, seq_anchored>>
        /\ insert(decoding.seq) /\ decoding.seq > expected_next
    BY <1>6 DEF EarlyBlock, ForwardBlock
  <2>2. decoding.seq \in Nat
    BY <1>6, BlockIs, SMTT(60) DEF EarlyBlock, ForwardBlock
  <2>3. expected_next' = expected_next
    BY <1>0, <2>1, <2>2 DEF insert
  <2> QED
    BY <1>1, <2>1, <2>3
<1>7. CASE InOrderBlock
  <2>1. PICK to \in (expected_next + 1) .. (expected_next + 1 + Capacity) :
            /\ advance_and_drain(to)
            /\ ready' = ready \o <<InlineItem(decoding.seq, decoding.packet)>>
                               \o Views(decoding.seq + 1, to)
    BY <1>7 DEF InOrderBlock
  <2> DEFINE one == <<InlineItem(decoding.seq, decoding.packet)>>
             run == Views(decoding.seq + 1, to)
  <2>2. /\ AtBlock /\ decoding.seq = expected_next /\ delivered' = delivered
        /\ seq_anchored' = seq_anchored /\ expected_next' = to
    BY <1>7, <2>1 DEF InOrderBlock, ForwardBlock, advance_and_drain, drain
  <2>3. decoding.seq \in Nat /\ decoding.packet \in Packet
    BY <2>2, BlockIs, PacketAssumption, SMTT(60)
  <2>4. to \in Nat /\ decoding.seq + 1 <= to
    BY <2>2, <1>0, CapacityAssumption
  <2>5. one \o run \in Seq(Items) /\ Numbered(one \o run, expected_next, expected_next')
    BY <2>2, <2>3, <2>4, HandedOut
  <2>6. ready' = ready \o (one \o run)
    <3>1. one \in Seq(Items) /\ run \in Seq(Items) /\ ready \in Seq(Items)
      BY <2>3, <2>4, HandedOut, Zenon DEF FeedInv
    <3> HIDE DEF one, run
    <3> QED
      BY <2>1, <3>1, ConcatAssociative, SMTT(30) DEF one, run
  <2>7. seq_anchored'
    BY <2>2 DEF AnchorInv, AtBlock
  <2> HIDE DEF one, run
  <2>8. FeedInv'
    BY <2>2, <2>5, <2>6, <2>7, FeedAppends, Zenon
  <2> QED
    BY <2>2, <2>8
<1>8. CASE ConfirmGap
  <2>1. CASE UNCHANGED ready
    BY <1>1, <1>8, <2>1 DEF ConfirmGap, ring
  <2>2. CASE ready' = Append(ready, GapItem)
    <3>1. UNCHANGED <<delivered, seq_anchored, expected_next>>
      BY <1>8 DEF ConfirmGap, ring
    <3>2. seq_anchored
      BY <1>8 DEF ConfirmGap, AnchorInv
    <3>3. ready \in Seq(Items) /\ GapItem \in Items
      BY DEF FeedInv, Items
    <3>4. ready' = ready \o <<GapItem>>
      BY <2>2, <3>3, AppendIsConcat
    <3>5. FeedInv'
      BY <1>0, <3>1, <3>2, <3>4, OneItem, FeedAppends, Zenon
    <3> QED
      BY <3>1, <3>5
  <2> QED
    BY <1>8, <2>1, <2>2 DEF ConfirmGap
<1>9. CASE yield_item \/ yield_owned
  BY <1>9, FeedYields, SMTT(60) DEF yield_item, yield_owned, Yield, ring
<1> QED
  BY <1>2, <1>3, <1>4, <1>5, <1>6, <1>7, <1>8, <1>9 DEF Next, Elsewhere

ReceiverInv == QueueInv /\ AnchorInv /\ RingInv /\ FeedInv

LEMMA FeedInit ==
    ASSUME Init
    PROVE  ReceiverInv /\ Feed!Init
<1>1. /\ ready = <<>> /\ delivered = <<>> /\ seq_anchored = (StartSequence # 0)
      /\ expected_next = IF StartSequence = 0 THEN 1 ELSE StartSequence
  BY DEF Init
<1>2. expected_next \in Nat
  BY <1>1, ReceiverAssumption
<1>3. Numbered(ready, expected_next, expected_next) /\ Follows(expected_next, delivered)
  BY <1>1, <1>2, NumberedEmpty DEF Follows
<1>4. ready \in Seq(Items) /\ delivered \in Seq(Nat)
  BY <1>1
<1>5. FeedInv
  BY <1>1, <1>2, <1>3, <1>4, Zenon DEF FeedInv
<1> QED
  BY <1>1, <1>5, ReceiverInit DEF ReceiverInv, Feed!Init

\* The caller sees an ordered feed, whatever is lost, repeated, reordered, delayed, cut
\* off or refused, on any number of legs, with or without recovery and however calls fail:
\* every message once, in sequence order, from the configured start or the joining point.
THEOREM CallerSeesOrderedFeed == Spec => DeliversInOrder
<1>1. Init => ReceiverInv /\ Feed!Init
  BY FeedInit
<1>2. ReceiverInv /\ [Next]_vars => ReceiverInv' /\ [Feed!Next]_delivered
  BY ReceiverRing, FeedStep DEF ReceiverInv
<1> QED
  BY <1>1, <1>2, PTL DEF Spec, DeliversInOrder, Feed!Spec

----------------------------------------------------------------------------
(* Items that point into their datagram. *)

\* Their positions in a queue.
Inlines(queue) == {i \in DOMAIN queue : IsInline(queue[i])}
Free(queue) == Inlines(queue) = {}

LEMMA InlinesFinite ==
    ASSUME NEW T, NEW queue \in Seq(T)
    PROVE  /\ IsFiniteSet(Inlines(queue)) /\ Cardinality(Inlines(queue)) \in Nat
           /\ Inlines(queue) = {} <=> Cardinality(Inlines(queue)) = 0
<1>1. Len(queue) \in Nat /\ Inlines(queue) \subseteq 1 .. Len(queue)
  BY DEF Inlines
<1>2. IsFiniteSet(1 .. Len(queue))
  BY <1>1, FS_Interval
<1>3. IsFiniteSet(Inlines(queue))
  BY <1>1, <1>2, FS_Subset
<1> QED
  BY <1>3, FS_CardinalityType, FS_EmptySet

\* An item leaves at the front.
LEMMA InlinesPop ==
    ASSUME NEW T, NEW all \in Seq(T), all # <<>>
    PROVE  /\ Cardinality(Inlines(all)) =
                IF IsInline(Head(all)) THEN Cardinality(Inlines(Tail(all))) + 1
                ELSE Cardinality(Inlines(Tail(all)))
           /\ \A i \in Inlines(Tail(all)) : i + 1 \in Inlines(all) /\ all[i + 1] = Tail(all)[i]
           /\ \A j \in Inlines(all) : j # 1 => /\ j - 1 \in Inlines(Tail(all))
                                               /\ all[j] = Tail(all)[j - 1]
           /\ all[1] = Head(all)
           /\ IsInline(Head(all)) => 1 \in Inlines(all)
<1> DEFINE item == Head(all)
           queue == Tail(all)
           rest == Inlines(all) \ {1}
           f == [i \in Inlines(queue) |-> i + 1]
<1>1. /\ queue \in Seq(T) /\ Len(all) = Len(queue) + 1 /\ Len(queue) \in Nat
      /\ all[1] = item /\ \A i \in 1 .. Len(queue) : all[i + 1] = queue[i]
  OBVIOUS
<1> HIDE DEF item, queue
<1>2. DOMAIN all = 1 .. (Len(queue) + 1) /\ DOMAIN queue = 1 .. Len(queue)
  BY <1>1
<1>3. \A i \in Inlines(queue) : i \in 1 .. Len(queue) /\ i + 1 \in rest
  BY <1>1, <1>2 DEF Inlines
<1>4. ASSUME NEW j \in rest
      PROVE  /\ j \in Nat /\ j - 1 \in Inlines(queue) /\ f[j - 1] = j
             /\ all[j] = queue[j - 1]
  <2>1. j \in 2 .. (Len(queue) + 1) /\ IsInline(all[j])
    BY <1>1, <1>2 DEF Inlines
  <2>2. j - 1 \in 1 .. Len(queue) /\ all[(j - 1) + 1] = queue[j - 1] /\ (j - 1) + 1 = j
    BY <1>1, <2>1
  <2>3. j - 1 \in Inlines(queue)
    BY <1>2, <2>1, <2>2 DEF Inlines
  <2> QED
    BY <2>1, <2>2, <2>3
<1>5. f \in Bijection(Inlines(queue), rest)
  <2>1. f \in [Inlines(queue) -> rest]
    BY <1>3
  <2>2. \A a, b \in Inlines(queue) : f[a] = f[b] => a = b
    BY <1>3
  <2>3. \A j \in rest : \E i \in Inlines(queue) : f[i] = j
    BY <1>4, Zenon
  <2> HIDE DEF f, rest
  <2>4. f \in Injection(Inlines(queue), rest)
    BY <2>1, <2>2 DEF Injection, IsInjective
  <2>5. f \in Surjection(Inlines(queue), rest)
    BY <2>1, <2>3 DEF Surjection
  <2> QED
    BY <2>4, <2>5 DEF Bijection
<1>6. IsFiniteSet(rest) /\ Cardinality(rest) = Cardinality(Inlines(queue))
  <2>1. IsFiniteSet(Inlines(queue))
    BY <1>1, InlinesFinite
  <2> HIDE DEF f, rest
  <2> QED
    BY <1>5, <2>1, FS_Bijection DEF ExistsBijection
<1>7. \A i \in Inlines(queue) : i + 1 \in Inlines(all) /\ all[i + 1] = queue[i]
  BY <1>1, <1>3
<1>8. \A j \in Inlines(all) : j # 1 => j - 1 \in Inlines(queue) /\ all[j] = queue[j - 1]
  BY <1>4, Zenon
<1>9. CASE IsInline(item)
  <2>1. 1 \in Inlines(all) /\ Inlines(all) = rest \cup {1} /\ 1 \notin rest
    BY <1>1, <1>2, <1>9 DEF Inlines
  <2>2. Cardinality(Inlines(all)) = Cardinality(rest) + 1
    <3> HIDE DEF rest
    <3> QED
      BY <2>1, <1>6, FS_AddElement
  <2> HIDE DEF rest
  <2> QED
    BY <1>1, <1>6, <1>7, <1>8, <1>9, <2>1, <2>2, Zenon DEF item, queue
<1>10. CASE ~IsInline(item)
  <2>1. Inlines(all) = rest
    BY <1>1, <1>2, <1>10 DEF Inlines
  <2> HIDE DEF rest
  <2> QED
    BY <1>1, <1>6, <1>7, <1>8, <1>10, <2>1, Zenon DEF item, queue
<1> QED
  BY <1>9, <1>10, Zenon

\* An item and what it completes join the end.
LEMMA InlinesPush ==
    ASSUME NEW queue \in Seq(Items), NEW item \in Items, IsInline(item), NEW more \in Seq(Items),
           Free(more)
    PROVE  /\ Cardinality(Inlines(queue \o <<item>> \o more)) = Cardinality(Inlines(queue)) + 1
           /\ \A i \in Inlines(queue \o <<item>> \o more) :
                \/ (queue \o <<item>> \o more)[i] = item
                \/ i \in Inlines(queue) /\ (queue \o <<item>> \o more)[i] = queue[i]
<1> DEFINE n == Len(queue)
           all == queue \o <<item>> \o more
<1>1. /\ n \in Nat /\ Len(more) \in Nat /\ Len(all) = n + 1 + Len(more) /\ all \in Seq(Items)
      /\ \A i \in 1 .. n : all[i] = queue[i]
      /\ all[n + 1] = item
      /\ \A i \in 1 .. Len(more) : all[n + 1 + i] = more[i]
  OBVIOUS
<1> HIDE DEF n, all
<1>2. /\ DOMAIN all = 1 .. (n + 1 + Len(more)) /\ DOMAIN queue = 1 .. n
      /\ DOMAIN more = 1 .. Len(more)
  BY <1>1 DEF n
<1>3. ASSUME NEW i \in Inlines(all), i # n + 1 PROVE i \in Inlines(queue) /\ all[i] = queue[i]
  <2>1. i \in 1 .. (n + 1 + Len(more)) /\ IsInline(all[i])
    BY <1>2 DEF Inlines
  <2>2. CASE i <= n
    <3>1. i \in 1 .. n
      BY <2>1, <2>2, <1>1
    <3> QED
      BY <3>1, <2>1, <1>1, <1>2 DEF Inlines
  <2>3. CASE i > n
    <3>1. i - (n + 1) \in 1 .. Len(more) /\ n + 1 + (i - (n + 1)) = i
      BY <2>1, <2>3, <1>1, <1>3
    <3>2. all[i] = more[i - (n + 1)]
      BY <3>1, <1>1
    <3>3. i - (n + 1) \in Inlines(more)
      BY <2>1, <3>1, <3>2, <1>2 DEF Inlines
    <3> QED
      BY <3>3 DEF Free
  <2> QED
    BY <2>1, <2>2, <2>3, <1>1
<1>4. n + 1 \in Inlines(all) /\ n + 1 \notin Inlines(queue)
  BY <1>1, <1>2 DEF Inlines
<1>5. Inlines(queue) \subseteq Inlines(all)
  BY <1>1, <1>2 DEF Inlines
<1>6. Inlines(all) = Inlines(queue) \cup {n + 1}
  BY <1>3, <1>4, <1>5
<1>7. IsFiniteSet(Inlines(queue))
  BY InlinesFinite
<1>8. Cardinality(Inlines(all)) = Cardinality(Inlines(queue)) + 1
  BY <1>4, <1>6, <1>7, FS_AddElement, Zenon
<1> QED
  BY <1>1, <1>3, <1>8, Zenon DEF all

\* The caller still has the item last handed out, and it points into its datagram.
Lent == current # None /\ IsInline(current)

\* InlineBacked, with the item lent to the caller apart from the ready ones.
Backed ==
    /\ inline_pending = IF Lent THEN Cardinality(Inlines(ready)) + 1 ELSE Cardinality(Inlines(ready))
    /\ \A i \in Inlines(ready) : ready[i].of = backing
    /\ Lent => current.of = backing
    /\ inline_pending = 0 => backing = None

\* With one leg `inline` counts the datagram's items, and once there is one, no block left
\* is ahead of the ring's cursor: none can meet a full ring.
InlineInv ==
    /\ pc # "confirm"
    /\ pc # "idle" => current = None
    /\ current = None \/ current \in Items
    /\ pc # "block" => Backed
    /\ pc = "block" =>
        /\ backing = None /\ inline_pending = 0
        /\ decoding.inline = Cardinality(Inlines(ready))
        /\ \A i \in Inlines(ready) : ready[i].of = decoding.packet
        /\ decoding.inline > 0 => decoding.seq <= expected_next

LEMMA BackedIsInlineBacked ==
    ASSUME ready \in Seq(Items), current = None \/ current \in Items, pc # "block" => Backed
    PROVE  InlineBacked
<1> SUFFICES ASSUME pc # "block", Backed PROVE InlineBacked
  BY Zenon DEF InlineBacked
<1>1. CASE current = None
  <2>1. ~Lent /\ inline_pending = Cardinality(Inlines(ready))
    BY <1>1, InlinesFinite DEF Backed, Lent
  <2>2. Inlines(ready) = {} => backing = None
    BY <2>1, InlinesFinite, Zenon DEF Backed
  <2> QED
    BY <1>1, <2>1, <2>2 DEF InlineBacked, Backed, Inlines
<1>2. CASE current # None
  <2> DEFINE held == <<current>> \o ready
  <2>1. current \in Items
    BY <1>2
  <2>a. held \in Seq(Items) /\ held # <<>> /\ current = Head(held) /\ ready = Tail(held)
    <3> HIDE DEF Items
    <3> QED
      BY <2>1
  <2> HIDE DEF held
  <2>2. /\ Cardinality(Inlines(held)) =
             IF IsInline(current) THEN Cardinality(Inlines(ready)) + 1
             ELSE Cardinality(Inlines(ready))
        /\ held[1] = current
        /\ \A j \in Inlines(held) : j # 1 => j - 1 \in Inlines(ready) /\ held[j] = ready[j - 1]
    BY <2>a, InlinesPop, Zenon
  <2>3. inline_pending = Cardinality(Inlines(held))
    BY <1>2, <2>2 DEF Backed, Lent
  <2>4. ASSUME NEW j \in Inlines(held) PROVE backing = held[j].of
    <3>1. CASE j = 1
      BY <1>2, <2>2, <3>1 DEF Backed, Lent, Inlines
    <3>2. CASE j # 1
      BY <2>2, <3>2 DEF Backed
    <3> QED
      BY <3>1, <3>2
  <2>5. Inlines(held) = {} => backing = None
    BY <2>a, <2>3, InlinesFinite, Zenon DEF Backed
  <2> QED
    BY <1>2, <2>3, <2>4, <2>5, Zenon DEF InlineBacked, Inlines, held
<1> QED
  BY <1>1, <1>2

\* Gaps, events and parked messages do not point into a datagram.
LEMMA NoInlines ==
    /\ Inlines(<<>>) = {} /\ Inlines(<<GapItem>>) = {}
    /\ \A k : Inlines(<<EventItem(k)>>) = {} /\ Inlines(<<GapItem>> \o <<EventItem(k)>>) = {}
    /\ \A from, to \in Nat : Inlines(Views(from, to)) = {}
<1>1. ~IsInline(GapItem) /\ \A k : ~IsInline(EventItem(k))
  BY DEF IsInline, GapItem, EventItem
<1>2. \A n : ~IsInline(ViewItem(n))
  BY DEF IsInline, ViewItem
<1>3. \A a, b : /\ DOMAIN <<a>> = 1 .. 1 /\ <<a>>[1] = a
                /\ DOMAIN (<<a>> \o <<b>>) = 1 .. 2
                /\ (<<a>> \o <<b>>)[1] = a /\ (<<a>> \o <<b>>)[2] = b
  OBVIOUS
<1>4. Inlines(<<>>) = {}
  BY DEF Inlines
<1>5. \A a : ~IsInline(a) => Inlines(<<a>>) = {}
  BY <1>3 DEF Inlines
<1>6. \A a, b : ~IsInline(a) /\ ~IsInline(b) => Inlines(<<a>> \o <<b>>) = {}
  BY <1>3 DEF Inlines
<1>7. \A from, to \in Nat : Inlines(Views(from, to)) = {}
  BY <1>2 DEF Inlines, Views
<1> QED
  BY <1>1, <1>4, <1>5, <1>6, <1>7, Zenon

LEMMA NoneCounted == Cardinality({}) = 0
BY FS_EmptySet

\* Nothing points anywhere.
LEMMA NothingBacked ==
    ASSUME Inlines(ready') = {}, current' = None, inline_pending' = 0, backing' = None
    PROVE  Backed'
BY NoneCounted DEF Backed, Lent

\* Before a datagram is decoded nothing points into an earlier one.
LEMMA FreeToDecode ==
    ASSUME InlineInv, Decodable
    PROVE  /\ pc = "pump" /\ current = None /\ backing = None /\ inline_pending = 0
<1>1. pc = "pump" /\ ready = <<>>
  BY DEF Decodable, AtTop
<1>2. current = None /\ Backed
  BY <1>1 DEF InlineInv
<1>3. Inlines(ready) = {}
  BY <1>1, NoInlines
<1> QED
  BY <1>1, <1>2, <1>3, NoneCounted DEF Backed, Lent

LEMMA InlineDecodes ==
    ASSUME Legs = 1, InlineInv, DecodeControl \/ DecodeData
    PROVE  InlineInv'
<1>1. /\ Decodable /\ accept_header /\ UNCHANGED <<current, backing, inline_pending>>
  BY DEF DecodeControl, DecodeData, accept_header
<1>2. /\ current' = None /\ backing' = None /\ inline_pending' = 0
  BY <1>1, FreeToDecode
<1>3. CASE DecodeControl
  <2>1. /\ pc' = "pump"
        /\ ready' = (IF Packet1.sequence > Unseen THEN <<GapItem>> ELSE <<>>)
                        \o <<EventItem(Packet1.kind)>>
    BY <1>3 DEF DecodeControl, AfterDatagram, MultiLeg
  <2>2. <<>> \o <<EventItem(Packet1.kind)>> = <<EventItem(Packet1.kind)>>
    OBVIOUS
  <2>3. Inlines(ready') = {}
    BY <2>1, <2>2, NoInlines, Zenon
  <2>4. Backed'
    BY <1>2, <2>3, NothingBacked
  <2> QED
    BY <1>2, <2>1, <2>4 DEF InlineInv
<1>4. CASE DecodeData
  <2>1. pc' = "block" /\ (ready' = <<>> \/ ready' = <<GapItem>>)
    BY <1>4 DEF DecodeData, MultiLeg
  <2>2. Inlines(ready') = {}
    BY <2>1, NoInlines, Zenon
  <2>3. decoding'.inline = 0
    BY <1>4 DEF DecodeData
  <2> QED
    BY <1>2, <2>1, <2>2, <2>3, NoneCounted DEF InlineInv
<1> QED
  BY <1>3, <1>4

\* The block loop.
LEMMA InlineBlocks ==
    ASSUME Legs = 1, QueueInv, RingInv, FeedInv, InlineInv,
           InOrderBlock \/ EarlyBlock \/ StaleBlock \/ RingFull
    PROVE  InlineInv'
<1>1. /\ AtBlock /\ UNCHANGED <<current, backing, inline_pending>> /\ pc = "block"
  BY DEF InOrderBlock, EarlyBlock, StaleBlock, RingFull, ForwardBlock, AtBlock
<1>2. /\ decoding.seq \in Nat /\ decoding.inline \in Nat /\ decoding.packet \in Packet
  BY <1>1, BlockIs, PacketAssumption
<1>3. /\ current' = None /\ backing' = None /\ inline_pending' = 0
      /\ decoding.inline = Cardinality(Inlines(ready))
      /\ \A i \in Inlines(ready) : ready[i].of = decoding.packet
      /\ decoding.inline > 0 => decoding.seq <= expected_next
  BY <1>1 DEF InlineInv
<1>4. expected_next \in Nat /\ ready \in Seq(Items)
  BY DEF RingInv, RingOK, FeedInv
<1>5. ASSUME NextBlock, UNCHANGED <<ready, pc, expected_next>>, decoding.seq # expected_next
      PROVE  InlineInv'
  <2>1. /\ decoding'.packet = decoding.packet /\ decoding'.seq = decoding.seq + 1
        /\ decoding'.inline = decoding.inline
    <3>1. decoding' = [decoding EXCEPT !.seq = @ + 1, !.inline = decoding.inline]
      BY <1>1, <1>5, NextBlockInline DEF NextBlock
    <3> QED
      BY <1>1, <1>2, <3>1, NextBlockIs, Zenon
  <2>2. decoding'.inline > 0 => decoding'.seq <= expected_next'
    BY <1>2, <1>3, <1>4, <1>5, <2>1
  <2> QED
    BY <1>1, <1>3, <1>5, <2>1, <2>2 DEF InlineInv
<1>6. CASE EarlyBlock
  <2>1. NextBlock /\ UNCHANGED <<ready, pc>> /\ insert(decoding.seq) /\ decoding.seq > expected_next
    BY <1>6 DEF EarlyBlock
  <2>2. expected_next' = expected_next
    BY <1>2, <1>4, <2>1 DEF insert
  <2> QED
    BY <1>2, <1>4, <1>5, <2>1, <2>2
<1>7. CASE StaleBlock
  BY <1>2, <1>4, <1>5, <1>7 DEF StaleBlock, ring
<1>8. CASE RingFull
  <2>1. decoding.seq > expected_next /\ pc' = "idle" /\ ready' = ready
    BY <1>8 DEF RingFull
  <2>2. Cardinality(Inlines(ready)) = 0
    BY <1>2, <1>3, <1>4, <2>1
  <2>3. Inlines(ready') = {}
    BY <1>4, <2>1, <2>2, InlinesFinite
  <2>4. Backed'
    BY <1>3, <2>3, NothingBacked
  <2> QED
    BY <1>3, <2>1, <2>4 DEF InlineInv
<1>9. CASE InOrderBlock
  <2> DEFINE item == InlineItem(decoding.seq, decoding.packet)
  <2>1. PICK to \in (expected_next + 1) .. (expected_next + 1 + Capacity) :
            /\ advance_and_drain(to)
            /\ ready' = ready \o <<item>> \o Views(decoding.seq + 1, to)
    BY <1>9 DEF InOrderBlock
  <2> DEFINE run == Views(decoding.seq + 1, to)
  <2>2. /\ decoding.seq = expected_next /\ expected_next' = to /\ pc' = "block"
        /\ decoding' = [decoding EXCEPT !.seq = @ + 1, !.inline = @ + 1]
    BY <1>1, <1>9, <2>1 DEF InOrderBlock, advance_and_drain, drain
  <2>3. to \in Nat /\ decoding.seq + 1 \in Nat /\ decoding.seq + 1 <= to
    BY <1>4, <2>2, CapacityAssumption
  <2>4. item \in Items /\ IsInline(item) /\ item.of = decoding.packet
    BY <1>2 DEF Items, IsInline, InlineItem
  <2>5. run \in Seq(Items) /\ Free(run)
    BY <1>2, <2>3, HandedOut, NoInlines, Zenon DEF Free
  <2>6. /\ decoding'.packet = decoding.packet /\ decoding'.seq = decoding.seq + 1
        /\ decoding'.inline = decoding.inline + 1
    <3>1. decoding.inline + 1 \in Nat
          /\ decoding' = [decoding EXCEPT !.seq = @ + 1, !.inline = decoding.inline + 1]
      BY <1>2, <2>2
    <3> QED
      BY <1>1, <3>1, NextBlockIs, Zenon
  <2> HIDE DEF item, run
  <2>7. /\ Cardinality(Inlines(ready')) = Cardinality(Inlines(ready)) + 1
        /\ \A i \in Inlines(ready') :
                ready'[i] = item \/ (i \in Inlines(ready) /\ ready'[i] = ready[i])
    <3>1. ready' = ready \o <<item>> \o run
      BY <2>1 DEF run
    <3> DEFINE all == ready \o <<item>> \o run
    <3>2. /\ Cardinality(Inlines(all)) = Cardinality(Inlines(ready)) + 1
          /\ \A i \in Inlines(all) :
                \/ all[i] = item
                \/ i \in Inlines(ready) /\ all[i] = ready[i]
      BY <1>4, <2>4, <2>5, InlinesPush, Zenon
    <3> HIDE DEF all
    <3>3. ready' = all
      BY <3>1 DEF all
    <3> QED
      BY <3>2, <3>3, Zenon
  <2>8. \A i \in Inlines(ready') : ready'[i].of = decoding'.packet
    BY <1>3, <2>4, <2>6, <2>7
  <2>9. decoding'.seq <= expected_next'
    BY <2>2, <2>3, <2>6
  <2> QED
    BY <1>3, <2>2, <2>6, <2>7, <2>8, <2>9 DEF InlineInv
<1> QED
  BY <1>6, <1>7, <1>8, <1>9

\* The datagram is decoded to its end.
LEMMA InlineDone ==
    ASSUME Legs = 1, QueueInv, FeedInv, InlineInv, DatagramDone
    PROVE  InlineInv'
<1>1. /\ pc = "block" /\ pc' = "pump" /\ UNCHANGED <<ready, current>>
      /\ IF decoding.inline > 0
         THEN backing' = decoding.packet /\ inline_pending' = decoding.inline
         ELSE UNCHANGED <<backing, inline_pending>>
  BY DEF DatagramDone, AfterDatagram, MultiLeg
<1>2. /\ current = None /\ backing = None /\ inline_pending = 0
      /\ decoding.inline = Cardinality(Inlines(ready))
      /\ \A i \in Inlines(ready) : ready[i].of = decoding.packet
  BY <1>1 DEF InlineInv
<1>3. ready \in Seq(Items) /\ decoding.inline \in Nat
  BY <1>1, <1>2, InlinesFinite DEF FeedInv
<1>4. CASE decoding.inline > 0
  <2>1. Backed'
    BY <1>1, <1>2, <1>3, <1>4 DEF Backed, Lent
  <2> QED
    BY <1>1, <1>2, <2>1 DEF InlineInv
<1>5. CASE ~(decoding.inline > 0)
  <2>1. Inlines(ready') = {}
    BY <1>1, <1>2, <1>3, <1>5, InlinesFinite
  <2>2. Backed'
    BY <1>1, <1>2, <1>5, <2>1, NothingBacked
  <2> QED
    BY <1>1, <1>2, <2>2 DEF InlineInv
<1> QED
  BY <1>4, <1>5

\* The caller calls again: the item it had is retired.
LEMMA InlineRetires ==
    ASSUME FeedInv, InlineInv, Call
    PROVE  InlineInv'
<1>1. pc = "idle" /\ pc' = "pump" /\ ready' = ready /\ retire_current
  BY DEF Call, EnterPump
<1>2. Backed /\ Cardinality(Inlines(ready)) \in Nat
  BY <1>1, InlinesFinite DEF InlineInv, FeedInv
<1>3. Inlines(ready) = {} <=> Cardinality(Inlines(ready)) = 0
  BY InlinesFinite DEF FeedInv
<1>4. current' = None /\ ~Lent'
  BY <1>1 DEF retire_current, Lent
<1>5. CASE Lent
  <2>1. inline_pending = Cardinality(Inlines(ready)) + 1
    BY <1>2, <1>5 DEF Backed
  <2>2. /\ inline_pending' = inline_pending - 1
        /\ backing' = IF inline_pending = 1 THEN None ELSE backing
    BY <1>1, <1>5 DEF retire_current, release_inline, Lent
  <2>3. inline_pending' = Cardinality(Inlines(ready))
    BY <1>2, <2>1, <2>2
  <2>4. \A i \in Inlines(ready) : ready[i].of = backing'
    BY <1>2, <1>3, <2>1, <2>2 DEF Backed
  <2>5. inline_pending' = 0 => backing' = None
    BY <1>2, <2>1, <2>2
  <2>6. Backed'
    BY <1>1, <1>4, <2>3, <2>4, <2>5 DEF Backed
  <2> QED
    BY <1>1, <1>4, <2>6 DEF InlineInv
<1>6. CASE ~Lent
  <2>1. UNCHANGED <<backing, inline_pending>>
    BY <1>1, <1>6 DEF retire_current, Lent
  <2>2. Backed'
    BY <1>1, <1>2, <1>4, <1>6, <2>1 DEF Backed
  <2> QED
    BY <1>1, <1>4, <2>2 DEF InlineInv
<1> QED
  BY <1>5, <1>6

\* The first ready item is handed out, lent or for good.
LEMMA InlineYields ==
    ASSUME FeedInv, InlineInv, yield_item \/ yield_owned
    PROVE  InlineInv'
<1> DEFINE item == Head(ready)
           rest == Tail(ready)
<1>1. /\ pc = "pump" /\ pc' = "idle" /\ ready # <<>> /\ ready' = rest /\ ready \in Seq(Items)
      /\ Yield
  BY DEF yield_item, yield_owned, Yield, AtTop, FeedInv
<1>2. current = None /\ Backed /\ ~Lent
  BY <1>1 DEF InlineInv, Lent
<1>3. rest \in Seq(Items) /\ item \in Items
  <2> HIDE DEF Items
  <2> QED
    BY <1>1
<1>4. /\ Cardinality(Inlines(ready)) = IF IsInline(item) THEN Cardinality(Inlines(rest)) + 1
                                       ELSE Cardinality(Inlines(rest))
      /\ \A i \in Inlines(rest) : i + 1 \in Inlines(ready) /\ ready[i + 1] = rest[i]
      /\ ready[1] = item /\ (IsInline(item) => 1 \in Inlines(ready))
  BY <1>1, InlinesPop, Zenon
<1>5. Cardinality(Inlines(rest)) \in Nat /\ (Inlines(rest) = {} <=> Cardinality(Inlines(rest)) = 0)
  BY <1>3, InlinesFinite, Zenon
<1>6. IsInline(item) => item # None
  <2>1. ASSUME IsInline(item) PROVE item \in [type : {"Inline"}, sequence : Nat, of : Packet]
    BY <1>3, <2>1 DEF Items, IsInline, GapItem, EventItem, ViewItem, InlineItem
  <2> QED
    BY <2>1, PacketAssumption, Zenon
<1> HIDE DEF item, rest
<1>7. /\ inline_pending = Cardinality(Inlines(ready))
      /\ \A i \in Inlines(ready) : ready[i].of = backing
      /\ inline_pending = 0 => backing = None
  BY <1>2 DEF Backed
<1>8. \A i \in Inlines(rest) : rest[i].of = backing
  BY <1>4, <1>7, Zenon
<1>9. IsInline(item) => item.of = backing
  BY <1>4, <1>7, Zenon
<1>10. CASE yield_item
  <2>1. current' = item /\ UNCHANGED <<backing, inline_pending>>
    BY <1>10 DEF yield_item, item
  <2>2. Lent' <=> IsInline(item)
    BY <1>6, <2>1 DEF Lent
  <2>3. Backed'
    BY <1>1, <1>4, <1>7, <1>8, <1>9, <2>1, <2>2, Zenon DEF Backed
  <2> QED
    BY <1>1, <1>3, <2>1, <2>3 DEF InlineInv
<1>11. CASE yield_owned
  <2>1. /\ current' = None /\ ~Lent'
        /\ IF IsInline(item) THEN release_inline ELSE UNCHANGED <<backing, inline_pending>>
    BY <1>2, <1>11 DEF yield_owned, item, Lent
  <2>2. inline_pending' = Cardinality(Inlines(rest))
    BY <1>4, <1>5, <1>7, <2>1 DEF release_inline
  <2>3. inline_pending' = 0 => backing' = None
    BY <1>4, <1>5, <1>7, <2>1, <2>2 DEF release_inline
  <2>4. \A i \in Inlines(rest) : rest[i].of = backing'
    BY <1>4, <1>5, <1>7, <1>8, <2>1 DEF release_inline
  <2>5. Backed'
    BY <1>1, <2>1, <2>2, <2>3, <2>4 DEF Backed
  <2> QED
    BY <1>1, <2>1, <2>5 DEF InlineInv
<1> QED
  BY <1>10, <1>11

LEMMA InlineStep ==
    ASSUME Legs = 1, QueueInv, RingInv, FeedInv, InlineInv, [Next]_vars
    PROVE  InlineInv'
<1>1. ASSUME UNCHANGED items, pc # "block", pc' \notin {"block", "confirm"},
             pc = "idle" => pc' = "idle"
      PROVE  InlineInv'
  BY <1>1 DEF InlineInv, Backed, Lent, items
<1>2. CASE UNCHANGED vars
  BY <1>2 DEF vars, InlineInv, Backed, Lent
<1>3. CASE \/ SendDue \/ NothingLanded \/ WaitReady \/ CancelRecv \/ Tick
  <2>1. /\ UNCHANGED items /\ pc # "block" /\ pc' \notin {"block", "confirm"}
        /\ pc = "idle" => pc' = "idle"
    BY <1>3 DEF SendDue, NothingLanded, WaitReady, CancelRecv, Tick, EnterPump, AtTop
  <2> QED
    BY <1>1, <2>1
<1>4. CASE \/ \E bursts \in [1 .. Legs -> Bursts(Datagrams)], answer \in Answers :
                    PollSources(bursts, answer)
           \/ \E bursts \in [1 .. Legs -> Bursts(Datagrams)], upto \in 0 .. Legs :
                    SourceFails(bursts, upto)
           \/ RejectDatagram
  <2>1. UNCHANGED items /\ pc = "pump" /\ pc' \in {"pump", "idle"}
    BY <1>4, Zenon DEF PollSources, SourceFails, RejectDatagram, Decodable, AtTop
  <2> QED
    BY <1>1, <2>1
<1>5. CASE DecodeTruncated
  <2>1. UNCHANGED items /\ pc = "pump" /\ pc' = "idle"
    BY <1>5 DEF DecodeTruncated, accept_header, Decodable, AtTop
  <2> QED
    BY <1>1, <2>1
<1>6. CASE DropBlock \/ ConfirmGap
  BY <1>6 DEF DropBlock, Verdict, MultiLeg, ConfirmGap, InlineInv
<1> QED
  BY <1>2, <1>3, <1>4, <1>5, <1>6, InlineRetires, InlineDecodes, InlineBlocks, InlineDone,
     InlineYields DEF Next

\* mod.rs: "outstanding `Inline` items; `backing` resets (slab reclaimed) at zero".  On one
\* leg it is so whatever the calls, errors, refusals and items handed out in between:
\* release_inline neither lets the datagram go under an item that points into it nor keeps
\* it without one.
THEOREM OneLegInlineBacked == Legs = 1 => (Spec => []InlineBacked)
<1> SUFFICES ASSUME Legs = 1 PROVE Spec => []InlineBacked
  OBVIOUS
<1>1. Init => ReceiverInv /\ InlineInv
  <2> SUFFICES ASSUME Init PROVE ReceiverInv /\ InlineInv
    OBVIOUS
  <2>1. /\ ready = <<>> /\ current = None /\ backing = None /\ inline_pending = 0 /\ pc = "idle"
    BY DEF Init
  <2>2. Inlines(ready) = {}
    BY <2>1, NoInlines
  <2>3. Backed
    BY <2>1, <2>2, NoneCounted DEF Backed, Lent
  <2> QED
    BY <2>1, <2>3, FeedInit DEF InlineInv
<1>2. ReceiverInv /\ InlineInv /\ [Next]_vars => (ReceiverInv /\ InlineInv)'
  BY ReceiverRing, FeedStep, InlineStep DEF ReceiverInv
<1>3. ReceiverInv /\ InlineInv => InlineBacked
  BY BackedIsInlineBacked DEF ReceiverInv, FeedInv, InlineInv
<1> QED
  BY <1>1, <1>2, <1>3, PTL DEF Spec

=============================================================================
