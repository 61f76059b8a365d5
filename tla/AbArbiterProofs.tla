---------------------------- MODULE AbArbiterProofs ----------------------------
(***************************************************************************)
(* The arbiter's operators, for every window capacity and confirm window:  *)
(* each keeps the account of what was let through, what is staged and what *)
(* is missing.  What the parts of one datagram's handling do is stated on  *)
(* the values they pass on, so that a step of a caller is their            *)
(* composition.                                                            *)
(***************************************************************************)
EXTENDS AbArbiter, TLAPS

----------------------------------------------------------------------------
(* Facts about remainders, which the provers do not know for a variable modulus. *)

LEMMA DivMod ==
    ASSUME NEW c \in Nat \ {0}, NEW a \in Nat
    PROVE  a \div c \in Int /\ a % c \in 0 .. (c - 1) /\ a = c * (a \div c) + (a % c)
OBVIOUS

\* The only multiple of c in 0..c-1.
LEMMA SmallMultiple ==
    ASSUME NEW c \in Nat \ {0}, NEW k \in Int, 0 <= c * k, c * k < c
    PROVE  k = 0
<1>1. CASE k >= 1
  <2>1. c * k >= c
    BY <1>1
  <2> QED
    BY <2>1
<1>2. CASE k <= -1
  <2>1. c * k < 0
    BY <1>2
  <2> QED
    BY <2>1
<1> QED
  BY <1>1, <1>2

\* Two numbers less than c apart have different remainders.
LEMMA SameRemainder ==
    ASSUME NEW c \in Nat \ {0}, NEW a \in Nat, NEW b \in Nat,
           a % c = b % c, a <= b, b < a + c
    PROVE  a = b
<1> DEFINE k == (b \div c) - (a \div c)
<1>0. /\ a \div c \in Int /\ a = c * (a \div c) + (a % c)
      /\ b \div c \in Int /\ b = c * (b \div c) + (b % c)
  BY DivMod
<1>1. b - a = c * (b \div c) - c * (a \div c)
  BY <1>0
<1>2. k \in Int /\ b - a = c * k
  BY <1>0, <1>1
<1>3. 0 <= c * k /\ c * k < c
  BY <1>2
<1>4. k = 0
  BY <1>2, <1>3, SmallMultiple
<1> QED
  BY <1>2, <1>4

LEMMA ShiftedRemainder ==
    ASSUME NEW c \in Nat \ {0}, NEW a \in Nat, NEW b \in Nat, NEW k \in Int, b = a + c * k
    PROVE  b % c = a % c
<1> DEFINE m == (b \div c) - (a \div c) - k
           r == (a % c) - (b % c)
<1>1. r = c * (b \div c) - c * (a \div c) - c * k
  BY DivMod
<1>2. m \in Int /\ r = c * m
  BY <1>1, DivMod
<1>3. -c < r /\ r < c
  BY DivMod
<1>4. m = 0
  <2>1. CASE 0 <= r
    BY <2>1, <1>2, <1>3, SmallMultiple
  <2>2. CASE r < 0
    <3>1. -m \in Int /\ c * (-m) = -r
      BY <1>2
    <3>2. 0 <= c * (-m) /\ c * (-m) < c
      BY <3>1, <2>2, <1>3, <1>2
    <3>3. -m = 0
      BY <3>1, <3>2, SmallMultiple
    <3> QED
      BY <3>3, <1>2
  <2> QED
    BY <2>1, <2>2, <1>2
<1>5. r = 0
  <2> HIDE DEF r, m
  <2> QED
    BY <1>2, <1>4
<1>6. a % c \in Int /\ b % c \in Int
  BY DivMod
<1> QED
  BY <1>5, <1>6

\* Every remainder occurs among c numbers in a row.
LEMMA RemainderInRow ==
    ASSUME NEW c \in Nat \ {0}, NEW a \in Nat, NEW b \in Nat, a <= b
    PROVE  \E p \in Nat : a <= p /\ p < a + c /\ p <= b /\ p % c = b % c
<1> DEFINE p == a + ((b - a) % c)
           k == (b - a) \div c
<1>1. p \in Nat /\ a <= p /\ p < a + c /\ p <= b
  OBVIOUS
<1>2. b - a \in Nat
  OBVIOUS
<1>3. k \in Int /\ b - a = c * k + ((b - a) % c)
  BY <1>2, DivMod
<1>4. b = p + c * k
  BY <1>1, <1>3
<1>5. b % c = p % c
  BY <1>1, <1>3, <1>4, ShiftedRemainder
<1> QED
  BY <1>1, <1>5

----------------------------------------------------------------------------
(* The arbiter's state. *)

Staging == UNION {[S -> Nat] : S \in SUBSET Nat}

ArbiterOK(arb) ==
    arb \in [window_base : Nat, window_bits : [0 .. (Capacity - 1) -> BOOLEAN],
             pending_gap_confirms : Staging]

Staged(arb) == DOMAIN arb.pending_gap_confirms

\* Inside the window a bit is set exactly for the sequences let through.
BitsExact(arb, won) ==
    \A q \in Nat : arb.window_base <= q /\ q < arb.window_base + Capacity =>
        (arb.window_bits[idx(q)] <=> q \in won)

\* The inductive invariant on the values a datagram's handling passes along: the
\* first sequence accounted for, the arbiter, one past the highest sequence seen, the
\* tracked gaps and the sequences let through.
Sound(first, arb, unseen, lost, won) ==
    /\ ArbiterOK(arb) /\ unseen \in Nat /\ lost \subseteq Nat /\ won \subseteq Nat
    /\ arb.window_base <= unseen
    /\ BitsExact(arb, won)
    /\ \A q \in won : q < unseen /\ q < arb.window_base + Capacity
    /\ \A q \in Staged(arb) \cup lost : q < unseen
    /\ won \cap (Staged(arb) \cup lost) = {}
    /\ \A q \in first .. (unseen - 1) : q \in won \cup Staged(arb) \cup lost
    /\ \A q \in Staged(arb) \cap lost : q < arb.window_base

----------------------------------------------------------------------------
(* The arbiter's operators, field by field. *)

LEMMA StagingIs ==
    ASSUME NEW p
    PROVE  p \in Staging <=> DOMAIN p \subseteq Nat /\ p \in [DOMAIN p -> Nat]
BY Zenon DEF Staging

LEMMA IdxInWindow ==
    ASSUME NEW q \in Nat
    PROVE  idx(q) \in 0 .. (Capacity - 1)
BY WindowAssumption DEF idx

LEMMA IdxDistinct ==
    ASSUME NEW p \in Nat, NEW q \in Nat, p <= q, q < p + Capacity, idx(p) = idx(q)
    PROVE  p = q
BY WindowAssumption, SameRemainder, Zenon DEF idx

LEMMA IdxInRow ==
    ASSUME NEW base \in Nat, NEW q \in Nat, base <= q
    PROVE  \E p \in Nat : base <= p /\ p < base + Capacity /\ p <= q /\ idx(p) = idx(q)
BY WindowAssumption, RemainderInRow, Zenon DEF idx

LEMMA StagedType ==
    ASSUME NEW p \in Staging, NEW S, S \subseteq Nat
    PROVE  /\ staged(p, S) \in Staging
           /\ DOMAIN staged(p, S) = DOMAIN p \cup S
           /\ \A q \in DOMAIN staged(p, S) :
                staged(p, S)[q] = IF q \in DOMAIN p THEN p[q] ELSE 0
<1>1. DOMAIN p \subseteq Nat /\ p \in [DOMAIN p -> Nat]
  BY StagingIs
<1>2. /\ DOMAIN staged(p, S) = DOMAIN p \cup S
      /\ \A q \in DOMAIN p \cup S : staged(p, S)[q] = IF q \in DOMAIN p THEN p[q] ELSE 0
  BY DEF staged
<1>3. staged(p, S) \in [DOMAIN p \cup S -> Nat]
  BY <1>1 DEF staged
<1> QED
  BY <1>1, <1>2, <1>3, StagingIs

LEMMA UnstagedType ==
    ASSUME NEW p \in Staging, NEW S
    PROVE  /\ unstaged(p, S) \in Staging
           /\ DOMAIN unstaged(p, S) = DOMAIN p \ S
           /\ \A q \in DOMAIN unstaged(p, S) : unstaged(p, S)[q] = p[q]
<1>1. DOMAIN p \subseteq Nat /\ p \in [DOMAIN p -> Nat]
  BY StagingIs
<1>2. /\ DOMAIN unstaged(p, S) = DOMAIN p \ S
      /\ \A q \in DOMAIN p \ S : unstaged(p, S)[q] = p[q]
  BY DEF unstaged
<1>3. unstaged(p, S) \in [DOMAIN p \ S -> Nat]
  BY <1>1 DEF unstaged
<1> QED
  BY <1>1, <1>2, <1>3, StagingIs

\* An arbiter whose candidates alone changed.
LEMMA RestagedIs ==
    ASSUME NEW arb, ArbiterOK(arb), NEW p \in Staging
    PROVE  LET new_arb == [arb EXCEPT !.pending_gap_confirms = p]
           IN  /\ ArbiterOK(new_arb)
               /\ new_arb.window_base = arb.window_base
               /\ new_arb.window_bits = arb.window_bits
               /\ new_arb.pending_gap_confirms = p
BY DEF ArbiterOK

\* Putting sequences among the candidates.
LEMMA StageIs ==
    ASSUME NEW arb, ArbiterOK(arb), NEW S, S \subseteq Nat, NEW new_arb,
           new_arb = [arb EXCEPT !.pending_gap_confirms = staged(@, S)]
    PROVE  /\ ArbiterOK(new_arb)
           /\ new_arb.window_base = arb.window_base
           /\ new_arb.window_bits = arb.window_bits
           /\ Staged(new_arb) = Staged(arb) \cup S
           /\ \A q \in Staged(new_arb) : new_arb.pending_gap_confirms[q] =
                IF q \in Staged(arb) THEN arb.pending_gap_confirms[q] ELSE 0
<1> DEFINE pending == arb.pending_gap_confirms
           p == staged(pending, S)
<1>1. pending \in Staging
  BY DEF ArbiterOK
<1>2. /\ p \in Staging /\ DOMAIN p = DOMAIN pending \cup S
      /\ \A q \in DOMAIN p : p[q] = IF q \in DOMAIN pending THEN pending[q] ELSE 0
  BY <1>1, StagedType, Zenon
<1> HIDE DEF p
<1>3. /\ ArbiterOK(new_arb) /\ new_arb.pending_gap_confirms = p
      /\ new_arb.window_base = arb.window_base /\ new_arb.window_bits = arb.window_bits
  BY <1>2, RestagedIs DEF p
<1> QED
  BY <1>2, <1>3 DEF Staged, p

\* Taking sequences off the candidates.
LEMMA UnstageIs ==
    ASSUME NEW arb, ArbiterOK(arb), NEW S, NEW new_arb,
           new_arb = [arb EXCEPT !.pending_gap_confirms = unstaged(@, S)]
    PROVE  /\ ArbiterOK(new_arb)
           /\ new_arb.window_base = arb.window_base
           /\ new_arb.window_bits = arb.window_bits
           /\ Staged(new_arb) = Staged(arb) \ S
           /\ \A q \in Staged(new_arb) :
                new_arb.pending_gap_confirms[q] = arb.pending_gap_confirms[q]
<1> DEFINE pending == arb.pending_gap_confirms
           p == unstaged(pending, S)
<1>1. pending \in Staging
  BY DEF ArbiterOK
<1>2. /\ p \in Staging /\ DOMAIN p = DOMAIN pending \ S
      /\ \A q \in DOMAIN p : p[q] = pending[q]
  BY <1>1, UnstagedType, Zenon
<1> HIDE DEF p
<1>3. /\ ArbiterOK(new_arb) /\ new_arb.pending_gap_confirms = p
      /\ new_arb.window_base = arb.window_base /\ new_arb.window_bits = arb.window_bits
  BY <1>2, RestagedIs DEF p
<1> QED
  BY <1>2, <1>3 DEF Staged, p

\* What the window leaves behind when it moves up to end with seq, the part of it
\* that was never delivered, and the bits that stay set.
LeftBehind(arb, seq) == arb.window_base .. ((seq - Capacity + 1) - 1)
NotDelivered(arb, seq) == {q \in LeftBehind(arb, seq) : ~Delivered(arb, q)}
BitsKept(arb, seq) ==
    [i \in 0 .. (Capacity - 1) |->
        arb.window_bits[i] /\ \A p \in LeftBehind(arb, seq) : idx(p) # i]

\* The window moved up to end with seq: what is evicted is forgotten or staged.
LEMMA SlidIs ==
    ASSUME NEW arb, ArbiterOK(arb), NEW seq \in Nat, seq >= arb.window_base + Capacity
    PROVE  /\ ArbiterOK(slid(arb, seq))
           /\ slid(arb, seq).window_base = seq - Capacity + 1
           /\ slid(arb, seq).window_bits = BitsKept(arb, seq)
           /\ Staged(slid(arb, seq)) = Staged(arb) \cup NotDelivered(arb, seq)
           /\ \A q \in Staged(slid(arb, seq)) : slid(arb, seq).pending_gap_confirms[q] =
                IF q \in Staged(arb) THEN arb.pending_gap_confirms[q] ELSE 0
<1> DEFINE new_arb == slid(arb, seq)
           evicted == arb.window_base .. ((seq - Capacity + 1) - 1)
           fresh == {q \in evicted : ~Delivered(arb, q)}
           pending == arb.pending_gap_confirms
           p == staged(pending, fresh)
           bits == [i \in 0 .. (Capacity - 1) |->
                        arb.window_bits[i] /\ \A e \in evicted : idx(e) # i]
<1>1. seq - Capacity + 1 \in Nat /\ arb.window_base \in Nat
  BY WindowAssumption DEF ArbiterOK
<1>2. new_arb = [window_base |-> seq - Capacity + 1, window_bits |-> bits,
                 pending_gap_confirms |-> p]
  BY DEF slid
<1>3. fresh \subseteq Nat /\ pending \in Staging
  BY <1>1 DEF ArbiterOK
<1>4. bits \in [0 .. (Capacity - 1) -> BOOLEAN]
  OBVIOUS
<1> HIDE DEF fresh, bits, new_arb
<1>5. /\ p \in Staging
      /\ DOMAIN p = DOMAIN pending \cup fresh
      /\ \A q \in DOMAIN p : p[q] = IF q \in DOMAIN pending THEN pending[q] ELSE 0
  BY <1>3, StagedType, Zenon
<1> HIDE DEF p
<1>6. ArbiterOK(new_arb)
  BY <1>1, <1>2, <1>4, <1>5 DEF ArbiterOK
<1>7. /\ new_arb.window_base = seq - Capacity + 1 /\ new_arb.window_bits = bits
      /\ new_arb.pending_gap_confirms = p
  BY <1>2
<1>8. bits = BitsKept(arb, seq) /\ fresh = NotDelivered(arb, seq)
  BY DEF bits, fresh, BitsKept, NotDelivered, LeftBehind
<1> QED
  BY <1>5, <1>6, <1>7, <1>8 DEF Staged, new_arb

\* The first copy of a sequence inside the window.
LEMMA DeliveringIs ==
    ASSUME NEW arb, ArbiterOK(arb), NEW seq \in Nat
    PROVE  LET new_arb == delivering(arb, seq)
           IN  /\ ArbiterOK(new_arb)
               /\ new_arb.window_base = arb.window_base
               /\ new_arb.window_bits = [arb.window_bits EXCEPT ![idx(seq)] = TRUE]
               /\ Staged(new_arb) = Staged(arb) \ {seq}
               /\ \A q \in Staged(new_arb) :
                    new_arb.pending_gap_confirms[q] = arb.pending_gap_confirms[q]
<1> DEFINE bits == [arb.window_bits EXCEPT ![idx(seq)] = TRUE]
           marked == [arb EXCEPT !.window_bits = bits]
           new_arb == delivering(arb, seq)
<1>1. bits \in [0 .. (Capacity - 1) -> BOOLEAN]
  BY IdxInWindow DEF ArbiterOK
<1> HIDE DEF bits
<1>2. /\ ArbiterOK(marked) /\ marked.window_base = arb.window_base /\ marked.window_bits = bits
      /\ marked.pending_gap_confirms = arb.pending_gap_confirms
  BY <1>1 DEF ArbiterOK
<1>3. new_arb = [marked EXCEPT !.pending_gap_confirms = unstaged(@, {seq})]
  BY DEF delivering, bits, ArbiterOK
<1> HIDE DEF marked, new_arb
<1>4. /\ ArbiterOK(new_arb)
      /\ new_arb.window_base = marked.window_base
      /\ new_arb.window_bits = marked.window_bits
      /\ Staged(new_arb) = Staged(marked) \ {seq}
      /\ \A q \in Staged(new_arb) :
            new_arb.pending_gap_confirms[q] = marked.pending_gap_confirms[q]
  BY <1>2, <1>3, UnstageIs
<1> QED
  BY <1>2, <1>4 DEF Staged, bits, new_arb

----------------------------------------------------------------------------
(* Each part of a datagram's handling keeps the values sound. *)

LEMMA DeliveredIs ==
    ASSUME NEW first \in Nat, NEW arb, NEW unseen, NEW lost, NEW won,
           Sound(first, arb, unseen, lost, won), NEW q \in Nat
    PROVE  Delivered(arb, q) <=>
             arb.window_base <= q /\ q < arb.window_base + Capacity /\ q \in won
BY DEF Sound, BitsExact, Delivered

\* Staging a jump from the highest sequence seen up to seq.
LEMMA NoteSound ==
    ASSUME NEW first \in Nat, NEW arb, NEW unseen, NEW lost, NEW won,
           Sound(first, arb, unseen, lost, won),
           NEW seq \in Nat, seq > unseen
    PROVE  Sound(first, note_missing_range(arb, unseen, seq), seq, lost, won)
<1>1. /\ ArbiterOK(arb) /\ unseen \in Nat /\ arb.window_base \in Nat
      /\ lost \subseteq Nat /\ won \subseteq Nat
  BY DEF Sound, ArbiterOK
<1> DEFINE noted == note_missing_range(arb, unseen, seq)
           jump == unseen .. (seq - 1)
<1>2. {q \in unseen .. (seq - 1) : ~Delivered(arb, q)} = jump
  <2>1. \A q \in unseen .. (seq - 1) : q \in Nat /\ q \notin won
    BY <1>1 DEF Sound
  <2> QED
    BY <2>1, DeliveredIs
<1>3. noted = [arb EXCEPT !.pending_gap_confirms = staged(@, jump)]
  BY <1>2, Zenon DEF note_missing_range
<1>0. jump \subseteq Nat
  BY <1>1
<1> HIDE DEF noted, jump
<1>4. /\ ArbiterOK(noted)
      /\ noted.window_base = arb.window_base
      /\ noted.window_bits = arb.window_bits
      /\ Staged(noted) = Staged(arb) \cup jump
  BY <1>1, <1>3, <1>0, StageIs
<1>5. BitsExact(noted, won)
  BY <1>4 DEF Sound, BitsExact
<1>6. Staged(arb) \subseteq Nat
  BY <1>1, StagingIs DEF ArbiterOK, Staged
<1>7. /\ \A q \in Staged(noted) \cup lost : q < seq
      /\ won \cap (Staged(noted) \cup lost) = {}
      /\ \A q \in first .. (seq - 1) : q \in won \cup Staged(noted) \cup lost
      /\ \A q \in Staged(noted) \cap lost : q < arb.window_base
  <2>1. /\ \A q \in Staged(arb) \cup lost : q < unseen
        /\ won \cap (Staged(arb) \cup lost) = {}
        /\ \A q \in first .. (unseen - 1) : q \in won \cup Staged(arb) \cup lost
        /\ \A q \in Staged(arb) \cap lost : q < arb.window_base
        /\ \A q \in won : q < unseen
    BY DEF Sound
  <2>2. \A q \in Staged(noted) \cup lost : q < seq
    <3>1. ASSUME NEW q \in Staged(arb) \cup lost PROVE q < seq
      <4>1. q \in Nat /\ q < unseen
        BY <2>1, <1>1, <1>6, Zenon
      <4> QED
        BY <4>1, <1>1
    <3>2. \A q \in jump : q < seq
      BY <1>1 DEF jump
    <3> QED
      BY <3>1, <3>2, <1>4
  <2>3. \A q \in won : q \notin Staged(noted) /\ q \notin lost
    BY <2>1, <1>1, <1>4 DEF jump
  <2>4. \A q \in first .. (seq - 1) : q \in won \cup Staged(noted) \cup lost
    BY <2>1, <1>1, <1>4 DEF jump
  <2>5. \A q \in Staged(noted) \cap lost : q < arb.window_base
    BY <2>1, <1>1, <1>4 DEF jump
  <2> QED
    BY <2>2, <2>3, <2>4, <2>5
<1>8. Sound(first, noted, seq, lost, won)
  BY <1>1, <1>4, <1>5, <1>7 DEF Sound
<1> QED
  BY <1>8 DEF noted

\* A slide that brings seq into the window.
LEMMA SlideSound ==
    ASSUME NEW first \in Nat, NEW arb, NEW unseen, NEW lost, NEW won,
           Sound(first, arb, unseen, lost, won),
           NEW seq \in Nat, seq <= unseen, seq >= arb.window_base + Capacity
    PROVE  /\ Sound(first, slid(arb, seq), unseen, lost, won)
           /\ slid(arb, seq).window_base = seq - Capacity + 1
<1> DEFINE new_arb == slid(arb, seq)
           base == arb.window_base
           target == seq - Capacity + 1
           evicted == base .. (target - 1)
           fresh == {q \in evicted : ~Delivered(arb, q)}
<1>1. /\ ArbiterOK(arb) /\ unseen \in Nat /\ base \in Nat /\ won \subseteq Nat /\ lost \subseteq Nat
      /\ target \in Nat /\ base < target /\ target <= unseen /\ Capacity \in Nat \ {0}
  BY WindowAssumption DEF Sound, ArbiterOK
<1>2. /\ ArbiterOK(new_arb)
      /\ new_arb.window_base = target
      /\ new_arb.window_bits = [i \in 0 .. (Capacity - 1) |->
                arb.window_bits[i] /\ \A p \in evicted : idx(p) # i]
      /\ Staged(new_arb) = Staged(arb) \cup fresh
  <2>1. ArbiterOK(arb) /\ seq >= arb.window_base + Capacity
    BY <1>1
  <2>2. /\ ArbiterOK(new_arb) /\ new_arb.window_base = target
        /\ new_arb.window_bits = BitsKept(arb, seq)
        /\ Staged(new_arb) = Staged(arb) \cup NotDelivered(arb, seq)
    BY <2>1, SlidIs, Zenon
  <2>3. LeftBehind(arb, seq) = evicted
    BY DEF LeftBehind
  <2>4. NotDelivered(arb, seq) = fresh
    BY <2>3 DEF NotDelivered
  <2>5. BitsKept(arb, seq) = [i \in 0 .. (Capacity - 1) |->
                arb.window_bits[i] /\ \A p \in evicted : idx(p) # i]
    BY <2>3 DEF BitsKept
  <2> QED
    BY <2>2, <2>4, <2>5, Zenon
<1> HIDE DEF new_arb
<1>3. ASSUME NEW q \in Nat, target <= q, q < target + Capacity
      PROVE  new_arb.window_bits[idx(q)] <=> q \in won
  <2>1. idx(q) \in 0 .. (Capacity - 1)
    BY IdxInWindow
  <2>2. new_arb.window_bits[idx(q)] <=>
            arb.window_bits[idx(q)] /\ \A p \in evicted : idx(p) # idx(q)
    BY <1>2, <2>1, Zenon
  <2>3. CASE q < base + Capacity
    <3>1. ASSUME NEW p \in evicted, idx(p) = idx(q) PROVE FALSE
      <4>1. p \in Nat /\ p < q /\ q < p + Capacity
        BY <1>1, <1>3, <2>3
      <4> QED
        BY <4>1, <3>1, IdxDistinct
    <3>2. arb.window_bits[idx(q)] <=> q \in won
      BY <1>1, <1>3, <2>3 DEF Sound, BitsExact
    <3> QED
      BY <2>2, <3>1, <3>2
  <2>4. CASE q >= base + Capacity
    <3>1. q \notin won
      BY <2>4, <1>1 DEF Sound
    <3>0. base <= q
      BY <2>4, <1>1
    <3>2. PICK p \in Nat : base <= p /\ p < base + Capacity /\ p <= q /\ idx(p) = idx(q)
      BY <1>1, <3>0, IdxInRow, Zenon
    <3>3. p # q /\ p < target
      <4>1. CASE p >= target
        <5>1. p = q
          <6>1. q < p + Capacity
            BY <1>1, <1>3, <4>1
          <6> QED
            BY <6>1, <3>2, IdxDistinct
        <5> QED
          BY <5>1, <2>4, <3>2, <1>1
      <4> QED
        BY <4>1, <1>1, <1>3, <3>2
    <3>4. p \in evicted /\ idx(p) = idx(q)
      BY <3>2, <3>3, <1>1
    <3> QED
      BY <2>2, <3>1, <3>4
  <2> QED
    BY <2>3, <2>4, <1>1
<1>4. BitsExact(new_arb, won)
  BY <1>2, <1>3 DEF BitsExact
<1>5. \A q \in evicted : q \in fresh \/ q \in won
  BY <1>1, DeliveredIs
<1>6. fresh \cap won = {}
  <2>1. \A q \in evicted : q \in Nat /\ base <= q
    BY <1>1
  <2>2. ASSUME NEW q \in evicted, q \in won PROVE Delivered(arb, q)
    <3>1. CASE q < base + Capacity
      BY <3>1, <2>1, <2>2, DeliveredIs
    <3>2. CASE q >= base + Capacity
      BY <3>2, <2>1, <2>2, <1>1 DEF Sound
    <3> QED
      BY <3>1, <3>2, <2>1, <1>1
  <2> QED
    BY <2>2
<1>7. \A q \in fresh : q \in Nat /\ q < target
  BY <1>1
<1> HIDE DEF fresh, evicted
<1>8. \A q \in won : q < unseen /\ q < target + Capacity
  BY <1>1 DEF Sound
<1> HIDE DEF target, base
<1>9. Sound(first, new_arb, unseen, lost, won)
  <2>1. \A q \in Staged(new_arb) \cup lost : q < unseen
    BY <1>1, <1>2, <1>7 DEF Sound
  <2>2. won \cap (Staged(new_arb) \cup lost) = {}
    BY <1>2, <1>6 DEF Sound
  <2>3. \A q \in first .. (unseen - 1) : q \in won \cup Staged(new_arb) \cup lost
    BY <1>2 DEF Sound
  <2>4. \A q \in Staged(new_arb) \cap lost : q < target
    <3>1. Staged(arb) \subseteq Nat /\ \A q \in Staged(arb) \cap lost : q < base
      BY <1>1, StagingIs DEF Sound, base, ArbiterOK, Staged
    <3> QED
      BY <1>1, <1>2, <1>7, <3>1
  <2> QED
    BY <1>1, <1>2, <1>4, <1>8, <2>1, <2>2, <2>3, <2>4 DEF Sound
<1> QED
  BY <1>2, <1>9 DEF new_arb, target

\* The first copy of a sequence the window covers.
LEMMA DeliverSound ==
    ASSUME NEW first \in Nat, NEW arb, NEW unseen, NEW lost, NEW won,
           Sound(first, arb, unseen, lost, won),
           NEW seq \in Nat, arb.window_base <= seq, seq < arb.window_base + Capacity,
           seq <= unseen, NEW next, next = IF seq >= unseen THEN seq + 1 ELSE unseen
    PROVE  Sound(first, delivering(arb, seq), next, lost \ {seq}, won \cup {seq})
<1> DEFINE new_arb == delivering(arb, seq)
           base == arb.window_base
           bits == arb.window_bits
<1>1. /\ ArbiterOK(arb) /\ unseen \in Nat /\ base \in Nat /\ won \subseteq Nat /\ lost \subseteq Nat
      /\ Capacity \in Nat \ {0} /\ bits \in [0 .. (Capacity - 1) -> BOOLEAN]
  BY WindowAssumption DEF Sound, ArbiterOK
<1>2. /\ ArbiterOK(new_arb)
      /\ new_arb.window_base = base
      /\ new_arb.window_bits = [bits EXCEPT ![idx(seq)] = TRUE]
      /\ Staged(new_arb) = Staged(arb) \ {seq}
  BY <1>1, DeliveringIs, Zenon
<1> HIDE DEF new_arb
<1>3. ASSUME NEW q \in Nat, base <= q, q < base + Capacity
      PROVE  new_arb.window_bits[idx(q)] <=> q \in won \cup {seq}
  <2>1. idx(q) \in 0 .. (Capacity - 1) /\ idx(seq) \in 0 .. (Capacity - 1)
    BY IdxInWindow
  <2>2. idx(q) = idx(seq) => q = seq
    <3>1. CASE q <= seq
      <4>1. seq < q + Capacity
        BY <1>1, <1>3
      <4> QED
        BY <3>1, <4>1, IdxDistinct
    <3>2. CASE seq <= q
      <4>1. q < seq + Capacity
        BY <1>1, <1>3
      <4> QED
        BY <3>2, <4>1, IdxDistinct
    <3> QED
      BY <3>1, <3>2
  <2>3. bits[idx(q)] <=> q \in won
    BY <1>3 DEF Sound, BitsExact
  <2> QED
    BY <1>1, <1>2, <2>1, <2>2, <2>3
<1>4. BitsExact(new_arb, won \cup {seq})
  BY <1>2, <1>3 DEF BitsExact
<1>6. Staged(arb) \subseteq Nat
  BY <1>1, StagingIs DEF ArbiterOK, Staged
<1>7. /\ \A q \in Staged(arb) \cup lost : q < unseen
      /\ won \cap (Staged(arb) \cup lost) = {}
      /\ \A q \in first .. (unseen - 1) : q \in won \cup Staged(arb) \cup lost
      /\ \A q \in Staged(arb) \cap lost : q < base
      /\ \A q \in won : q < unseen /\ q < base + Capacity
      /\ base <= unseen
  BY DEF Sound
<1>8. ASSUME NEW q \in Staged(new_arb) \cup (lost \ {seq}) PROVE q < next
  <2>1. q \in Nat /\ q < unseen
    BY <1>1, <1>2, <1>6, <1>7, Zenon
  <2> QED
    BY <2>1, <1>1
<1>9. ASSUME NEW q \in won \cup {seq}
      PROVE  q < next /\ q < base + Capacity
  BY <1>1, <1>7
<1>10. (won \cup {seq}) \cap (Staged(new_arb) \cup (lost \ {seq})) = {}
  BY <1>2, <1>7
<1>11. ASSUME NEW q \in first .. (next - 1)
       PROVE  q \in (won \cup {seq}) \cup Staged(new_arb) \cup (lost \ {seq})
  <2>1. q = seq \/ q \in first .. (unseen - 1)
    BY <1>1
  <2> QED
    BY <2>1, <1>2, <1>7
<1>12. \A q \in Staged(new_arb) \cap (lost \ {seq}) : q < base
  BY <1>2, <1>7
<1>13. next \in Nat /\ base <= next
  BY <1>1, <1>7
<1>14. Sound(first, new_arb, next, lost \ {seq}, won \cup {seq})
  BY <1>1, <1>2, <1>4, <1>8, <1>9, <1>10, <1>11, <1>12, <1>13 DEF Sound
<1> QED
  BY <1>14 DEF new_arb

\* A first copy that arrives below the window, while its sequence is a candidate; or any
\* copy there that is not, which changes nothing.
LEMMA LateSound ==
    ASSUME NEW first \in Nat, NEW arb, NEW unseen, NEW lost, NEW won,
           Sound(first, arb, unseen, lost, won),
           NEW seq \in Nat, seq < arb.window_base, NEW new_arb,
           new_arb = [arb EXCEPT !.pending_gap_confirms = unstaged(@, {seq})]
    PROVE  /\ Sound(first, new_arb, unseen, lost \ {seq}, won \cup {seq})
           /\ seq \notin Staged(arb) => Sound(first, new_arb, unseen, lost, won)
<1> DEFINE base == arb.window_base
<1>1. /\ ArbiterOK(arb) /\ unseen \in Nat /\ base \in Nat /\ won \subseteq Nat /\ lost \subseteq Nat
      /\ Capacity \in Nat \ {0}
  BY WindowAssumption DEF Sound, ArbiterOK
<1>2. /\ ArbiterOK(new_arb)
      /\ new_arb.window_base = base
      /\ new_arb.window_bits = arb.window_bits
      /\ Staged(new_arb) = Staged(arb) \ {seq}
  BY <1>1, UnstageIs
<1>3. /\ \A q \in Staged(arb) \cup lost : q < unseen
      /\ won \cap (Staged(arb) \cup lost) = {}
      /\ \A q \in first .. (unseen - 1) : q \in won \cup Staged(arb) \cup lost
      /\ \A q \in Staged(arb) \cap lost : q < base
      /\ \A q \in won : q < unseen /\ q < base + Capacity
      /\ base <= unseen
      /\ BitsExact(arb, won)
  BY DEF Sound
<1>4. BitsExact(new_arb, won \cup {seq}) /\ BitsExact(new_arb, won)
  BY <1>1, <1>2, <1>3 DEF BitsExact
<1>5. Sound(first, new_arb, unseen, lost \ {seq}, won \cup {seq})
  <2>1. \A q \in won \cup {seq} : q < unseen /\ q < base + Capacity
    BY <1>1, <1>3
  <2>2. \A q \in Staged(new_arb) \cup (lost \ {seq}) : q < unseen
    BY <1>2, <1>3
  <2>3. (won \cup {seq}) \cap (Staged(new_arb) \cup (lost \ {seq})) = {}
    BY <1>2, <1>3
  <2>4. \A q \in first .. (unseen - 1) : q \in (won \cup {seq}) \cup Staged(new_arb) \cup (lost \ {seq})
    BY <1>2, <1>3, Zenon
  <2>5. \A q \in Staged(new_arb) \cap (lost \ {seq}) : q < base
    BY <1>2, <1>3
  <2> QED
    BY <1>1, <1>2, <1>3, <1>4, <2>1, <2>2, <2>3, <2>4, <2>5 DEF Sound
<1>6. ASSUME seq \notin Staged(arb) PROVE Sound(first, new_arb, unseen, lost, won)
  <2>1. Staged(new_arb) = Staged(arb)
    BY <1>2, <1>6
  <2> QED
    BY <1>1, <1>2, <1>3, <1>4, <2>1 DEF Sound
<1> QED
  BY <1>5, <1>6

\* The cases of observe exclude one another.
LEMMA ObserveIs ==
    ASSUME NEW arb, arb.window_base \in Nat, NEW seq \in Nat
    PROVE  /\ seq < arb.window_base => observe(arb, seq) =
                [arb EXCEPT !.pending_gap_confirms = unstaged(@, {seq})]
           /\ seq >= arb.window_base + Capacity => observe(arb, seq) =
                delivering(slid(arb, seq), seq)
           /\ Delivered(arb, seq) => observe(arb, seq) = arb
           /\ (arb.window_base <= seq /\ seq < arb.window_base + Capacity /\ ~Delivered(arb, seq))
                => observe(arb, seq) = delivering(arb, seq)
<1> DEFINE below == seq < arb.window_base
           above == seq >= arb.window_base + Capacity
           seen == Delivered(arb, seq)
           inside == arb.window_base <= seq /\ seq < arb.window_base + Capacity
           late == [arb EXCEPT !.pending_gap_confirms = unstaged(@, {seq})]
<1>1. /\ below => ~above /\ ~seen /\ ~inside
      /\ above => ~below /\ ~seen /\ ~inside
      /\ inside => ~below /\ ~above
      /\ seen => inside
  BY WindowAssumption DEF Delivered
<1>2. observe(arb, seq) = CASE below -> late
                            [] above -> delivering(slid(arb, seq), seq)
                            [] seen -> arb
                            [] OTHER -> delivering(arb, seq)
  BY DEF observe
<1> HIDE DEF below, above, seen, inside, late
<1>3. /\ below => observe(arb, seq) = late
      /\ above => observe(arb, seq) = delivering(slid(arb, seq), seq)
      /\ seen => observe(arb, seq) = arb
      /\ inside /\ ~seen => observe(arb, seq) = delivering(arb, seq)
  BY <1>1, <1>2
<1> QED
  BY <1>3 DEF below, above, seen, inside, late

\* observe lets a copy through.
LEMMA ForwardSound ==
    ASSUME NEW first \in Nat, NEW arb, NEW unseen, NEW lost, NEW won,
           Sound(first, arb, unseen, lost, won),
           NEW seq \in Nat, seq <= unseen, verdict(arb, seq) = "Forward",
           NEW next, next = IF seq >= unseen THEN seq + 1 ELSE unseen
    PROVE  /\ Sound(first, observe(arb, seq), next, lost \ {seq}, won \cup {seq})
           /\ seq \notin won
<1>1. /\ arb.window_base \in Nat /\ unseen \in Nat /\ Capacity \in Nat \ {0}
      /\ arb.window_base <= unseen
  BY WindowAssumption DEF Sound, ArbiterOK
<1>2. CASE seq < arb.window_base
  <2>1. seq \in Staged(arb) /\ next = unseen
    BY <1>1, <1>2 DEF verdict, Staged
  <2>2. observe(arb, seq) = [arb EXCEPT !.pending_gap_confirms = unstaged(@, {seq})]
    BY <1>1, <1>2, ObserveIs, Zenon
  <2>3. Sound(first, observe(arb, seq), unseen, lost \ {seq}, won \cup {seq})
    BY <1>2, <2>2, LateSound, Zenon
  <2>4. seq \notin won
    BY <2>1 DEF Sound
  <2> QED
    BY <2>1, <2>3, <2>4
<1>3. CASE seq >= arb.window_base + Capacity
  <2>1. observe(arb, seq) = delivering(slid(arb, seq), seq)
    BY <1>1, <1>3, ObserveIs, Zenon
  <2>2. Sound(first, slid(arb, seq), unseen, lost, won) /\ slid(arb, seq).window_base = seq - Capacity + 1
    BY <1>3, SlideSound
  <2>3. slid(arb, seq).window_base <= seq /\ seq < slid(arb, seq).window_base + Capacity
    BY <2>2, <1>1
  <2>4. Sound(first, delivering(slid(arb, seq), seq), next, lost \ {seq}, won \cup {seq})
    BY <2>2, <2>3, DeliverSound, Zenon
  <2>5. seq \notin won
    BY <1>1, <1>3 DEF Sound
  <2> QED
    BY <2>1, <2>4, <2>5
<1>4. CASE arb.window_base <= seq /\ seq < arb.window_base + Capacity
  <2>1. ~Delivered(arb, seq)
    BY <1>1, <1>4 DEF verdict
  <2>2. observe(arb, seq) = delivering(arb, seq)
    BY <1>1, <1>4, <2>1, ObserveIs, Zenon
  <2>3. Sound(first, delivering(arb, seq), next, lost \ {seq}, won \cup {seq})
    BY <1>4, DeliverSound
  <2>4. seq \notin won
    BY <1>4, <2>1, DeliveredIs
  <2> QED
    BY <2>2, <2>3, <2>4
<1> QED
  BY <1>1, <1>2, <1>3, <1>4

\* What is let through was not let through before.
LEMMA ForwardedFirst ==
    ASSUME NEW first \in Nat, NEW arb, NEW unseen, NEW lost, NEW won,
           Sound(first, arb, unseen, lost, won),
           NEW seq \in Nat, seq <= unseen, verdict(arb, seq) = "Forward"
    PROVE  seq \notin won
<1> DEFINE next == IF seq >= unseen THEN seq + 1 ELSE unseen
<1> HIDE DEF next
<1>1. next = IF seq >= unseen THEN seq + 1 ELSE unseen
  BY DEF next
<1> QED
  BY <1>1, ForwardSound, Zenon

\* observe drops a copy.
LEMMA RefusedSound ==
    ASSUME NEW first \in Nat, NEW arb, NEW unseen, NEW lost, NEW won,
           Sound(first, arb, unseen, lost, won),
           NEW seq \in Nat, verdict(arb, seq) # "Forward"
    PROVE  Sound(first, observe(arb, seq), unseen, lost, won) /\ seq < unseen
<1>1. /\ arb.window_base \in Nat /\ unseen \in Nat /\ Capacity \in Nat \ {0}
      /\ arb.window_base <= unseen
  BY WindowAssumption DEF Sound, ArbiterOK
<1>2. CASE seq < arb.window_base
  <2>1. seq \notin Staged(arb)
    BY <1>1, <1>2 DEF verdict, Staged
  <2>2. observe(arb, seq) = [arb EXCEPT !.pending_gap_confirms = unstaged(@, {seq})]
    BY <1>1, <1>2, ObserveIs, Zenon
  <2>3. Sound(first, observe(arb, seq), unseen, lost, won)
    BY <1>2, <2>1, <2>2, LateSound, Zenon
  <2> QED
    BY <2>3, <1>1, <1>2
<1>3. CASE seq >= arb.window_base
  <2>1. Delivered(arb, seq)
    BY <1>1, <1>3 DEF verdict
  <2>2. arb.window_base <= seq /\ seq < arb.window_base + Capacity /\ seq \in won
    BY <2>1, DeliveredIs
  <2>3. observe(arb, seq) = arb
    BY <1>1, <2>1, ObserveIs, Zenon
  <2> QED
    BY <2>2, <2>3 DEF Sound
<1> QED
  BY <1>1, <1>2, <1>3

\* Candidates become tracked gaps.
LEMMA ConfirmSound ==
    ASSUME NEW first \in Nat, NEW arb, NEW unseen, NEW lost, NEW won,
           Sound(first, arb, unseen, lost, won), NEW due, due \subseteq Staged(arb)
    PROVE  Sound(first, [arb EXCEPT !.pending_gap_confirms = unstaged(@, due)],
                 unseen, lost \cup due, won)
<1> DEFINE new_arb == [arb EXCEPT !.pending_gap_confirms = unstaged(@, due)]
<1>1. /\ ArbiterOK(arb) /\ unseen \in Nat /\ won \subseteq Nat /\ lost \subseteq Nat
      /\ Staged(arb) \subseteq Nat
  BY StagingIs DEF Sound, ArbiterOK, Staged
<1>2. due \subseteq Staged(arb)
  OBVIOUS
<1>3. new_arb = [arb EXCEPT !.pending_gap_confirms = unstaged(@, due)]
  OBVIOUS
<1> HIDE DEF new_arb
<1>4. /\ ArbiterOK(new_arb)
      /\ new_arb.window_base = arb.window_base
      /\ new_arb.window_bits = arb.window_bits
      /\ Staged(new_arb) = Staged(arb) \ due
  BY <1>1, <1>3, UnstageIs
<1>5. BitsExact(new_arb, won)
  BY <1>4 DEF Sound, BitsExact
<1>6. /\ \A q \in Staged(arb) \cup lost : q < unseen
      /\ won \cap (Staged(arb) \cup lost) = {}
      /\ \A q \in first .. (unseen - 1) : q \in won \cup Staged(arb) \cup lost
      /\ \A q \in Staged(arb) \cap lost : q < arb.window_base
      /\ \A q \in won : q < unseen /\ q < arb.window_base + Capacity
      /\ arb.window_base <= unseen
  BY DEF Sound
<1>7. /\ \A q \in Staged(new_arb) \cup (lost \cup due) : q < unseen
      /\ won \cap (Staged(new_arb) \cup (lost \cup due)) = {}
      /\ \A q \in Staged(new_arb) \cap (lost \cup due) : q < arb.window_base
  BY <1>2, <1>4, <1>6
<1>8. \A q \in first .. (unseen - 1) : q \in won \cup Staged(new_arb) \cup (lost \cup due)
  BY <1>2, <1>4, <1>6
<1>9. Sound(first, new_arb, unseen, lost \cup due, won)
  BY <1>1, <1>2, <1>4, <1>5, <1>6, <1>7, <1>8, Zenon DEF Sound
<1> QED
  BY <1>9 DEF new_arb

\* The arbiter's own drain confirms every candidate whose window has elapsed.
LEMMA DrainSound ==
    ASSUME NEW first \in Nat, NEW arb, NEW unseen, NEW lost, NEW won,
           Sound(first, arb, unseen, lost, won)
    PROVE  Sound(first, drained(arb), unseen, lost \cup confirmed_gaps(arb), won)
<1>1. confirmed_gaps(arb) \subseteq Staged(arb)
  BY DEF confirmed_gaps, Staged
<1> QED
  BY <1>1, ConfirmSound DEF drained

\* A window anchored at `base` starts with everything below it done.
LEMMA RebaseSound ==
    ASSUME NEW first \in Nat, NEW base \in Nat
    PROVE  Sound(first, rebase(base), base, {}, {q \in Nat : q < base})
<1> DEFINE arb == rebase(base)
           won == {q \in Nat : q < base}
           bits == [i \in 0 .. (Capacity - 1) |-> FALSE]
           none == [q \in {} |-> 0]
<1>1. Capacity \in Nat \ {0}
  BY WindowAssumption
<1>2. none \in Staging /\ DOMAIN none = {}
  BY StagingIs, Zenon
<1>3. bits \in [0 .. (Capacity - 1) -> BOOLEAN] /\ \A i \in 0 .. (Capacity - 1) : ~bits[i]
  OBVIOUS
<1>0. new = [window_base |-> 0, window_bits |-> bits, pending_gap_confirms |-> none]
  BY DEF new
<1> HIDE DEF arb, bits, none
<1>4. arb = [window_base |-> base, window_bits |-> bits, pending_gap_confirms |-> none]
  BY <1>0 DEF arb, rebase
<1>5. ArbiterOK(arb) /\ Staged(arb) = {} /\ arb.window_base = base /\ arb.window_bits = bits
  BY <1>2, <1>3, <1>4 DEF ArbiterOK, Staged
<1>6. BitsExact(arb, won)
  <2> SUFFICES ASSUME NEW q \in Nat, base <= q, q < base + Capacity
               PROVE  ~arb.window_bits[idx(q)] /\ q \notin won
    BY <1>5 DEF BitsExact
  <2> QED
    BY <1>3, <1>5, IdxInWindow
<1>7. \A q \in won : q \in Nat /\ q < base /\ q < base + Capacity
  BY <1>1
<1>8. \A q \in first .. (base - 1) : q \in won
  OBVIOUS
<1> HIDE DEF won
<1>9. Sound(first, arb, base, {}, won)
  BY <1>5, <1>6, <1>7, <1>8 DEF Sound
<1> QED
  BY <1>9 DEF arb, won

\* A heartbeat tracks the tail at once.
LEMMA TailSound ==
    ASSUME NEW first \in Nat, NEW arb, NEW unseen, NEW lost, NEW won,
           Sound(first, arb, unseen, lost, won),
           NEW expected \in Nat, NEW next, next = IF expected > unseen THEN expected ELSE unseen
    PROVE  Sound(first, arb, next, lost \cup (unseen .. (expected - 1)), won)
<1> DEFINE tail == unseen .. (expected - 1)
<1>1. /\ ArbiterOK(arb) /\ unseen \in Nat /\ won \subseteq Nat /\ lost \subseteq Nat
      /\ Staged(arb) \subseteq Nat /\ arb.window_base \in Nat
      /\ next \in Nat /\ unseen <= next /\ arb.window_base <= next
  BY StagingIs DEF Sound, ArbiterOK, Staged
<1>2. \A q \in tail : q \in Nat /\ q >= unseen /\ q < next
  BY <1>1
<1>3. \A q \in Nat : q < next => q < unseen \/ q \in tail
  BY <1>1
<1> HIDE DEF tail
<1>4. /\ \A q \in Staged(arb) \cup lost : q < unseen
      /\ won \cap (Staged(arb) \cup lost) = {}
      /\ \A q \in first .. (unseen - 1) : q \in won \cup Staged(arb) \cup lost
      /\ \A q \in Staged(arb) \cap lost : q < arb.window_base
      /\ \A q \in won : q < unseen /\ q < arb.window_base + Capacity
  BY DEF Sound
<1>5. ASSUME NEW q \in Staged(arb) \cup (lost \cup tail) PROVE q < next
  <2>1. CASE q \in tail
    BY <2>1, <1>2
  <2>2. CASE q \in Staged(arb) \cup lost
    <3>1. q \in Nat /\ q < unseen
      BY <2>2, <1>1, <1>4, Zenon
    <3> QED
      BY <3>1, <1>1
  <2> QED
    BY <2>1, <2>2
<1>6. \A q \in won : q < next
  BY <1>1, <1>4
<1>7. \A q \in tail : q \notin won /\ q \notin Staged(arb)
  BY <1>1, <1>2, <1>4
<1>8. \A q \in first .. (next - 1) : q \in won \cup Staged(arb) \cup (lost \cup tail)
  BY <1>1, <1>3, <1>4
<1>9. Sound(first, arb, next, lost \cup tail, won)
  BY <1>1, <1>2, <1>4, <1>5, <1>6, <1>7, <1>8, Zenon DEF Sound
<1> QED
  BY <1>9 DEF tail

\* A tick of the clock.
LEMMA AgedSound ==
    ASSUME NEW first \in Nat, NEW arb, NEW unseen, NEW lost, NEW won,
           Sound(first, arb, unseen, lost, won)
    PROVE  Sound(first, aged(arb), unseen, lost, won)
<1> DEFINE pending == arb.pending_gap_confirms
           p == [q \in DOMAIN pending |->
                    IF pending[q] < ConfirmWindow THEN pending[q] + 1 ELSE pending[q]]
           new_arb == aged(arb)
<1>1. ArbiterOK(arb) /\ pending \in Staging
  BY DEF Sound, ArbiterOK
<1>2. p \in Staging
  <2>1. DOMAIN pending \subseteq Nat /\ pending \in [DOMAIN pending -> Nat]
    BY <1>1, StagingIs
  <2>2. p \in [DOMAIN pending -> Nat] /\ DOMAIN p = DOMAIN pending
    BY <2>1
  <2> QED
    BY <2>1, <2>2, StagingIs
<1>3. DOMAIN p = DOMAIN pending
  OBVIOUS
<1>4. new_arb = [arb EXCEPT !.pending_gap_confirms = p]
  BY DEF aged
<1> HIDE DEF p, new_arb
<1>5. /\ ArbiterOK(new_arb) /\ new_arb.window_base = arb.window_base
      /\ new_arb.window_bits = arb.window_bits /\ new_arb.pending_gap_confirms = p
  BY <1>1, <1>2, <1>4, RestagedIs
<1>6. Staged(new_arb) = Staged(arb)
  BY <1>3, <1>5 DEF Staged
<1>7. BitsExact(new_arb, won)
  BY <1>5 DEF Sound, BitsExact
<1>8. Sound(first, new_arb, unseen, lost, won)
  BY <1>5, <1>6, <1>7 DEF Sound
<1> QED
  BY <1>8 DEF new_arb

\* An arrival that does not jump stages nothing.
LEMMA NoteNothing ==
    ASSUME NEW arb, ArbiterOK(arb), NEW start \in Nat, NEW end \in Nat, end <= start
    PROVE  note_missing_range(arb, start, end) = arb
<1> DEFINE p == arb.pending_gap_confirms
<1>1. {q \in start .. (end - 1) : ~Delivered(arb, q)} = {}
  OBVIOUS
<1>2. p = [q \in DOMAIN p |-> p[q]]
  BY StagingIs DEF ArbiterOK
<1>3. staged(p, {}) = p
  BY <1>2 DEF staged
<1>4. note_missing_range(arb, start, end) = [arb EXCEPT !.pending_gap_confirms = p]
  BY <1>1, <1>3 DEF note_missing_range
<1> QED
  BY <1>4 DEF ArbiterOK

\* A datagram's values before it is observed: the arbiter with the jump staged, and one
\* past the highest sequence seen, which the datagram's own may equal.
LEMMA NotedSound ==
    ASSUME NEW first \in Nat, NEW arb, NEW unseen, NEW lost, NEW won,
           Sound(first, arb, unseen, lost, won),
           NEW seq \in Nat, NEW noted,
           noted = IF seq > unseen THEN note_missing_range(arb, unseen, seq) ELSE arb
    PROVE  /\ Sound(first, noted, IF seq > unseen THEN seq ELSE unseen, lost, won)
           /\ seq <= IF seq > unseen THEN seq ELSE unseen
<1>1. unseen \in Nat
  BY DEF Sound
<1>2. CASE seq > unseen
  BY <1>2, <1>1, NoteSound
<1>3. CASE seq <= unseen
  BY <1>3, <1>1
<1> QED
  BY <1>1, <1>2, <1>3
=============================================================================
