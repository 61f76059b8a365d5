-------------------------- MODULE SoupBinClientProofs --------------------------
(***************************************************************************)
(* The SoupBinTCP client, for every driver, compressed or not, every       *)
(* timeout, buffer size, log and number of connections.                    *)
(***************************************************************************)
EXTENDS SoupBinClient, FiniteSetTheorems, SequenceTheorems, WellFoundedInduction, TLAPS

----------------------------------------------------------------------------
(* Least and greatest of two. *)

LEMMA MinIs ==
    ASSUME NEW a \in Int, NEW b \in Int
    PROVE  Min({a, b}) = IF a <= b THEN a ELSE b
<1> DEFINE m == IF a <= b THEN a ELSE b
<1>1. m \in {a, b} /\ \A y \in {a, b} : m <= y
  OBVIOUS
<1>2. Min({a, b}) \in {a, b} /\ \A y \in {a, b} : Min({a, b}) <= y
  <2>1. \E x \in {a, b} : \A y \in {a, b} : x <= y
    BY <1>1
  <2> QED
    BY <2>1, Zenon DEF Min
<1> QED
  BY <1>1, <1>2

LEMMA MaxIs ==
    ASSUME NEW a \in Int, NEW b \in Int
    PROVE  Max({a, b}) = IF a <= b THEN b ELSE a
<1> DEFINE m == IF a <= b THEN b ELSE a
<1>1. m \in {a, b} /\ \A y \in {a, b} : m >= y
  OBVIOUS
<1>2. Max({a, b}) \in {a, b} /\ \A y \in {a, b} : Max({a, b}) >= y
  <2>1. \E x \in {a, b} : \A y \in {a, b} : x >= y
    BY <1>1
  <2> QED
    BY <2>1, Zenon DEF Max
<1> QED
  BY <1>1, <1>2

----------------------------------------------------------------------------
(* Packets and their bytes. *)

PacketTypes ==
    {"LoginRequest", "LogoutRequest", "ClientHeartbeat", "UnsequencedData", "LoginAccepted",
     "LoginRejected", "SequencedData", "ServerHeartbeat", "EndOfSession"} \cup Noise
Packets == [ty : PacketTypes, val : Nat]
Octets == [of : Packets, part : {1, 2}]

LEMMA BytesIs ==
    ASSUME NEW p \in Packets
    PROVE  Bytes(p) \in Seq(Octets) /\ Len(Bytes(p)) = 2
BY DEF Bytes, Octets

\* Byte i belongs to packet (i + 1) \div 2.
LEMMA Halved ==
    ASSUME NEW i \in Nat
    PROVE  /\ (i + 1) \div 2 \in Nat /\ i % 2 \in {0, 1}
           /\ i % 2 = 1 => i = 2 * ((i + 1) \div 2) - 1
           /\ i % 2 # 1 => i = 2 * ((i + 1) \div 2)
OBVIOUS

LEMMA HalvedUp ==
    ASSUME NEW n \in Nat, NEW j \in Nat
    PROVE  ((2 * n + j) + 1) \div 2 = n + ((j + 1) \div 2) /\ (2 * n + j) % 2 = j % 2
<1>1. 2 * n + j \in Nat
  OBVIOUS
<1>2. (2 * n + j) % 2 = j % 2
  OBVIOUS
<1> QED
  BY <1>1, <1>2, Halved

LEMMA FlatIs ==
    ASSUME NEW u \in Seq(Packets)
    PROVE  /\ Flat(u) \in Seq(Octets) /\ Len(Flat(u)) = 2 * Len(u)
           /\ \A i \in 1 .. (2 * Len(u)) :
                Flat(u)[i] = [of |-> u[(i + 1) \div 2], part |-> IF i % 2 = 1 THEN 1 ELSE 2]
<1>1. Len(u) \in Nat /\ \A i \in 1 .. (2 * Len(u)) : (i + 1) \div 2 \in 1 .. Len(u)
  OBVIOUS
<1>2. \A i \in 1 .. (2 * Len(u)) :
        [of |-> u[(i + 1) \div 2], part |-> IF i % 2 = 1 THEN 1 ELSE 2] \in Octets
  BY <1>1 DEF Octets
<1> QED
  BY <1>1, <1>2 DEF Flat

LEMMA FlatConcat ==
    ASSUME NEW u \in Seq(Packets), NEW v \in Seq(Packets)
    PROVE  Flat(u \o v) = Flat(u) \o Flat(v)
<1> DEFINE w == u \o v
           x == Flat(w)
           y == Flat(u) \o Flat(v)
<1>1. w \in Seq(Packets) /\ Len(w) = Len(u) + Len(v) /\ Len(u) \in Nat /\ Len(v) \in Nat
  OBVIOUS
<1>2. \A i \in 1 .. Len(w) : w[i] = IF i <= Len(u) THEN u[i] ELSE v[i - Len(u)]
  OBVIOUS
<1> HIDE DEF w
<1>3. /\ x \in Seq(Octets) /\ Len(x) = 2 * Len(w)
      /\ \A i \in 1 .. (2 * Len(w)) :
            x[i] = [of |-> w[(i + 1) \div 2], part |-> IF i % 2 = 1 THEN 1 ELSE 2]
  BY <1>1, FlatIs, Zenon
<1>4. y \in Seq(Octets) /\ Len(y) = 2 * Len(u) + 2 * Len(v)
  <2>1. Flat(u) \in Seq(Octets) /\ Len(Flat(u)) = 2 * Len(u)
    BY FlatIs
  <2>2. Flat(v) \in Seq(Octets) /\ Len(Flat(v)) = 2 * Len(v)
    BY FlatIs
  <2> QED
    BY <2>1, <2>2, ConcatProperties, Zenon
<1>5. ASSUME NEW i \in 1 .. (2 * Len(w)) PROVE x[i] = y[i]
  <2>1. CASE i <= 2 * Len(u)
    <3>1. i \in 1 .. (2 * Len(u)) /\ (i + 1) \div 2 \in 1 .. Len(w) /\ (i + 1) \div 2 <= Len(u)
      BY <1>1, <2>1
    <3>2. y[i] = Flat(u)[i]
      BY <3>1, <1>1, FlatIs
    <3> QED
      BY <3>1, <3>2, <1>2, <1>3, FlatIs, Zenon
  <2>2. CASE i > 2 * Len(u)
    <3> DEFINE n == Len(u)
               j == i - 2 * n
               h == (j + 1) \div 2
    <3>1. j \in 1 .. (2 * Len(v)) /\ j \in Nat /\ n \in Nat /\ i = 2 * n + j
      BY <1>1, <2>2
    <3>2. y[i] = Flat(v)[j]
      <4>1. Flat(u) \in Seq(Octets) /\ Len(Flat(u)) = 2 * n
        BY FlatIs
      <4>2. Flat(v) \in Seq(Octets) /\ Len(Flat(v)) = 2 * Len(v)
        BY FlatIs
      <4>3. /\ i \in 1 .. (Len(Flat(u)) + Len(Flat(v))) /\ ~(i <= Len(Flat(u)))
            /\ i - Len(Flat(u)) = j
        BY <4>1, <4>2, <3>1, <2>2, <1>1
      <4> HIDE DEF j
      <4> QED
        BY <4>1, <4>2, <4>3, ConcatProperties, SMTT(30)
    <3> HIDE DEF j, n
    <3>3. (i + 1) \div 2 = n + h /\ i % 2 = j % 2
      BY <3>1, HalvedUp
    <3>4. h \in 1 .. Len(v)
      BY <3>1, <1>1, Halved
    <3> HIDE DEF h
    <3>5. w[n + h] = v[h]
      BY <3>1, <3>4, <1>1, <1>2, SMTT(30) DEF n
    <3>6. Flat(v)[j] = [of |-> v[h], part |-> IF j % 2 = 1 THEN 1 ELSE 2]
      BY <3>1, FlatIs DEF h
    <3> QED
      BY <3>2, <3>3, <3>5, <3>6, <1>3
  <2>3. i <= 2 * Len(u) \/ i > 2 * Len(u)
    BY <1>1
  <2> QED
    BY <2>1, <2>2, <2>3, Zenon
<1>6. x = y
  <2> HIDE DEF x, y
  <2> QED
    BY <1>1, <1>3, <1>4, <1>5, SMTT(60)
<1> QED
  BY <1>6 DEF w

LEMMA FlatOne ==
    ASSUME NEW p \in Packets
    PROVE  Flat(<<p>>) = Bytes(p) /\ <<p>> \in Seq(Packets)
<1>1. Len(<<p>>) = 1 /\ <<p>> \in Seq(Packets) /\ <<p>>[1] = p
  OBVIOUS
<1> DEFINE u == <<p>>
<1>2. /\ Flat(u) \in Seq(Octets) /\ Len(Flat(u)) = 2
      /\ Flat(u)[1] = [of |-> p, part |-> 1] /\ Flat(u)[2] = [of |-> p, part |-> 2]
  <2> HIDE DEF u
  <2>1. (1 + 1) \div 2 = 1 /\ 1 % 2 = 1 /\ (2 + 1) \div 2 = 1 /\ 2 % 2 = 0
    OBVIOUS
  <2>2. u \in Seq(Packets) /\ Len(u) = 1 /\ u[1] = p
    BY <1>1 DEF u
  <2>3. 2 * Len(u) = 2 /\ 1 \in 1 .. 2 /\ 2 \in 1 .. 2
    BY <2>2
  <2> QED
    BY <2>1, <2>2, <2>3, FlatIs, Zenon
<1>3. /\ Bytes(p) \in Seq(Octets) /\ Len(Bytes(p)) = 2
      /\ Bytes(p)[1] = [of |-> p, part |-> 1] /\ Bytes(p)[2] = [of |-> p, part |-> 2]
  BY DEF Bytes, Octets
<1> QED
  BY <1>1, <1>2, <1>3

\* A sequence is what is taken from its front and the rest.
LEMMA Split ==
    ASSUME NEW T, NEW s \in Seq(T), NEW n \in 0 .. Len(s)
    PROVE  /\ SubSeq(s, 1, n) \in Seq(T) /\ SubSeq(s, n + 1, Len(s)) \in Seq(T)
           /\ Len(SubSeq(s, 1, n)) = n /\ Len(SubSeq(s, n + 1, Len(s))) = Len(s) - n
           /\ s = SubSeq(s, 1, n) \o SubSeq(s, n + 1, Len(s))
<1> DEFINE a == SubSeq(s, 1, n)
           b == SubSeq(s, n + 1, Len(s))
<1>1. a \in Seq(T) /\ Len(a) = n /\ \A i \in 1 .. n : a[i] = s[i]
  OBVIOUS
<1>2. b \in Seq(T) /\ Len(b) = Len(s) - n /\ \A i \in 1 .. (Len(s) - n) : b[i] = s[n + i]
  OBVIOUS
<1>3. s = a \o b
  <2>1. 1 \in 1 .. (Len(s) + 1) /\ n \in (1 - 1) .. Len(s) /\ Len(s) \in n .. Len(s)
    OBVIOUS
  <2>2. a \o b = SubSeq(s, 1, Len(s))
    BY <2>1, ConcatAdjacentSubSeq, Zenon
  <2> QED
    BY <2>2, SubSeqFull, Zenon
<1> QED
  BY <1>1, <1>2, <1>3, Zenon

\* What is behind the first packet.
LEMMA BehindTwo ==
    ASSUME NEW T, NEW d \in Seq(T), Len(d) >= 2
    PROVE  /\ SubSeq(d, 3, Len(d)) \in Seq(T)
           /\ Len(SubSeq(d, 3, Len(d))) = Len(d) - 2
           /\ \A i \in 1 .. (Len(d) - 2) : SubSeq(d, 3, Len(d))[i] = d[i + 2]
<1>1. 2 \in 0 .. Len(d) /\ Len(d) \in Nat /\ 2 + 1 = 3
  OBVIOUS
<1>2. Len(SubSeq(d, 2 + 1, Len(d))) = Len(d) - 2 /\ SubSeq(d, 2 + 1, Len(d)) \in Seq(T)
  BY <1>1, Split, Zenon
<1>3. \A i \in 1 .. (Len(d) - 2) : SubSeq(d, 3, Len(d))[i] = d[i + 2]
  OBVIOUS
<1> QED
  BY <1>1, <1>2, <1>3

----------------------------------------------------------------------------
(* The session's buffers. *)

States == {"Authenticating", "Streaming", "Closed"}

Sessions ==
    [state : States, requested : Nat,
     decode_buf : Seq(Octets), out : Seq(Octets), next_expected_sequence : Nat,
     since_send : Nat, since_recv : Nat, login_left : Nat,
     recv_staging : Seq(Packets), inflating : Seq(Octets), capped : BOOLEAN]

\* Every byte the session has read and not yet dispatched, inflated.
Buffered(s) == (s.decode_buf \o s.inflating) \o Flat(s.recv_staging)

\* The inflater holds output back only when its cap stopped it.
Tidy(s) == ~s.capped => s.inflating = <<>>

SameSession(s, t) ==
    /\ t.state = s.state /\ t.requested = s.requested /\ t.out = s.out
    /\ t.next_expected_sequence = s.next_expected_sequence
    /\ t.since_send = s.since_send /\ t.login_left = s.login_left

Rebuffered(s, d, r, i, c, since) ==
    [s EXCEPT !.decode_buf = d, !.recv_staging = r, !.inflating = i, !.capped = c,
              !.since_recv = since]

LEMMA RebufferedIs ==
    ASSUME NEW s \in Sessions, NEW d \in Seq(Octets), NEW r \in Seq(Packets),
           NEW i \in Seq(Octets), NEW c \in BOOLEAN, NEW since \in Nat
    PROVE  /\ Rebuffered(s, d, r, i, c, since) \in Sessions
           /\ SameSession(s, Rebuffered(s, d, r, i, c, since))
           /\ Rebuffered(s, d, r, i, c, since).decode_buf = d
           /\ Rebuffered(s, d, r, i, c, since).recv_staging = r
           /\ Rebuffered(s, d, r, i, c, since).inflating = i
           /\ Rebuffered(s, d, r, i, c, since).capped = c
           /\ Rebuffered(s, d, r, i, c, since).since_recv = since
BY Zenon DEF Rebuffered, SameSession, Sessions

LEMMA Associates ==
    \A a, b, c \in Seq(Octets) : (a \o b) \o c = a \o (b \o c)
BY ConcatAssociative

\* One inflate step moves bytes along and neither loses nor reorders any.
LEMMA FeedIs ==
    ASSUME NEW s \in Sessions
    PROVE  /\ feed(s) \in Sessions /\ Tidy(feed(s)) /\ SameSession(s, feed(s))
           /\ feed(s).since_recv = s.since_recv
           /\ Buffered(feed(s)) = Buffered(s)
<1> DEFINE missing == Max({Capacity - Len(s.inflating), 0})
           consumed == Min({Len(s.recv_staging), (missing + 1) \div 2})
           taken == SubSeq(s.recv_staging, 1, consumed)
           rest == SubSeq(s.recv_staging, consumed + 1, Len(s.recv_staging))
           inflated == s.inflating \o Flat(taken)
           produced == Min({Len(inflated), Capacity})
           front_ == SubSeq(inflated, 1, produced)
           back == SubSeq(inflated, produced + 1, Len(inflated))
           cap == produced = Capacity
           joined == s.decode_buf \o front_
           t == Rebuffered(s, joined, rest, back, cap, s.since_recv)
<1>1. /\ s.decode_buf \in Seq(Octets) /\ s.inflating \in Seq(Octets)
      /\ s.recv_staging \in Seq(Packets) /\ Capacity \in Nat
      /\ Len(s.inflating) \in Nat /\ Len(s.recv_staging) \in Nat
  BY SessionAssumption, SMTT(60) DEF Sessions
<1>2. consumed \in 0 .. Len(s.recv_staging)
  <2>1. missing \in Nat
    BY <1>1, MaxIs
  <2> HIDE DEF missing
  <2>2. (missing + 1) \div 2 \in Nat
    BY <2>1
  <2> QED
    BY <1>1, <2>2, MinIs, SMTT(60)
<1> HIDE DEF consumed
<1>3. /\ taken \in Seq(Packets) /\ rest \in Seq(Packets) /\ s.recv_staging = taken \o rest
  BY <1>1, <1>2, Split, Zenon
<1> HIDE DEF taken, rest
<1>4. Flat(taken) \in Seq(Octets) /\ Flat(rest) \in Seq(Octets)
  BY <1>3, FlatIs
<1>5. inflated \in Seq(Octets) /\ Len(inflated) \in Nat
  BY <1>1, <1>4
<1>6. /\ produced \in 0 .. Len(inflated) /\ produced <= Capacity
      /\ produced # Capacity => produced = Len(inflated)
  <2> HIDE DEF inflated
  <2> QED
    BY <1>1, <1>5, MinIs
<1>7. /\ front_ \in Seq(Octets) /\ back \in Seq(Octets) /\ inflated = front_ \o back
      /\ Len(back) = Len(inflated) - produced
  <2> HIDE DEF inflated, produced
  <2> QED
    BY <1>5, <1>6, Split, Zenon
<1>8. feed(s) = t
  BY Zenon DEF feed, taken, rest, consumed, Rebuffered, Sessions
<1>9. joined \o back = s.decode_buf \o (s.inflating \o Flat(taken)) /\ joined \in Seq(Octets)
  <2>1. inflated = s.inflating \o Flat(taken)
    OBVIOUS
  <2> HIDE DEF inflated, produced, front_, back
  <2>2. (s.decode_buf \o front_) \o back = s.decode_buf \o (front_ \o back)
    BY <1>1, <1>7, Associates, Zenon
  <2>3. s.decode_buf \o front_ \in Seq(Octets)
    BY <1>1, <1>7, ConcatProperties
  <2> QED
    BY <2>1, <2>2, <2>3, <1>7, Zenon
<1>10. produced # Capacity => back = <<>>
  <2> HIDE DEF inflated, produced, back
  <2> QED
    BY <1>5, <1>6, <1>7, EmptySeq
<1>11. cap \in BOOLEAN /\ (~cap => back = <<>>) /\ s.since_recv \in Nat
  BY <1>10, Zenon DEF Sessions
<1> HIDE DEF inflated, produced, front_, back, cap, joined
<1>12. /\ t \in Sessions /\ Tidy(t) /\ SameSession(s, t) /\ t.since_recv = s.since_recv
       /\ t.decode_buf = joined /\ t.inflating = back /\ t.recv_staging = rest
  BY <1>3, <1>7, <1>9, <1>11, RebufferedIs, SMTT(30) DEF Tidy
<1>13. Buffered(t) = Buffered(s)
  <2>1. Buffered(t) = (s.decode_buf \o (s.inflating \o Flat(taken))) \o Flat(rest)
    BY <1>9, <1>12, Zenon DEF Buffered
  <2>2. Flat(s.recv_staging) = Flat(taken) \o Flat(rest)
    BY <1>3, FlatConcat
  <2>3. Buffered(s) = (s.decode_buf \o s.inflating) \o (Flat(taken) \o Flat(rest))
    BY <2>2 DEF Buffered
  <2>4. (s.decode_buf \o s.inflating) \o Flat(taken) = s.decode_buf \o (s.inflating \o Flat(taken))
    BY <1>1, <1>4, Associates, Zenon
  <2>5. s.decode_buf \o s.inflating \in Seq(Octets)
    BY <1>1, ConcatProperties
  <2>6. ((s.decode_buf \o s.inflating) \o Flat(taken)) \o Flat(rest)
            = (s.decode_buf \o s.inflating) \o (Flat(taken) \o Flat(rest))
    BY <2>5, <1>4, Associates, Zenon
  <2> QED
    BY <2>1, <2>3, <2>4, <2>6, Zenon
<1> HIDE DEF t
<1> QED
  BY <1>8, <1>12, <1>13

LEMMA NoneFlat == Flat(<<>>) = <<>>
BY DEF Flat

\* A session that has nothing staged.
LEMMA NothingStaged ==
    ASSUME NEW s \in Sessions, s.recv_staging = <<>>, s.inflating = <<>>
    PROVE  s.decode_buf \in Seq(Octets) /\ Buffered(s) = s.decode_buf
<1>1. s.decode_buf \in Seq(Octets)
  BY DEF Sessions
<1> QED
  BY <1>1, NoneFlat, ConcatEmptySeq DEF Buffered

\* What a read changes.
Reading(s, d, r) == [s EXCEPT !.decode_buf = d, !.recv_staging = r, !.since_recv = 0]

LEMMA ReadingIs ==
    ASSUME NEW s \in Sessions, NEW d \in Seq(Octets), NEW r \in Seq(Packets)
    PROVE  /\ Reading(s, d, r) \in Sessions /\ SameSession(s, Reading(s, d, r))
           /\ Reading(s, d, r).since_recv = 0 /\ Reading(s, d, r).decode_buf = d
           /\ Reading(s, d, r).recv_staging = r /\ Reading(s, d, r).inflating = s.inflating
BY Zenon DEF Reading, Sessions, SameSession

LEMMA SessionIs ==
    ASSUME NEW s \in Sessions
    PROVE  /\ s.state \in States /\ s.requested \in Nat
           /\ s.decode_buf \in Seq(Octets) /\ s.out \in Seq(Octets)
           /\ s.next_expected_sequence \in Nat /\ s.since_send \in Nat /\ s.since_recv \in Nat
           /\ s.login_left \in Nat /\ s.recv_staging \in Seq(Packets)
           /\ s.inflating \in Seq(Octets) /\ s.capped \in BOOLEAN
BY DEF Sessions

\* What the socket carries to the client of variant v, and what it inflates to.
Units(v) == IF v.compressed THEN Packets ELSE Octets
Unpacked(units, v) == IF v.compressed THEN Flat(units) ELSE units

LEMMA UnpackedIs ==
    ASSUME NEW v, NEW u \in Seq(Units(v)), NEW w \in Seq(Units(v))
    PROVE  /\ Unpacked(u, v) \in Seq(Octets)
           /\ Unpacked(u \o w, v) = Unpacked(u, v) \o Unpacked(w, v)
           /\ Unpacked(<<>>, v) = <<>>
<1>1. CASE v.compressed
  BY <1>1, NoneFlat, FlatIs, FlatConcat DEF Unpacked, Units
<1>2. CASE ~v.compressed
  BY <1>2 DEF Unpacked, Units
<1> QED
  BY <1>1, <1>2

\* A read appends what it read, inflated.
LEMMA LandIs ==
    ASSUME NEW s \in Sessions, ~staged(s), Tidy(s), NEW v, NEW units \in Seq(Units(v)),
           NEW t, t = land(s, units, v.compressed)
    PROVE  /\ t \in Sessions /\ Tidy(t) /\ SameSession(s, t) /\ t.since_recv = 0
           /\ Buffered(t) = Buffered(s) \o Unpacked(units, v)
<1>0. /\ s.recv_staging = <<>> /\ s.inflating = <<>> /\ s.decode_buf \in Seq(Octets)
      /\ Buffered(s) = s.decode_buf
  BY NothingStaged DEF staged, Tidy
<1>1. CASE v.compressed
  <2> DEFINE r == [s EXCEPT !.recv_staging = @ \o units, !.since_recv = 0]
  <2>1. units \in Seq(Packets) /\ t = feed(r) /\ Unpacked(units, v) = Flat(units)
    BY <1>1 DEF land, Units, Unpacked
  <2>2. r = [s EXCEPT !.recv_staging = units, !.since_recv = 0]
    BY <1>0, <2>1, ConcatEmptySeq
  <2>3. /\ r \in Sessions /\ SameSession(s, r) /\ r.since_recv = 0 /\ r.recv_staging = units
        /\ r.decode_buf = s.decode_buf /\ r.inflating = s.inflating
    <3>1. r = Reading(s, s.decode_buf, units)
      BY <2>2, Zenon DEF Reading, Sessions
    <3> HIDE DEF r
    <3> QED
      BY <1>0, <2>1, <3>1, ReadingIs
  <2> HIDE DEF r
  <2>4. s.decode_buf \o <<>> = s.decode_buf
    BY <1>0, ConcatEmptySeq
  <2>5. Buffered(r) = Buffered(s) \o Flat(units)
    BY <1>0, <2>3, <2>4, Zenon DEF Buffered
  <2>6. /\ t \in Sessions /\ Tidy(t) /\ SameSession(r, t) /\ t.since_recv = r.since_recv
        /\ Buffered(t) = Buffered(r)
    BY <2>1, <2>3, FeedIs
  <2> QED
    BY <2>1, <2>3, <2>5, <2>6 DEF SameSession
<1>2. CASE ~v.compressed
  <2> DEFINE d == s.decode_buf \o units
  <2>1. /\ units \in Seq(Octets) /\ Unpacked(units, v) = units
        /\ t = [s EXCEPT !.decode_buf = d, !.since_recv = 0]
    BY <1>2 DEF land, Units, Unpacked
  <2>2. /\ t \in Sessions /\ SameSession(s, t) /\ t.since_recv = 0 /\ t.decode_buf = d
        /\ t.recv_staging = s.recv_staging /\ t.inflating = s.inflating
    <3>1. d \in Seq(Octets)
      BY <1>0, <2>1, ConcatProperties
    <3>2. t = Reading(s, d, s.recv_staging) /\ s.recv_staging \in Seq(Packets)
      BY <2>1, Zenon DEF Reading, Sessions
    <3> HIDE DEF d
    <3> QED
      BY <3>1, <3>2, ReadingIs
  <2>3. Buffered(t) = t.decode_buf
    BY <1>0, <2>2, NothingStaged, SMTT(60)
  <2> QED
    BY <1>0, <2>1, <2>2, <2>3 DEF Tidy
<1> QED
  BY <1>1, <1>2

----------------------------------------------------------------------------
(* What each method of the session changes. *)

\* Nothing on the receiving side.
Kept(s, t) ==
    /\ t.requested = s.requested /\ t.next_expected_sequence = s.next_expected_sequence
    /\ t.decode_buf = s.decode_buf /\ t.recv_staging = s.recv_staging
    /\ t.inflating = s.inflating /\ (t.capped <=> s.capped)

Sent(s, st, o, ss, ll) ==
    [s EXCEPT !.state = st, !.out = o, !.since_send = ss, !.login_left = ll]

LEMMA SentIs ==
    ASSUME NEW s \in Sessions, NEW st \in States, NEW o \in Seq(Octets), NEW ss \in Nat,
           NEW ll \in Nat
    PROVE  /\ Sent(s, st, o, ss, ll) \in Sessions /\ Kept(s, Sent(s, st, o, ss, ll))
           /\ Sent(s, st, o, ss, ll).state = st /\ Sent(s, st, o, ss, ll).out = o
           /\ Sent(s, st, o, ss, ll).since_recv = s.since_recv
BY Zenon DEF Sent, Sessions, Kept

LEMMA QueueIs ==
    ASSUME NEW s \in Sessions, NEW p \in Packets, NEW t, t = queue(s, p)
    PROVE  /\ t \in Sessions /\ Kept(s, t) /\ t.state = s.state /\ t.since_recv = s.since_recv
           /\ t.out = s.out \o Bytes(p)
<1> DEFINE o == s.out \o Bytes(p)
<1>1. o \in Seq(Octets)
  BY BytesIs, ConcatProperties DEF Sessions
<1>2. t = [s EXCEPT !.out = o]
  BY DEF queue
<1> HIDE DEF o
<1>3. t = Sent(s, s.state, o, s.since_send, s.login_left)
  BY <1>2, Zenon DEF Sent, Sessions
<1>4. s.state \in States /\ s.since_send \in Nat /\ s.login_left \in Nat
  BY DEF Sessions
<1>5. /\ t \in Sessions /\ Kept(s, t) /\ t.state = s.state /\ t.since_recv = s.since_recv
      /\ t.out = o
  BY <1>1, <1>3, <1>4, SentIs, SMTT(30)
<1> QED
  BY <1>5 DEF o

\* The two ends of a session that drop what was queued.
LEMMA TimedOutIs ==
    ASSUME NEW s \in Sessions, NEW t, t = heartbeat_timed_out(s) \/ t = login_timed_out(s)
    PROVE  /\ t \in Sessions /\ Kept(s, t) /\ t.state = "Closed" /\ t.since_recv = s.since_recv
           /\ t.out = <<>>
<1> DEFINE o == <<>>
<1>1. o \in Seq(Octets)
  OBVIOUS
<1>2. t = [s EXCEPT !.state = "Closed", !.out = o]
  BY DEF heartbeat_timed_out, login_timed_out
<1> HIDE DEF o
<1>3. t = Sent(s, "Closed", o, s.since_send, s.login_left)
  BY <1>2, Zenon DEF Sent, Sessions
<1>4. "Closed" \in States /\ s.since_send \in Nat /\ s.login_left \in Nat
  BY DEF Sessions, States
<1>5. /\ t \in Sessions /\ Kept(s, t) /\ t.state = "Closed" /\ t.since_recv = s.since_recv
      /\ t.out = o
  BY <1>1, <1>3, <1>4, SentIs, SMTT(30)
<1> QED
  BY <1>5 DEF o

LEMMA CloseLogoutIs ==
    ASSUME NEW s \in Sessions, NEW t, t = close_logout(s)
    PROVE  /\ t \in Sessions /\ Kept(s, t) /\ t.state = "Closed" /\ t.since_recv = s.since_recv
           /\ t.out = s.out
<1>1. t = Sent(s, "Closed", s.out, s.since_send, s.login_left)
  BY Zenon DEF Sent, Sessions, close_logout
<1>2. /\ "Closed" \in States /\ s.since_send \in Nat /\ s.login_left \in Nat
      /\ s.out \in Seq(Octets)
  BY DEF Sessions, States
<1> QED
  BY <1>1, <1>2, SentIs, SMTT(30)

LEMMA SentAllIs ==
    ASSUME NEW s \in Sessions, NEW t, t = sent_all(s)
    PROVE  /\ t \in Sessions /\ Kept(s, t) /\ t.state = s.state /\ t.since_recv = s.since_recv
           /\ t.out = <<>>
<1> DEFINE o == <<>>
<1>1. o \in Seq(Octets)
  OBVIOUS
<1>2. t = [s EXCEPT !.out = o, !.since_send = 0]
  BY DEF sent_all
<1> HIDE DEF o
<1>3. t = Sent(s, s.state, o, 0, s.login_left)
  BY <1>2, Zenon DEF Sent, Sessions
<1>4. s.state \in States /\ s.login_left \in Nat /\ 0 \in Nat
  BY DEF Sessions
<1>5. /\ t \in Sessions /\ Kept(s, t) /\ t.state = s.state /\ t.since_recv = s.since_recv
      /\ t.out = o
  BY <1>1, <1>3, <1>4, SentIs
<1> QED
  BY <1>5 DEF o

LEMMA FlushIs ==
    ASSUME NEW s \in Sessions, NEW n \in 0 .. Len(s.out), NEW t, t = flush(s, n)
    PROVE  /\ t \in Sessions /\ Kept(s, t) /\ t.state = s.state /\ t.since_recv = s.since_recv
           /\ t.out = SubSeq(s.out, n + 1, Len(s.out))
<1> DEFINE o == SubSeq(s.out, n + 1, Len(s.out))
           ss == IF n > 0 /\ n = Len(s.out) THEN 0 ELSE s.since_send
<1>1. o \in Seq(Octets) /\ ss \in Nat
  <2>1. s.out \in Seq(Octets) /\ s.since_send \in Nat
    BY DEF Sessions
  <2> QED
    BY <2>1, Split
<1>2. t = [s EXCEPT !.out = o, !.since_send = ss]
  BY DEF flush, Sessions
<1> HIDE DEF o, ss
<1>3. /\ t \in Sessions /\ Kept(s, t) /\ t.state = s.state /\ t.since_recv = s.since_recv
      /\ t.out = o
  BY <1>1, <1>2, Zenon DEF Sessions, Kept
<1> QED
  BY <1>3 DEF o

LEMMA AgedIs ==
    ASSUME NEW s \in Sessions, NEW t, t = aged(s)
    PROVE  /\ t \in Sessions /\ Kept(s, t) /\ t.state = s.state /\ t.out = s.out
           /\ t.since_recv = IF s.since_recv + 1 <= HeartbeatTimeout + 1
                             THEN s.since_recv + 1 ELSE HeartbeatTimeout + 1
<1> DEFINE ss == Min({s.since_send + 1, HeartbeatInterval + 1})
           sr == Min({s.since_recv + 1, HeartbeatTimeout + 1})
           ll == Max({s.login_left - 1, 0})
<1>1. /\ s.since_send \in Nat /\ s.since_recv \in Nat /\ s.login_left \in Nat
      /\ HeartbeatInterval \in Nat /\ HeartbeatTimeout \in Nat
  BY SessionAssumption DEF Sessions
<1>2. /\ ss \in Nat /\ ll \in Nat /\ sr \in Nat
      /\ sr = IF s.since_recv + 1 <= HeartbeatTimeout + 1
              THEN s.since_recv + 1 ELSE HeartbeatTimeout + 1
  BY <1>1, MinIs, MaxIs
<1>3. t = [s EXCEPT !.since_send = ss, !.since_recv = sr, !.login_left = ll]
  BY DEF aged, Sessions
<1> HIDE DEF ss, sr, ll
<1>4. t \in Sessions /\ Kept(s, t) /\ t.state = s.state /\ t.out = s.out /\ t.since_recv = sr
  BY <1>2, <1>3, Zenon DEF Sessions, Kept
<1> QED
  BY <1>2, <1>4

\* Taking a packet off the front of the buffer leaves what the inflater has alone.
Taken(s, t) ==
    /\ t.requested = s.requested
    /\ t.decode_buf = SubSeq(s.decode_buf, 3, Len(s.decode_buf))
    /\ t.recv_staging = s.recv_staging /\ t.inflating = s.inflating /\ (t.capped <=> s.capped)

LEMMA TakeIs ==
    ASSUME NEW s \in Sessions, has_packet(s), NEW t, t = take_packet(s)
    PROVE  /\ t \in Sessions /\ Taken(s, t) /\ t.state = s.state /\ t.out = s.out
           /\ t.next_expected_sequence = s.next_expected_sequence
           /\ t.since_recv = s.since_recv
<1> DEFINE d == SubSeq(s.decode_buf, 3, Len(s.decode_buf))
<1>1. d \in Seq(Octets)
  <2>1. s.decode_buf \in Seq(Octets)
    BY DEF Sessions
  <2>2. 2 \in 0 .. Len(s.decode_buf)
    BY <2>1 DEF has_packet
  <2> QED
    BY <2>1, <2>2, Split
<1>2. t = [s EXCEPT !.decode_buf = d]
  BY DEF take_packet
<1> HIDE DEF d
<1>3. /\ t \in Sessions /\ t.requested = s.requested /\ t.decode_buf = d
      /\ t.recv_staging = s.recv_staging /\ t.inflating = s.inflating
      /\ (t.capped <=> s.capped) /\ t.state = s.state /\ t.out = s.out
      /\ t.next_expected_sequence = s.next_expected_sequence
      /\ t.since_recv = s.since_recv
  BY <1>1, <1>2, Zenon DEF Sessions
<1> QED
  BY <1>3 DEF Taken, d

LEMMA SkipIs ==
    ASSUME NEW s \in Sessions, has_packet(s), NEW t, t = skip_packet(s)
    PROVE  /\ t \in Sessions /\ Taken(s, t) /\ t.state = s.state /\ t.out = s.out
           /\ t.next_expected_sequence = s.next_expected_sequence
           /\ t.since_recv = s.since_recv
BY TakeIs DEF skip_packet

LEMMA RejectedIs ==
    ASSUME NEW s \in Sessions, has_packet(s), NEW t, t = login_rejected(s)
    PROVE  /\ t \in Sessions /\ Taken(s, t) /\ t.state = "Closed" /\ t.out = s.out
           /\ t.next_expected_sequence = s.next_expected_sequence
           /\ t.since_recv = s.since_recv
<1> DEFINE r == take_packet(s)
<1>1. /\ r \in Sessions /\ Taken(s, r) /\ r.out = s.out
      /\ r.next_expected_sequence = s.next_expected_sequence /\ r.since_recv = s.since_recv
  BY TakeIs
<1>2. t = [r EXCEPT !.state = "Closed"]
  BY DEF login_rejected
<1> HIDE DEF r
<1>3. /\ t \in Sessions /\ t.requested = r.requested /\ t.decode_buf = r.decode_buf
      /\ t.recv_staging = r.recv_staging /\ t.inflating = r.inflating
      /\ (t.capped <=> r.capped) /\ t.state = "Closed" /\ t.out = r.out
      /\ t.next_expected_sequence = r.next_expected_sequence
      /\ t.since_recv = r.since_recv
  BY <1>1, <1>2, Zenon DEF Sessions, States
<1> QED
  BY <1>1, <1>3 DEF Taken

LEMMA AcceptedIs ==
    ASSUME NEW s \in Sessions, has_packet(s), NEW val \in Nat, front(s).val = val,
           NEW t, t = login_accepted(s)
    PROVE  /\ t \in Sessions /\ Taken(s, t) /\ t.state = "Streaming" /\ t.out = s.out
           /\ t.next_expected_sequence = val /\ t.since_recv = 0
<1> DEFINE r == take_packet(s)
           z == 0
<1>1. r \in Sessions /\ Taken(s, r) /\ r.out = s.out
  BY TakeIs
<1>2. /\ t = [r EXCEPT !.state = "Streaming", !.since_recv = z, !.next_expected_sequence = val]
      /\ z \in Nat
  BY DEF login_accepted
<1> HIDE DEF r, z
<1>3. /\ t \in Sessions /\ t.requested = r.requested /\ t.decode_buf = r.decode_buf
      /\ t.recv_staging = r.recv_staging /\ t.inflating = r.inflating
      /\ (t.capped <=> r.capped) /\ t.state = "Streaming" /\ t.out = r.out
      /\ t.next_expected_sequence = val /\ t.since_recv = z
  BY <1>1, <1>2, Zenon DEF Sessions, States
<1> QED
  BY <1>1, <1>3 DEF Taken, z

LEMMA SequencedIs ==
    ASSUME NEW s \in Sessions, has_packet(s), NEW t, t = sequenced_data(s)
    PROVE  /\ t \in Sessions /\ Taken(s, t) /\ t.state = s.state /\ t.out = s.out
           /\ t.next_expected_sequence = s.next_expected_sequence + 1
           /\ t.since_recv = s.since_recv
<1> DEFINE r == take_packet(s)
           n == r.next_expected_sequence + 1
<1>1. /\ r \in Sessions /\ Taken(s, r) /\ r.out = s.out /\ r.state = s.state
      /\ r.next_expected_sequence = s.next_expected_sequence /\ r.since_recv = s.since_recv
  BY TakeIs
<1>2. t = [r EXCEPT !.next_expected_sequence = n] /\ n \in Nat
  BY <1>1, SMTT(30) DEF sequenced_data, Sessions
<1> HIDE DEF r, n
<1>3. /\ t \in Sessions /\ t.requested = r.requested /\ t.decode_buf = r.decode_buf
      /\ t.recv_staging = r.recv_staging /\ t.inflating = r.inflating
      /\ (t.capped <=> r.capped) /\ t.state = r.state /\ t.out = r.out
      /\ t.next_expected_sequence = n
      /\ t.since_recv = r.since_recv
  BY <1>1, <1>2, Zenon DEF Sessions
<1> QED
  BY <1>1, <1>3 DEF Taken, n

LEMMA EndedIs ==
    ASSUME NEW s \in Sessions, has_packet(s), NEW t, t = end_of_session(s)
    PROVE  /\ t \in Sessions /\ Taken(s, t) /\ t.state = "Closed" /\ t.out = <<>>
           /\ t.next_expected_sequence = s.next_expected_sequence
           /\ t.since_recv = s.since_recv
<1> DEFINE r == take_packet(s)
           e == <<>>
<1>1. /\ r \in Sessions /\ Taken(s, r)
      /\ r.next_expected_sequence = s.next_expected_sequence /\ r.since_recv = s.since_recv
  BY TakeIs
<1>2. t = [r EXCEPT !.state = "Closed", !.out = e] /\ e \in Seq(Octets)
  BY DEF end_of_session
<1> HIDE DEF r, e
<1>3. /\ t \in Sessions /\ t.requested = r.requested /\ t.decode_buf = r.decode_buf
      /\ t.recv_staging = r.recv_staging /\ t.inflating = r.inflating
      /\ (t.capped <=> r.capped) /\ t.state = "Closed" /\ t.out = e
      /\ t.next_expected_sequence = r.next_expected_sequence
      /\ t.since_recv = r.since_recv
  BY <1>1, <1>2, Zenon DEF Sessions, States
<1> QED
  BY <1>1, <1>3 DEF Taken, e

\* A new session, before its login is queued.
LEMMA NewIs ==
    ASSUME NEW requested \in Nat, NEW t, t = new(requested)
    PROVE  /\ t \in Sessions /\ t.state = "Authenticating" /\ t.requested = requested
           /\ t.decode_buf = <<>> /\ t.recv_staging = <<>> /\ t.inflating = <<>> /\ ~t.capped
           /\ t.out = <<>> /\ t.next_expected_sequence = 0 /\ t.since_recv = 0
           /\ Tidy(t) /\ Buffered(t) = <<>>
<1> DEFINE e == <<>>
<1>1. e \in Seq(Octets) /\ e \in Seq(Packets) /\ "Authenticating" \in States
  BY DEF States
<1>2. t = [state |-> "Authenticating", requested |-> requested,
           decode_buf |-> e, out |-> e, next_expected_sequence |-> 0,
           since_send |-> 0, since_recv |-> 0, login_left |-> 0,
           recv_staging |-> e, inflating |-> e, capped |-> FALSE]
  BY DEF new
<1> HIDE DEF e
<1>3. /\ t \in Sessions /\ t.state = "Authenticating" /\ t.requested = requested
      /\ t.decode_buf = e /\ t.recv_staging = e /\ t.inflating = e /\ ~t.capped
      /\ t.out = e /\ t.next_expected_sequence = 0 /\ t.since_recv = 0
  BY <1>1, <1>2 DEF Sessions
<1>4. Tidy(t) /\ Buffered(t) = <<>>
  BY <1>3, NoneFlat DEF Tidy, Buffered, e
<1> QED
  BY <1>3, <1>4 DEF e

----------------------------------------------------------------------------
(* What a step may do to the receiving side. *)

ServerTypes ==
    [answered : BOOLEAN, streaming : BOOLEAN, next : Nat, noisy : BOOLEAN, connects : Nat]

ClientType ==
    /\ variant \in [driver : {"sync", "managed", "manual"}, compressed : BOOLEAN]
    /\ session \in Sessions /\ Tidy(session)
    /\ pc = "parked" => IsSync
    /\ pc = "wait" => ~IsSync
    /\ after \in {"idle", "dispatch", "logout"}
    /\ net \in Seq(Units(variant)) /\ peer \in {"open", "closed"}
    /\ server \in ServerTypes
    /\ silence \in Nat /\ queued \in Seq(Packets)

outside == <<variant, net, peer, server, silence>>

\* Nobody starts to wait unless there is nothing to work on.
Waits ==
    /\ pc' = "parked" => /\ IsSync
                         /\ \/ pc = "parked" /\ edge' = edge
                            \/ Starved /\ ~staged(session) /\ ~Readable
    /\ pc' = "wait" => ~IsSync /\ (pc = "wait" \/ (Starved /\ ~staged(session)))

\* A session closes of itself only for silence.
ClosesFor ==
    session.state = "Streaming" /\ session'.state = "Closed" /\ pc \in {"dispatch", "wait"}
        => silent(session) /\ ~Readable

\* Nothing is received.
Unmoved ==
    /\ session' \in Sessions /\ Kept(session, session')
    /\ session'.since_recv = session.since_recv
    /\ session'.state = session.state \/ session'.state = "Closed"
    /\ Waits /\ ClosesFor
    /\ (pc' = "down" <=> pc = "down")
    /\ UNCHANGED <<outside, history>>

\* connect failed and took the client with it.
Dropped ==
    /\ session' = new(session.requested) /\ pc' = "down" /\ session.state = "Authenticating"
    /\ UNCHANGED <<outside, history>>

\* A packet is dispatched.
Dispatched ==
    /\ pc = "dispatch" /\ has_packet(session)
    /\ session' \in Sessions /\ Taken(session, session')
    /\ pc' \in {"idle", "dispatch"}
    /\ UNCHANGED outside

DispatchedLogin ==
    /\ Dispatched /\ session.state = "Authenticating"
    /\ front(session).ty = "LoginAccepted"
    /\ session'.state = "Streaming" /\ session'.since_recv = 0
    /\ session'.next_expected_sequence = front(session).val
    /\ UNCHANGED history

DispatchedData ==
    /\ Dispatched /\ session.state = "Streaming"
    /\ front(session).ty = "SequencedData"
    /\ session'.state = "Streaming" /\ session'.since_recv = session.since_recv
    /\ session'.next_expected_sequence = session.next_expected_sequence + 1
    /\ delivered' = Append(delivered, front(session).val)
    /\ numbers' = Append(numbers, session.next_expected_sequence)

DispatchedOther ==
    /\ Dispatched
    /\ \/ session.state = "Authenticating" /\ front(session).ty # "LoginAccepted"
       \/ session.state = "Streaming" /\ front(session).ty # "SequencedData"
    /\ session'.state = session.state \/ session'.state = "Closed"
    /\ session'.since_recv = session.since_recv
    /\ session'.next_expected_sequence = session.next_expected_sequence
    /\ UNCHANGED history

\* Bytes move into the session, from its inflater or from the socket.
Moved ==
    /\ session' \in Sessions /\ Tidy(session') /\ SameSession(session, session')
    /\ pc # "down" /\ pc' = "dispatch"
    /\ UNCHANGED <<variant, peer, server, silence, history>>
    /\ \/ /\ net' = net /\ session'.since_recv = session.since_recv
          /\ Buffered(session') = Buffered(session)
       \/ \E n \in 0 .. Len(net) :
             /\ net' = SubSeq(net, n + 1, Len(net)) /\ session'.since_recv = 0
             /\ Buffered(session') = Buffered(session) \o Unpacked(SubSeq(net, 1, n), variant)

\* A new connection.
Connected ==
    /\ session' \in Sessions /\ session'.state = "Authenticating" /\ session'.requested = Resume
    /\ Tidy(session') /\ Buffered(session') = <<>>
    /\ session'.next_expected_sequence = 0 /\ session'.since_recv = 0
    /\ pc' \in {"idle", "write"}
    /\ net' = <<>> /\ peer' = "open"
    /\ server' = [answered |-> FALSE, streaming |-> FALSE, next |-> 0, noisy |-> FALSE,
                  connects |-> server.connects + 1]
    /\ silence' = 0
    /\ UNCHANGED <<variant, history>>

\* A packet of the server's arrives.
Arrived(packet) ==
    /\ Live /\ packet \in Packets
    /\ net' = net \o Encoded(packet) /\ Encoded(packet) \in Seq(Units(variant))
    /\ Encoded(packet) # <<>>
    /\ edge' = IsSync /\ silence' = 0
    /\ UNCHANGED <<variant, session, pc, peer, history>>

\* The call fails: connect takes the client with it, any other leaves the session s.
LEMMA FailsIs ==
    ASSUME ClientType, NEW s, Fails(s),
           UNCHANGED <<outside, history>>,
           s \in Sessions, Kept(session, s), s.since_recv = session.since_recv,
           s.state = session.state \/ (s.state = "Closed" /\ session.state # "Streaming"),
           pc # "down"
    PROVE  Unmoved \/ Dropped
<1>1. CASE ~IsSync /\ session.state = "Authenticating"
  BY <1>1 DEF Fails, Dropped
<1>2. CASE ~(~IsSync /\ session.state = "Authenticating")
  <2>1. session' = s /\ pc' = "idle"
    BY <1>2 DEF Fails
  <2>2. Waits /\ ClosesFor
    BY <2>1 DEF Waits, ClosesFor
  <2> QED
    BY <2>1, <2>2 DEF Unmoved
<1> QED
  BY <1>1, <1>2

LEMMA KeptSame ==
    ASSUME NEW s
    PROVE  Kept(s, s)
BY DEF Kept

LEMMA KeptTwice ==
    ASSUME NEW s, NEW t, NEW u, Kept(s, t), Kept(t, u)
    PROVE  Kept(s, u)
BY DEF Kept

LEMMA HeartbeatIsPacket ==
    /\ ClientHeartbeat \in Packets /\ LogoutRequest \in Packets
    /\ \A n \in Nat : UnsequencedData(n) \in Packets /\ LoginRequest(n) \in Packets
<1>1. {"ClientHeartbeat", "LogoutRequest", "UnsequencedData", "LoginRequest"} \subseteq PacketTypes
  BY DEF PacketTypes
<1> QED
  BY <1>1 DEF ClientHeartbeat, LogoutRequest, UnsequencedData, LoginRequest, Packet, Packets

\* poll flushes, and a due heartbeat goes out before anything is received.
LEMMA PollIs ==
    ASSUME ClientType, NEW n \in 0 .. Len(session.out), NEW m \in 0 .. 2, Poll(n, m)
    PROVE  Unmoved
<1> DEFINE s == flush(session, n)
           beat == queue_heartbeat(s)
<1>1. /\ s \in Sessions /\ Kept(session, s) /\ s.state = session.state
      /\ s.since_recv = session.since_recv
  BY FlushIs DEF ClientType
<1> HIDE DEF s
<1>2. beat \in Sessions /\ Kept(s, beat) /\ beat.state = s.state /\ beat.since_recv = s.since_recv
  BY <1>1, QueueIs, HeartbeatIsPacket DEF queue_heartbeat
<1> HIDE DEF beat
<1>3. ASSUME session' = flush(beat, m), m <= Len(beat.out)
      PROVE  /\ session' \in Sessions /\ Kept(beat, session') /\ session'.state = beat.state
             /\ session'.since_recv = beat.since_recv
  <2>1. m \in 0 .. Len(beat.out)
    BY <1>2, <1>3 DEF Sessions
  <2> QED
    BY <2>1, <1>2, <1>3, FlushIs
<1>4. \/ session' = s
      \/ session' = flush(beat, m) /\ m <= Len(beat.out)
  BY DEF Poll, s, beat
<1>5. /\ session' \in Sessions /\ Kept(session, session') /\ session'.state = session.state
      /\ session'.since_recv = session.since_recv
  BY <1>1, <1>2, <1>3, <1>4, KeptTwice
<1>6. UNCHANGED <<outside, history>> /\ pc # "down" /\ pc' \in {"idle", "dispatch"}
  BY DEF Poll, outside, Callable
<1>7. Waits /\ ClosesFor
  BY <1>5, <1>6 DEF Waits, ClosesFor
<1> QED
  BY <1>5, <1>6, <1>7 DEF Unmoved

LEMMA PollFailsIs ==
    ASSUME ClientType, PollFails
    PROVE  Unmoved
<1>1. session' = session \/ session' = queue(session, ClientHeartbeat)
  BY DEF PollFails, queue_heartbeat
<1>2. /\ session' \in Sessions /\ Kept(session, session') /\ session'.state = session.state
      /\ session'.since_recv = session.since_recv
  BY <1>1, QueueIs, KeptSame, HeartbeatIsPacket, Zenon DEF ClientType
<1>3. UNCHANGED <<outside, history>> /\ pc # "down" /\ pc' = "idle"
  BY DEF PollFails, outside, Callable
<1>4. Waits /\ ClosesFor
  BY <1>2, <1>3 DEF Waits, ClosesFor
<1> QED
  BY <1>2, <1>3, <1>4 DEF Unmoved

LEMMA UnsequencedIs ==
    ASSUME ClientType
    PROVE  Unsequenced \in Nat
<1>1. queued \in Seq(Packets) /\ DOMAIN queued = 1 .. Len(queued) /\ Len(queued) \in Nat
  BY DEF ClientType
<1>2. IsFiniteSet(1 .. Len(queued))
  BY <1>1, FS_Interval
<1> QED
  BY <1>1, <1>2, FS_Subset, FS_CardinalityType DEF Unsequenced

\* A packet is queued by the caller.
LEMMA QueuedIs ==
    ASSUME ClientType, NEW packet \in Packets,
           \/ session' = queue(session, packet)
           \/ session' = close_logout(queue(session, packet)) /\ pc # "dispatch" /\ pc # "wait",
           UNCHANGED <<outside, history>>, pc # "down", pc' # "down", Waits
    PROVE  Unmoved
<1> DEFINE s == queue(session, packet)
<1>1. s \in Sessions /\ Kept(session, s) /\ s.state = session.state /\ s.since_recv = session.since_recv
  BY QueueIs DEF ClientType
<1> HIDE DEF s
<1>2. /\ session' \in Sessions /\ Kept(session, session')
      /\ session'.since_recv = session.since_recv
      /\ \/ session'.state = session.state
         \/ session'.state = "Closed" /\ pc # "dispatch" /\ pc # "wait"
  <2>1. CASE session' = s
    BY <1>1, <2>1
  <2>2. CASE session' = close_logout(s) /\ pc # "dispatch" /\ pc # "wait"
    <3>1. /\ session' \in Sessions /\ Kept(s, session') /\ session'.state = "Closed"
          /\ session'.since_recv = s.since_recv
      BY <1>1, <2>2, CloseLogoutIs
    <3> QED
      BY <1>1, <2>2, <3>1, KeptTwice
  <2> QED
    BY <2>1, <2>2 DEF s
<1>3. ClosesFor
  BY <1>2 DEF ClosesFor
<1> QED
  BY <1>2, <1>3 DEF Unmoved

LEMMA QueuesIs ==
    ASSUME ClientType, queue_unsequenced \/ queue_logout \/ send_unsequenced \/ logout
    PROVE  Unmoved
<1>1. ASSUME queue_unsequenced \/ queue_logout
      PROVE  UNCHANGED <<outside, history, pc, edge>> /\ pc' # "down" /\ pc \in {"idle", "parked"}
  BY <1>1 DEF queue_unsequenced, queue_logout, outside, stream
<1>2. ASSUME send_unsequenced \/ logout
      PROVE  UNCHANGED <<outside, history>> /\ pc = "idle" /\ pc' = "write"
  BY <1>2 DEF send_unsequenced, logout, outside, stream, BeginWrite
<1>3. Waits /\ pc # "down" /\ pc' # "down" /\ UNCHANGED <<outside, history>>
  BY <1>1, <1>2 DEF Waits, ClientType
<1>4. UnsequencedData(Unsequenced + 1) \in Packets /\ LogoutRequest \in Packets
  BY UnsequencedIs, HeartbeatIsPacket
<1>5. \/ session' = queue(session, UnsequencedData(Unsequenced + 1))
      \/ session' = queue(session, LogoutRequest)
      \/ session' = close_logout(queue(session, LogoutRequest)) /\ pc # "dispatch" /\ pc # "wait"
  BY <1>1 DEF queue_unsequenced, queue_logout, send_unsequenced, logout, BeginWrite
<1> QED
  BY <1>3, <1>4, <1>5, QueuedIs

\* send_all goes on, and its end clears the buffer.
LEMMA WriteOutIs ==
    ASSUME ClientType, NEW n, WriteOut(n)
    PROVE  Unmoved
<1> DEFINE s == sent_all(session)
<1>1. s \in Sessions /\ Kept(session, s) /\ s.state = session.state /\ s.since_recv = session.since_recv
  BY SentAllIs DEF ClientType
<1> HIDE DEF s
<1>2. session' = session \/ session' = s \/ session' = close_logout(s)
  BY DEF WriteOut, s
<1>3. /\ session' \in Sessions /\ Kept(session, session')
      /\ session'.since_recv = session.since_recv
      /\ session'.state = session.state \/ session'.state = "Closed"
  <2>1. CASE session' = session
    BY <2>1, KeptSame DEF ClientType
  <2>2. CASE session' = s
    BY <1>1, <2>2
  <2>3. CASE session' = close_logout(s)
    <3>1. /\ session' \in Sessions /\ Kept(s, session') /\ session'.state = "Closed"
          /\ session'.since_recv = s.since_recv
      BY <1>1, <2>3, CloseLogoutIs
    <3> QED
      BY <1>1, <3>1, KeptTwice
  <2> QED
    BY <1>2, <2>1, <2>2, <2>3
<1>4. UNCHANGED <<outside, history>> /\ pc = "write" /\ pc' \in {"write", "idle", "dispatch"}
  BY DEF WriteOut, outside, stream, ClientType
<1>5. Waits /\ ClosesFor
  BY <1>4 DEF Waits, ClosesFor
<1> QED
  BY <1>3, <1>4, <1>5 DEF Unmoved

\* Calls that fail.
LEMMA FailuresIs ==
    ASSUME ClientType, WriteFails \/ Unreadable \/ PeerClosed \/ LoginTimesOut \/ Cancel
    PROVE  Unmoved \/ Dropped
<1>1. UNCHANGED <<outside, history>> /\ pc # "down"
  BY DEF WriteFails, Unreadable, PeerClosed, LoginTimesOut, Cancel, Starved, outside, stream
<1>2. \/ Fails(session)
      \/ Fails(login_timed_out(session)) /\ session.state = "Authenticating"
  BY DEF WriteFails, Unreadable, PeerClosed, LoginTimesOut, Cancel
<1>3. CASE Fails(session)
  BY <1>1, <1>3, FailsIs, KeptSame DEF ClientType
<1>4. CASE Fails(login_timed_out(session)) /\ session.state = "Authenticating"
  <2> DEFINE s == login_timed_out(session)
  <2>1. s \in Sessions /\ Kept(session, s) /\ s.state = "Closed" /\ s.since_recv = session.since_recv
    BY TimedOutIs DEF ClientType
  <2> HIDE DEF s
  <2>2. Fails(s) /\ session.state = "Authenticating"
    BY <1>4 DEF s
  <2> QED
    BY <1>1, <2>1, <2>2, FailsIs
<1> QED
  BY <1>2, <1>3, <1>4

\* The session ends for silence, or nothing changes but where the caller is.
LEMMA ChecksIs ==
    ASSUME ClientType, tick_heartbeat \/ DeadlineWins \/ Drained \/ Recv \/ AwaitMoreBytes
    PROVE  Unmoved
<1>1. UNCHANGED <<outside, history>> /\ pc # "down" /\ pc' # "down"
  BY DEF tick_heartbeat, DeadlineWins, Drained, Recv, AwaitMoreBytes, HeartbeatCheck, BeginWrite,
         Starved, outside, stream
<1>2. \/ session' = session
      \/ session' = queue(session, ClientHeartbeat)
      \/ session' = login_timed_out(session) /\ session.state # "Streaming"
      \/ session' = heartbeat_timed_out(session)
         /\ (pc \in {"dispatch", "wait"} => silent(session) /\ ~Readable)
  <2>1. CASE tick_heartbeat
    BY <2>1 DEF tick_heartbeat, HeartbeatCheck, BeginWrite, queue_heartbeat
  <2>2. CASE DeadlineWins
    BY <2>2 DEF DeadlineWins, HeartbeatCheck, BeginWrite, queue_heartbeat
  <2>3. CASE Drained
    BY <2>3 DEF Drained, Readable
  <2>4. CASE Recv \/ AwaitMoreBytes
    BY <2>4 DEF Recv, AwaitMoreBytes
  <2> QED
    BY <2>1, <2>2, <2>3, <2>4
<1>3. /\ session' \in Sessions /\ Kept(session, session')
      /\ session'.since_recv = session.since_recv
      /\ session'.state = session.state \/ session'.state = "Closed"
      /\ \/ session'.state = session.state
         \/ session.state # "Streaming"
         \/ pc \in {"dispatch", "wait"} => silent(session) /\ ~Readable
  <2>1. CASE session' = session
    BY <2>1, KeptSame DEF ClientType
  <2>2. CASE session' = queue(session, ClientHeartbeat)
    BY <2>2, QueueIs, HeartbeatIsPacket, Zenon DEF ClientType
  <2>3. CASE session' = login_timed_out(session) /\ session.state # "Streaming"
    BY <2>3, TimedOutIs DEF ClientType
  <2>4. CASE session' = heartbeat_timed_out(session)
             /\ (pc \in {"dispatch", "wait"} => silent(session) /\ ~Readable)
    BY <2>4, TimedOutIs DEF ClientType
  <2> QED
    BY <1>2, <2>1, <2>2, <2>3, <2>4
<1>4. ClosesFor
  BY <1>3 DEF ClosesFor
<1>5. Waits
  <2>1. CASE tick_heartbeat \/ DeadlineWins \/ Recv
    BY <2>1 DEF tick_heartbeat, DeadlineWins, Recv, HeartbeatCheck, BeginWrite, Waits
  <2>2. CASE Drained
    BY <2>2 DEF Drained, Waits, Readable
  <2>3. CASE AwaitMoreBytes
    BY <2>3 DEF AwaitMoreBytes, Waits
  <2> QED
    BY <2>1, <2>2, <2>3
<1> QED
  BY <1>1, <1>3, <1>4, <1>5 DEF Unmoved

\* Bytes move from the inflater, or from the socket.
LEMMA InflateIs ==
    ASSUME ClientType, Inflate
    PROVE  Moved
<1>1. /\ session' = feed(session) /\ pc # "down" /\ pc' = "dispatch"
      /\ UNCHANGED <<outside, history>>
  BY DEF Inflate, Starved, outside, stream
<1>2. /\ session' \in Sessions /\ Tidy(session') /\ SameSession(session, session')
      /\ session'.since_recv = session.since_recv /\ Buffered(session') = Buffered(session)
  BY <1>1, FeedIs DEF ClientType
<1> QED
  BY <1>1, <1>2 DEF Moved, outside

LEMMA LandsIs ==
    ASSUME ClientType, NEW n \in 1 .. Len(net), Land(n)
    PROVE  Moved
<1>0. net \in Seq(Units(variant)) /\ Len(net) \in Nat /\ session \in Sessions /\ Tidy(session)
  BY DEF ClientType
<1>1. n \in 0 .. Len(net)
  BY <1>0
<1> DEFINE units == SubSeq(net, 1, n)
<1>2. units \in Seq(Units(variant))
  BY <1>0, <1>1, Split
<1>3. /\ session' = land(session, units, variant.compressed) /\ pc # "down" /\ pc' = "dispatch"
      /\ net' = SubSeq(net, n + 1, Len(net)) /\ ~staged(session)
      /\ UNCHANGED <<variant, peer, server, silence, history>>
  BY DEF Land, Starved
<1> HIDE DEF units
<1>4. /\ session' \in Sessions /\ Tidy(session') /\ SameSession(session, session')
      /\ session'.since_recv = 0
      /\ Buffered(session') = Buffered(session) \o Unpacked(units, variant)
  BY <1>0, <1>2, <1>3, LandIs, SMTT(30)
<1>5. \E m \in 0 .. Len(net) :
          /\ net' = SubSeq(net, m + 1, Len(net)) /\ session'.since_recv = 0
          /\ Buffered(session') = Buffered(session) \o Unpacked(SubSeq(net, 1, m), variant)
  BY <1>1, <1>3, <1>4, SMTT(30) DEF units
<1> QED
  BY <1>3, <1>4, <1>5, Zenon DEF Moved

\* The packet at the front of the buffer.
LEMMA FrontIs ==
    ASSUME NEW s \in Sessions, has_packet(s)
    PROVE  front(s) \in Packets /\ front(s).val \in Nat
<1>1. s.decode_buf \in Seq(Octets) /\ Len(s.decode_buf) >= 2
  BY DEF Sessions, has_packet
<1>2. Head(s.decode_buf) \in Octets
  BY <1>1
<1> QED
  BY <1>2 DEF Octets, Packets, front

LEMMA DispatchLoginIs ==
    ASSUME ClientType, dispatch_login
    PROVE  DispatchedLogin \/ DispatchedOther \/ Dropped
<1> DEFINE ty == front(session).ty
<1>1. /\ session \in Sessions /\ has_packet(session) /\ pc = "dispatch"
      /\ session.state = "Authenticating" /\ UNCHANGED <<outside, history>>
  BY DEF dispatch_login, Dispatching, ClientType, outside, stream
<1>2. \/ ty = "LoginAccepted" /\ session' = login_accepted(session) /\ pc' = "idle"
      \/ ty # "LoginAccepted" /\ session' = skip_packet(session) /\ pc' \in {"idle", "dispatch"}
      \/ ty # "LoginAccepted" /\ session' = login_rejected(session) /\ pc' = "idle"
      \/ Dropped
  BY <1>1 DEF dispatch_login, Fails, Dropped
<1> HIDE DEF ty
<1>3. CASE ty = "LoginAccepted" /\ session' = login_accepted(session) /\ pc' = "idle"
  <2>1. /\ session' \in Sessions /\ Taken(session, session') /\ session'.state = "Streaming"
        /\ session'.next_expected_sequence = front(session).val /\ session'.since_recv = 0
    BY <1>1, <1>3, FrontIs, AcceptedIs
  <2> QED
    BY <1>1, <1>3, <2>1 DEF DispatchedLogin, Dispatched, ty
<1>4. CASE /\ ty # "LoginAccepted" /\ session' = skip_packet(session)
           /\ pc' \in {"idle", "dispatch"}
  <2>1. /\ session' \in Sessions /\ Taken(session, session') /\ session'.state = session.state
        /\ session'.next_expected_sequence = session.next_expected_sequence
        /\ session'.since_recv = session.since_recv
    BY <1>1, <1>4, SkipIs
  <2> QED
    BY <1>1, <1>4, <2>1 DEF DispatchedOther, Dispatched, ty
<1>5. CASE ty # "LoginAccepted" /\ session' = login_rejected(session) /\ pc' = "idle"
  <2>1. /\ session' \in Sessions /\ Taken(session, session') /\ session'.state = "Closed"
        /\ session'.next_expected_sequence = session.next_expected_sequence
        /\ session'.since_recv = session.since_recv
    BY <1>1, <1>5, RejectedIs
  <2> QED
    BY <1>1, <1>5, <2>1 DEF DispatchedOther, Dispatched, ty
<1> QED
  BY <1>2, <1>3, <1>4, <1>5

LEMMA DispatchStreamIs ==
    ASSUME ClientType, dispatch_stream
    PROVE  DispatchedData \/ DispatchedOther
<1> DEFINE ty == front(session).ty
<1>1. /\ session \in Sessions /\ has_packet(session) /\ pc = "dispatch"
      /\ session.state = "Streaming" /\ UNCHANGED outside
  BY DEF dispatch_stream, Dispatching, ClientType, outside, stream
<1>2. \/ /\ ty = "SequencedData" /\ session' = sequenced_data(session) /\ pc' = "idle"
         /\ delivered' = Append(delivered, front(session).val)
         /\ numbers' = Append(numbers, session.next_expected_sequence)
      \/ /\ ty # "SequencedData" /\ session' = skip_packet(session)
         /\ pc' \in {"idle", "dispatch"} /\ UNCHANGED history
      \/ /\ ty # "SequencedData" /\ session' = end_of_session(session)
         /\ pc' = "idle" /\ UNCHANGED history
  BY <1>1 DEF dispatch_stream
<1> HIDE DEF ty
<1>3. CASE /\ ty = "SequencedData" /\ session' = sequenced_data(session) /\ pc' = "idle"
           /\ delivered' = Append(delivered, front(session).val)
           /\ numbers' = Append(numbers, session.next_expected_sequence)
  <2>1. /\ session' \in Sessions /\ Taken(session, session') /\ session'.state = session.state
        /\ session'.next_expected_sequence = session.next_expected_sequence + 1
        /\ session'.since_recv = session.since_recv
    BY <1>1, <1>3, SequencedIs
  <2> QED
    BY <1>1, <1>3, <2>1 DEF DispatchedData, Dispatched, ty
<1>4. CASE /\ ty # "SequencedData" /\ session' = skip_packet(session)
           /\ pc' \in {"idle", "dispatch"} /\ UNCHANGED history
  <2>1. /\ session' \in Sessions /\ Taken(session, session') /\ session'.state = session.state
        /\ session'.next_expected_sequence = session.next_expected_sequence
        /\ session'.since_recv = session.since_recv
    BY <1>1, <1>4, SkipIs
  <2> QED
    BY <1>1, <1>4, <2>1 DEF DispatchedOther, Dispatched, ty
<1>5. CASE /\ ty # "SequencedData" /\ session' = end_of_session(session)
           /\ pc' = "idle" /\ UNCHANGED history
  <2>1. /\ session' \in Sessions /\ Taken(session, session') /\ session'.state = "Closed"
        /\ session'.next_expected_sequence = session.next_expected_sequence
        /\ session'.since_recv = session.since_recv
    BY <1>1, <1>5, EndedIs
  <2> QED
    BY <1>1, <1>5, <2>1 DEF DispatchedOther, Dispatched, ty
<1> QED
  BY <1>2, <1>3, <1>4, <1>5

LEMMA KeptBuffered ==
    ASSUME NEW s, NEW t, Kept(s, t)
    PROVE  Buffered(t) = Buffered(s) /\ (Tidy(s) => Tidy(t))
BY DEF Kept, Buffered, Tidy

\* A new session with its login queued.
LEMMA LoginIs ==
    ASSUME NEW requested \in Nat, NEW t, t = queue_login(new(requested))
    PROVE  /\ t \in Sessions /\ t.state = "Authenticating" /\ t.requested = requested
           /\ t.next_expected_sequence = 0 /\ t.since_recv = 0
           /\ t.out = Bytes(LoginRequest(requested))
           /\ Tidy(t) /\ Buffered(t) = <<>>
<1> DEFINE s == new(requested)
           p == LoginRequest(requested)
           q == queue(s, p)
<1>1. /\ s \in Sessions /\ s.state = "Authenticating" /\ s.requested = requested /\ s.out = <<>>
      /\ s.next_expected_sequence = 0 /\ s.since_recv = 0 /\ Tidy(s) /\ Buffered(s) = <<>>
  BY NewIs
<1>2. p \in Packets /\ LoginTimeout \in Nat
  BY HeartbeatIsPacket, SessionAssumption
<1> HIDE DEF p
<1>3. t = [q EXCEPT !.login_left = LoginTimeout]
  BY <1>1 DEF queue_login, p
<1> HIDE DEF s
<1>4. /\ q \in Sessions /\ Kept(s, q) /\ q.state = s.state /\ q.since_recv = s.since_recv
      /\ q.out = s.out \o Bytes(p)
  BY <1>1, <1>2, QueueIs, Zenon
<1> HIDE DEF q
<1>5. /\ t \in Sessions /\ Kept(q, t) /\ t.state = q.state /\ t.since_recv = q.since_recv
      /\ t.out = q.out
  BY <1>2, <1>3, <1>4, Zenon DEF Sessions, Kept
<1>6. Kept(s, t)
  BY <1>4, <1>5, KeptTwice
<1>7. <<>> \o Bytes(p) = Bytes(p)
  BY <1>2, BytesIs, ConcatEmptySeq
<1>8. t.out = Bytes(p)
  BY <1>1, <1>4, <1>5, <1>7
<1>9. Tidy(t) /\ Buffered(t) = <<>>
  BY <1>1, <1>6, KeptBuffered
<1>10. t.requested = requested /\ t.next_expected_sequence = 0
  BY <1>1, <1>6 DEF Kept
<1>11. t.state = "Authenticating" /\ t.since_recv = 0
  BY <1>1, <1>4, <1>5
<1> QED
  BY <1>5, <1>8, <1>9, <1>10, <1>11 DEF p

LEMMA ResumeIs ==
    ASSUME ClientType
    PROVE  Resume \in Nat
BY DEF ClientType, Resume, Sessions

LEMMA ConnectIs ==
    ASSUME ClientType, Connect
    PROVE  Connected
<1> DEFINE f == Fresh
<1>1. /\ f \in Sessions /\ f.state = "Authenticating" /\ f.requested = Resume
      /\ f.next_expected_sequence = 0 /\ f.since_recv = 0 /\ Tidy(f) /\ Buffered(f) = <<>>
  BY ResumeIs, LoginIs, SMTT(60) DEF Fresh
<1>2. /\ session' = f \/ \E n \in 0 .. Len(f.out) : session' = flush(f, n)
      /\ pc' \in {"idle", "write"}
  BY DEF Connect
<1>3. /\ net' = <<>> /\ peer' = "open"
      /\ server' = [answered |-> FALSE, streaming |-> FALSE, next |-> 0, noisy |-> FALSE,
                    connects |-> server.connects + 1]
      /\ silence' = 0 /\ UNCHANGED <<variant, history>>
  BY DEF Connect
<1> HIDE DEF f
<1>4. /\ session' \in Sessions /\ Kept(f, session') /\ session'.state = f.state
      /\ session'.since_recv = f.since_recv
  BY <1>1, <1>2, FlushIs, KeptSame
<1>5. Tidy(session') /\ Buffered(session') = <<>>
  BY <1>1, <1>4, KeptBuffered
<1>6. session'.requested = Resume /\ session'.next_expected_sequence = 0
  BY <1>1, <1>4 DEF Kept
<1>7. session'.state = "Authenticating" /\ session'.since_recv = 0
  BY <1>1, <1>4
<1> QED
  BY <1>2, <1>3, <1>4, <1>5, <1>6, <1>7 DEF Connected

\* What the server sends.
LEMMA ArriveIs ==
    ASSUME ClientType, NEW packet \in Packets, Arrive(packet)
    PROVE  Arrived(packet)
<1>1. Encoded(packet) \in Seq(Units(variant)) /\ Encoded(packet) # <<>>
  <2>1. CASE variant.compressed
    BY <2>1 DEF Encoded, Units, Deflated
  <2>2. CASE ~variant.compressed
    <3>1. Bytes(packet) \in Seq(Octets) /\ Len(Bytes(packet)) = 2
      BY BytesIs
    <3> QED
      BY <2>2, <3>1 DEF Encoded, Units
  <2> QED
    BY <2>1, <2>2
<1>2. /\ Live /\ net' = net \o Encoded(packet) /\ edge' = IsSync /\ silence' = 0
      /\ UNCHANGED <<variant, session, pc, peer, history>>
  BY DEF Arrive
<1> QED
  BY <1>1, <1>2 DEF Arrived

\* What the server sends, and what it thinks it has sent.
ServerSends(packet) ==
    /\ Arrived(packet)
    /\ server' \in ServerTypes
    /\ \/ /\ packet.ty = "LoginAccepted" /\ packet.val >= 1
          /\ LoggedIn /\ got[1][1].of.val \in {0, packet.val}
          /\ ~server.answered
          /\ server'.answered /\ server'.streaming /\ server'.next = packet.val
       \/ /\ packet.ty = "SequencedData" /\ packet.val = server.next
          /\ server.streaming
          /\ server'.next = server.next + 1
          /\ (server'.answered <=> server.answered) /\ server'.streaming
       \/ /\ packet.ty # "LoginAccepted" /\ packet.ty # "SequencedData"
          /\ server'.next = server.next
          /\ (server.answered => server'.answered) /\ (server'.streaming => server.streaming)

LEMMA ServerIs ==
    ASSUME ClientType,
           \/ \E first \in 1 .. (MaxLog + 1) : ServerAccepts(first)
           \/ ServerRejects \/ ServerData \/ ServerHeartbeat \/ ServerEnds
           \/ \E ty \in Noise : ServerNoise(ty)
    PROVE  \E packet \in Packets : ServerSends(packet)
<1>0. server \in ServerTypes /\ server.next \in Nat /\ MaxLog \in Nat
  BY ClientAssumption DEF ClientType, ServerTypes
<1>1. ASSUME NEW first \in 1 .. (MaxLog + 1), ServerAccepts(first)
      PROVE  \E packet \in Packets : ServerSends(packet)
  <2> DEFINE p == Packet("LoginAccepted", first)
  <2>1. first \in Nat /\ first >= 1
    BY <1>0
  <2>2. p \in Packets /\ p.ty = "LoginAccepted" /\ p.val = first
    BY <2>1 DEF Packet, Packets, PacketTypes
  <2>3. /\ Arrive(p) /\ LoggedIn /\ ~server.answered /\ got[1][1].of.val \in {0, first}
        /\ server' = [server EXCEPT !.answered = TRUE, !.streaming = TRUE, !.next = first]
    BY <1>1, Zenon DEF ServerAccepts
  <2> HIDE DEF p
  <2>4. /\ server' \in ServerTypes /\ server'.answered /\ server'.streaming
        /\ server'.next = first
    BY <1>0, <2>1, <2>3, Zenon DEF ServerTypes
  <2>5. Arrived(p)
    BY <2>2, <2>3, ArriveIs
  <2> QED
    BY <2>1, <2>2, <2>3, <2>4, <2>5 DEF ServerSends, ServerTypes
<1>2. ASSUME ServerData
      PROVE  \E packet \in Packets : ServerSends(packet)
  <2> DEFINE p == Packet("SequencedData", server.next)
  <2>2. p \in Packets /\ p.ty = "SequencedData" /\ p.val = server.next
    BY <1>0 DEF Packet, Packets, PacketTypes
  <2>3. /\ Arrive(p) /\ server.streaming
        /\ server' = [server EXCEPT !.next = @ + 1]
    BY <1>2 DEF ServerData
  <2> HIDE DEF p
  <2>4. /\ server' \in ServerTypes /\ (server'.answered <=> server.answered)
        /\ (server'.streaming <=> server.streaming) /\ server'.next = server.next + 1
    BY <1>0, <2>3 DEF ServerTypes
  <2>5. Arrived(p)
    BY <2>2, <2>3, ArriveIs
  <2> QED
    BY <2>2, <2>3, <2>4, <2>5 DEF ServerSends, ServerTypes
<1>3. ASSUME NEW ty \in PacketTypes, ty # "LoginAccepted", ty # "SequencedData",
             Arrive(Packet(ty, 0)),
             \/ server' = [server EXCEPT !.answered = TRUE]
             \/ server' = server
             \/ server' = [server EXCEPT !.streaming = FALSE]
             \/ server' = [server EXCEPT !.noisy = TRUE]
      PROVE  \E packet \in Packets : ServerSends(packet)
  <2> DEFINE p == Packet(ty, 0)
  <2>2. p \in Packets /\ p.ty = ty
    BY <1>3 DEF Packet, Packets
  <2>3. Arrived(p)
    BY <1>3, <2>2, ArriveIs
  <2> HIDE DEF p
  <2>4. /\ server' \in ServerTypes /\ (server.answered => server'.answered)
        /\ (server'.streaming => server.streaming) /\ server'.next = server.next
    BY <1>0, <1>3, Zenon DEF ServerTypes
  <2> QED
    BY <1>3, <2>2, <2>3, <2>4 DEF ServerSends, ServerTypes
<1>4. /\ {"LoginRejected", "ServerHeartbeat", "EndOfSession"} \subseteq PacketTypes
      /\ \A ty \in Noise : ty \in PacketTypes /\ ty # "LoginAccepted" /\ ty # "SequencedData"
  BY ClientAssumption DEF PacketTypes, Oversize
<1>5. CASE ServerRejects
  BY <1>3, <1>4, <1>5 DEF ServerRejects
<1>6. CASE ServerHeartbeat
  BY <1>3, <1>4, <1>6 DEF ServerHeartbeat
<1>7. CASE ServerEnds
  BY <1>3, <1>4, <1>7 DEF ServerEnds
<1>8. CASE \E ty \in Noise : ServerNoise(ty)
  BY <1>3, <1>4, <1>8 DEF ServerNoise
<1> QED
  BY <1>1, <1>2, <1>5, <1>6, <1>7, <1>8

\* Time passes.
Aged ==
    /\ session' \in Sessions /\ Kept(session, session')
    /\ session'.state = session.state /\ session'.out = session.out
    /\ session'.since_recv = IF session.since_recv + 1 <= HeartbeatTimeout + 1
                             THEN session.since_recv + 1 ELSE HeartbeatTimeout + 1
    /\ silence' = IF silence + 1 <= HeartbeatTimeout + 1
                  THEN silence + 1 ELSE HeartbeatTimeout + 1
    /\ UNCHANGED <<variant, pc, net, peer, edge, server, history>>

LEMMA TickIs ==
    ASSUME ClientType, Tick
    PROVE  Aged
<1>1. /\ session' = aged(session) /\ silence' = Min({silence + 1, HeartbeatTimeout + 1})
      /\ UNCHANGED <<variant, pc, net, peer, edge, server, history>>
  BY DEF Tick
<1>2. silence + 1 \in Int /\ HeartbeatTimeout + 1 \in Int /\ session \in Sessions
  BY SessionAssumption DEF ClientType
<1>3. silence' = IF silence + 1 <= HeartbeatTimeout + 1 THEN silence + 1 ELSE HeartbeatTimeout + 1
  BY <1>1, <1>2, MinIs
<1> QED
  BY <1>1, <1>2, <1>3, AgedIs DEF Aged

\* Every step is one of these.
LEMMA StepIs ==
    ASSUME ClientType, [Next]_vars
    PROVE  \/ Unmoved \/ Dropped \/ DispatchedLogin \/ DispatchedData \/ DispatchedOther
           \/ Moved \/ Connected \/ ServerCloses \/ Aged
           \/ \E packet \in Packets : ServerSends(packet)
<1>1. CASE UNCHANGED vars
  <2>1. UNCHANGED <<outside, history, session, pc, edge>>
    BY <1>1 DEF vars, outside, history
  <2>2. Waits /\ ClosesFor
    BY <2>1 DEF Waits, ClosesFor, ClientType
  <2> QED
    BY <2>1, <2>2, KeptSame DEF Unmoved, ClientType
<1>2. CASE Connect
  BY <1>2, ConnectIs
<1>3. CASE Polls
  BY <1>3, PollIs DEF Polls
<1>4. CASE PollFails
  BY <1>4, PollFailsIs
<1>5. CASE queue_unsequenced \/ queue_logout \/ send_unsequenced \/ logout
  BY <1>5, QueuesIs
<1>6. CASE WriteFails \/ Unreadable \/ PeerClosed \/ LoginTimesOut \/ Cancel
  BY <1>6, FailuresIs
<1>7. CASE Writes
  BY <1>7, WriteOutIs DEF Writes
<1>8. CASE tick_heartbeat \/ DeadlineWins \/ Drained \/ Recv \/ AwaitMoreBytes
  BY <1>8, ChecksIs
<1>9. CASE dispatch_login
  BY <1>9, DispatchLoginIs
<1>10. CASE dispatch_stream
  BY <1>10, DispatchStreamIs
<1>11. CASE Inflate
  BY <1>11, InflateIs
<1>12. CASE Lands
  BY <1>12, LandsIs DEF Lands
<1>13. CASE \/ \E first \in 1 .. (MaxLog + 1) : ServerAccepts(first)
            \/ ServerRejects \/ ServerData \/ ServerHeartbeat \/ ServerEnds
            \/ \E ty \in Noise : ServerNoise(ty)
  BY <1>13, ServerIs
<1>14. CASE Tick
  BY <1>14, TickIs
<1> QED
  BY <1>1, <1>2, <1>3, <1>4, <1>5, <1>6, <1>7, <1>8, <1>9, <1>10, <1>11, <1>12, <1>13, <1>14, SMTT(60)
     DEF Next

\* What the caller has queued, and where send_all goes on.
LEMMA CallerTypes ==
    ASSUME ClientType, [Next]_vars
    PROVE  after' \in {"idle", "dispatch", "logout"} /\ queued' \in Seq(Packets)
<1>0. after \in {"idle", "dispatch", "logout"} /\ queued \in Seq(Packets)
  BY DEF ClientType
<1>1. CASE Connect
  <2>1. queued' = <<LoginRequest(Resume)>>
    BY <1>1 DEF Connect
  <2>2. LoginRequest(Resume) \in Packets
    BY ResumeIs, HeartbeatIsPacket
  <2> DEFINE p == LoginRequest(Resume)
  <2> HIDE DEF p
  <2>3. queued' = <<p>> /\ p \in Packets
    BY <2>1, <2>2 DEF p
  <2>4. after' \in {"idle", "dispatch", "logout"}
    BY <1>0, <1>1 DEF Connect, sending
  <2> QED
    BY <2>3, <2>4
<1>2. CASE queue_unsequenced \/ queue_logout \/ send_unsequenced \/ logout
  <2>1. UnsequencedData(Unsequenced + 1) \in Packets /\ LogoutRequest \in Packets
    BY UnsequencedIs, HeartbeatIsPacket
  <2>2. \E p \in Packets : queued' = Append(queued, p)
    BY <1>2, <2>1 DEF queue_unsequenced, queue_logout, send_unsequenced, logout
  <2>3. queued' \in Seq(Packets)
    BY <1>0, <2>2
  <2>4. after' \in {"idle", "dispatch", "logout"}
    BY <1>0, <1>2
       DEF queue_unsequenced, queue_logout, send_unsequenced, logout, sending, BeginWrite
  <2> QED
    BY <2>3, <2>4
<1>3. CASE tick_heartbeat \/ DeadlineWins
  BY <1>0, <1>3
     DEF tick_heartbeat, DeadlineWins, HeartbeatCheck, BeginWrite, sending, upward
<1>4. CASE Writes \/ WriteFails
  BY <1>0, <1>4 DEF Writes, WriteOut, WriteFails, upward
<1>5. CASE Polls \/ PollFails \/ Recv \/ Unreadable \/ dispatch_login \/ dispatch_stream
  BY <1>0, <1>5, Zenon
     DEF Polls, Poll, PollFails, Recv, Unreadable, dispatch_login, dispatch_stream, Dispatching,
         sending, upward
<1>6. CASE Inflate \/ Lands \/ PeerClosed \/ Drained \/ AwaitMoreBytes \/ LoginTimesOut \/ Cancel
  BY <1>0, <1>6, SMTT(60)
     DEF Inflate, Lands, Land, PeerClosed, Drained, AwaitMoreBytes, LoginTimesOut, Cancel,
         sending, upward
<1>7. CASE \/ \E first \in 1 .. (MaxLog + 1) : ServerAccepts(first)
           \/ ServerRejects \/ ServerData \/ ServerHeartbeat \/ ServerEnds
           \/ \E ty \in Noise : ServerNoise(ty)
  BY <1>0, <1>7, Zenon
     DEF ServerAccepts, ServerRejects, ServerData, ServerHeartbeat, ServerEnds, ServerNoise,
         Arrive, sending, upward
<1>8. CASE ServerCloses \/ Tick \/ UNCHANGED vars
  BY <1>0, <1>8, SMTT(60) DEF ServerCloses, Tick, vars, sending, upward
<1> QED
  BY <1>1, <1>2, <1>3, <1>4, <1>5, <1>6, <1>7, <1>8 DEF Next

----------------------------------------------------------------------------
(* A caller that waits has nothing left to work on. *)

WakeInv == ClientType /\ NoLostWakeup

LEMMA TakenTidy ==
    ASSUME NEW s, NEW t, Taken(s, t), Tidy(s)
    PROVE  Tidy(t)
BY DEF Taken, Tidy

LEMMA KeptWorked ==
    ASSUME NEW s, NEW t, Kept(s, t), Worked(s)
    PROVE  Worked(t)
BY SMTT(60) DEF Kept, Worked, staged, has_packet, unreadable

LEMMA StarvedWorked ==
    ASSUME ClientType, Starved, ~staged(session)
    PROVE  Worked(session)
BY SMTT(60) DEF ClientType, Tidy, Starved, staged, Worked

LEMMA UnpackRest ==
    ASSUME NEW n \in 0 .. Len(net), net \in Seq(Units(variant))
    PROVE  /\ SubSeq(net, n + 1, Len(net)) \in Seq(Units(variant))
           /\ SubSeq(net, 1, n) \in Seq(Units(variant))
           /\ net = SubSeq(net, 1, n) \o SubSeq(net, n + 1, Len(net))
BY Split, Zenon

LEMMA WakeStep ==
    ASSUME WakeInv, [Next]_vars
    PROVE  WakeInv'
<1>0. /\ ClientType /\ NoLostWakeup
      /\ after' \in {"idle", "dispatch", "logout"} /\ queued' \in Seq(Packets)
  BY CallerTypes DEF WakeInv
<1>1. CASE Unmoved
  <2>1. /\ session' \in Sessions /\ Kept(session, session') /\ Waits
        /\ session'.state = session.state \/ session'.state = "Closed"
        /\ UNCHANGED <<variant, net, peer, server, silence>>
    BY <1>1, SMTT(60) DEF Unmoved, outside
  <2>2. Tidy(session')
    BY <1>0, <2>1, KeptBuffered DEF ClientType
  <2>3. (pc' = "parked" => IsSync) /\ (pc' = "wait" => ~IsSync)
    BY <2>1 DEF Waits
  <2>4. ClientType'
    BY <1>0, <2>1, <2>2, <2>3, SMTT(60) DEF ClientType, IsSync
  <2>5. ASSUME pc' \in {"parked", "wait"}, session'.state # "Closed" PROVE Worked(session')
    <3>1. Worked(session)
      BY <1>0, <2>1, <2>5, StarvedWorked, SMTT(60) DEF Waits, NoLostWakeup
    <3> QED
      BY <2>1, <3>1, KeptWorked
  <2>6. ASSUME pc' = "parked", session'.state # "Closed", Readable' PROVE edge'
    BY <1>0, <2>1, <2>6, SMTT(60) DEF Waits, NoLostWakeup, Readable
  <2> QED
    BY <2>4, <2>5, <2>6 DEF WakeInv, NoLostWakeup
<1>2. CASE Dropped
  <2>1. /\ session' = new(session.requested) /\ pc' = "down" /\ session.requested \in Nat
        /\ UNCHANGED <<variant, net, peer, server, silence>>
    BY <1>0, <1>2, SMTT(60) DEF Dropped, outside, ClientType, Sessions
  <2>2. session' \in Sessions /\ Tidy(session')
    BY <2>1, NewIs, SMTT(60)
  <2> QED
    BY <1>0, <2>1, <2>2, SMTT(60) DEF WakeInv, NoLostWakeup, ClientType
<1>3. CASE Dispatched
  <2>1. /\ session' \in Sessions /\ Taken(session, session') /\ pc' \in {"idle", "dispatch"}
        /\ UNCHANGED <<variant, net, peer, server, silence>>
    BY <1>3 DEF Dispatched, outside
  <2>2. Tidy(session')
    BY <1>0, <2>1, TakenTidy DEF ClientType
  <2> QED
    BY <1>0, <2>1, <2>2, SMTT(60) DEF WakeInv, NoLostWakeup, ClientType
<1>4. CASE Moved
  <2>1. /\ session' \in Sessions /\ Tidy(session') /\ pc' = "dispatch"
        /\ UNCHANGED <<variant, peer, server, silence>>
        /\ net' = net \/ \E n \in 0 .. Len(net) : net' = SubSeq(net, n + 1, Len(net))
    BY <1>4 DEF Moved
  <2>2. net' \in Seq(Units(variant))
    BY <1>0, <2>1, UnpackRest, Zenon DEF ClientType
  <2> QED
    BY <1>0, <2>1, <2>2, SMTT(60) DEF WakeInv, NoLostWakeup, ClientType
<1>5. CASE Connected
  <2>1. /\ session' \in Sessions /\ Tidy(session') /\ pc' \in {"idle", "write"}
        /\ net' = <<>> /\ peer' = "open" /\ silence' = 0 /\ variant' = variant
        /\ server' = [answered |-> FALSE, streaming |-> FALSE, next |-> 0, noisy |-> FALSE,
                      connects |-> server.connects + 1]
    BY <1>5 DEF Connected
  <2>2. server' \in ServerTypes
    BY <1>0, <2>1 DEF ClientType, ServerTypes
  <2> QED
    BY <1>0, <2>1, <2>2, SMTT(60) DEF WakeInv, NoLostWakeup, ClientType
<1>6. CASE ServerCloses
  <2>1. /\ UNCHANGED <<variant, session, pc, server, silence>> /\ peer' = "closed"
        /\ net' = net \/ net' = <<>>
        /\ edge' = IsSync
    BY <1>6 DEF ServerCloses
  <2>2. net \in Seq(Units(variant)) /\ <<>> \in Seq(Units(variant))
    BY <1>0, EmptySeq DEF ClientType
  <2>3. net' \in Seq(Units(variant))
    BY <2>1, <2>2, Zenon
  <2>4. ClientType'
    BY <1>0, <2>1, <2>3 DEF ClientType, IsSync
  <2> QED
    BY <1>0, <2>1, <2>4, SMTT(60) DEF WakeInv, NoLostWakeup, ClientType
<1>7. CASE Aged
  <2>1. /\ session' \in Sessions /\ Kept(session, session') /\ session'.state = session.state
        /\ UNCHANGED <<variant, pc, net, peer, edge, server>>
        /\ silence' \in Nat
    BY <1>0, <1>7, SessionAssumption, SMTT(60) DEF Aged, ClientType
  <2>2. Tidy(session')
    BY <1>0, <2>1, KeptBuffered DEF ClientType
  <2>3. ClientType'
    BY <1>0, <2>1, <2>2 DEF ClientType, IsSync
  <2>4. Worked(session) => Worked(session')
    BY <2>1, KeptWorked
  <2> QED
    BY <1>0, <2>1, <2>3, <2>4, SMTT(60) DEF WakeInv, NoLostWakeup, Readable
<1>8. ASSUME NEW packet \in Packets, ServerSends(packet) PROVE WakeInv'
  <2>1. /\ UNCHANGED <<variant, session, pc, peer>> /\ silence' = 0 /\ server' \in ServerTypes
        /\ net' = net \o Encoded(packet) /\ Encoded(packet) \in Seq(Units(variant))
        /\ edge' = IsSync
    BY <1>8, Zenon DEF ServerSends, Arrived
  <2>2. net' \in Seq(Units(variant))
    BY <1>0, <2>1, ConcatProperties, SMTT(60) DEF ClientType
  <2>3. ClientType'
    BY <1>0, <2>1, <2>2, SMTT(60) DEF ClientType, IsSync
  <2> QED
    BY <1>0, <2>1, <2>3, SMTT(60) DEF WakeInv, NoLostWakeup, ClientType
<1> QED
  BY <1>0, <1>1, <1>2, <1>3, <1>4, <1>5, <1>6, <1>7, <1>8, StepIs, SMTT(60)
     DEF DispatchedLogin, DispatchedData, DispatchedOther

LEMMA InitType ==
    ASSUME Init
    PROVE  WakeInv
<1>1. /\ variant \in [driver : {"sync", "managed", "manual"}, compressed : BOOLEAN]
      /\ FirstRequested \in Nat
  BY ClientAssumption DEF Init
<1>2. session \in Sessions /\ Tidy(session)
  BY <1>1, NewIs, SMTT(60) DEF Init
<1>3. server \in ServerTypes
  BY DEF Init, ServerTypes
<1> QED
  BY <1>1, <1>2, <1>3, SMTT(60) DEF Init, WakeInv, ClientType, NoLostWakeup

\* session.rs, poll: "`Ok(None)`: nothing happened, socket drained, so parked caller may
\* wait".  Whatever the driver, compressed or not, a caller that waits has nothing
\* buffered, staged or held by the inflater, and what has reached the socket since has
\* raised an edge.
THEOREM ParkedCallerAlwaysWoken == Spec => []NoLostWakeup
<1>1. Init => WakeInv
  BY InitType
<1>2. WakeInv /\ [Next]_vars => WakeInv'
  BY WakeStep
<1>3. WakeInv => NoLostWakeup
  BY DEF WakeInv
<1> QED
  BY <1>1, <1>2, <1>3, PTL DEF Spec

----------------------------------------------------------------------------
(* A timeout is silence. *)

\* The session's clock never runs ahead of the socket's, once all is read.
Quiet == peer = "open" /\ net = <<>> => session.since_recv <= silence

LEMMA QuietStep ==
    ASSUME WakeInv, Quiet, [Next]_vars
    PROVE  Quiet' /\ (TimedOut => silence > HeartbeatTimeout)
<1>0. /\ ClientType /\ session \in Sessions /\ session.since_recv \in Nat /\ silence \in Nat
      /\ HeartbeatTimeout \in Nat /\ peer \in {"open", "closed"}
  BY SessionAssumption, Zenon DEF WakeInv, ClientType, Sessions
<1>1. CASE Unmoved
  <2>1. Quiet'
    BY <1>1 DEF Unmoved, outside, Quiet
  <2>2. ASSUME TimedOut PROVE silence > HeartbeatTimeout
    <3>1. silent(session) /\ ~Readable
      BY <1>1, <2>2, SMTT(60) DEF Unmoved, ClosesFor, TimedOut
    <3>2. session.since_recv > HeartbeatTimeout /\ session.since_recv <= silence
      BY <1>0, <3>1 DEF silent, Readable, Quiet
    <3> QED
      BY <1>0, <3>2
  <2> QED
    BY <2>1, <2>2
<1>2. CASE Dropped
  <2>1. session.requested \in Nat /\ session' = new(session.requested)
    BY <1>0, <1>2 DEF Dropped, Sessions
  <2>2. session'.since_recv = 0 /\ session'.state = "Authenticating"
    BY <2>1, NewIs
  <2> QED
    BY <1>0, <1>2, <2>2 DEF Dropped, outside, Quiet, TimedOut
<1>3. CASE DispatchedLogin \/ DispatchedData
  <2>1. session'.state # "Closed"
    BY <1>3 DEF DispatchedLogin, DispatchedData
  <2>2. session'.since_recv \in {0, session.since_recv} /\ UNCHANGED <<net, peer, silence>>
    BY <1>3 DEF DispatchedLogin, DispatchedData, Dispatched, outside
  <2> QED
    BY <1>0, <2>1, <2>2 DEF Quiet, TimedOut
<1>4. CASE DispatchedOther
  <2>1. session'.since_recv = session.since_recv /\ UNCHANGED <<net, peer, silence>>
    BY <1>4, SMTT(60) DEF DispatchedOther, Dispatched, outside
  <2>2. session'.decode_buf # session.decode_buf
    <3> DEFINE d == session.decode_buf
               r == SubSeq(d, 3, Len(d))
    <3>1. session'.decode_buf = r /\ d \in Seq(Octets) /\ Len(d) >= 2
      BY <1>0, <1>4, SMTT(60) DEF DispatchedOther, Dispatched, Taken, Sessions, has_packet
    <3> HIDE DEF d
    <3>2. 2 \in 0 .. Len(d) /\ Len(d) \in Nat
      BY <3>1
    <3>3. Len(r) = Len(d) - 2
      BY <3>1, BehindTwo
    <3>4. Len(r) # Len(d)
      BY <3>2, <3>3
    <3> QED
      BY <3>1, <3>4 DEF d
  <2> QED
    BY <2>1, <2>2 DEF Quiet, TimedOut
<1>5. CASE Moved
  <2>1. /\ UNCHANGED <<peer, silence>> /\ session'.state = session.state
        /\ \/ net' = net /\ session'.since_recv = session.since_recv
           \/ session'.since_recv = 0
    BY <1>5 DEF Moved, SameSession
  <2> QED
    BY <1>0, <2>1 DEF Quiet, TimedOut
<1>6. CASE Connected
  BY <1>0, <1>6, SMTT(60) DEF Connected, Quiet, TimedOut
<1>7. CASE ServerCloses
  BY <1>7 DEF ServerCloses, Quiet, TimedOut
<1>8. CASE Aged
  <2>1. Quiet'
    BY <1>0, <1>8 DEF Aged, Quiet
  <2> QED
    BY <1>8, <2>1, SMTT(60) DEF Aged, TimedOut
<1>9. ASSUME NEW packet \in Packets, ServerSends(packet)
      PROVE  Quiet' /\ (TimedOut => silence > HeartbeatTimeout)
  <2>1. /\ net' = net \o Encoded(packet) /\ Encoded(packet) \in Seq(Units(variant))
        /\ Encoded(packet) # <<>> /\ session' = session
    BY <1>9, SMTT(60) DEF ServerSends, Arrived
  <2>2. net \in Seq(Units(variant))
    BY <1>0 DEF ClientType
  <2>3. net' # <<>>
    BY <2>1, <2>2, ConcatProperties, EmptySeq
  <2> QED
    BY <2>1, <2>3 DEF Quiet, TimedOut
<1> QED
  BY <1>0, <1>1, <1>2, <1>3, <1>4, <1>5, <1>6, <1>7, <1>8, <1>9, StepIs

\* event.rs: "Server silent past `heartbeat_timeout`; session closed."  poll and
\* recv_managed report a heartbeat timeout only when no byte has reached the socket for
\* that long, for every timeout, buffer size and however late they are called.
THEOREM TimeoutAlwaysSilence == Spec => TimeoutMeansSilence
<1> DEFINE I == WakeInv /\ Quiet
<1>1. Init => I
  BY InitType, NewIs, ClientAssumption, Zenon DEF Init, Quiet
<1>2. I /\ [Next]_vars => I'
  BY WakeStep, QuietStep
<1>3. I /\ [Next]_vars => [TimedOut => silence > HeartbeatTimeout]_vars
  BY QuietStep
<1> QED
  BY <1>1, <1>2, <1>3, PTL DEF Spec, TimeoutMeansSilence

----------------------------------------------------------------------------
(* Numbers are places in the server's log. *)

\* Packet p takes a reader that expects number x to one that expects y; before the
\* login is accepted that is 0.
Follows(p, x, y) ==
    \/ p.ty = "LoginAccepted" /\ x = 0 /\ y = p.val /\ y >= 1
    \/ p.ty = "SequencedData" /\ x >= 1 /\ p.val = x /\ y = x + 1
    \/ p.ty # "LoginAccepted" /\ p.ty # "SequencedData" /\ y = x

\* So do packets in a row.
Leads(ps, x, y) ==
    \E f \in [1 .. (Len(ps) + 1) -> Nat] :
        /\ f[1] = x /\ f[Len(ps) + 1] = y
        /\ \A i \in 1 .. Len(ps) : Follows(ps[i], f[i], f[i + 1])

LEMMA LeadsNowhere ==
    ASSUME NEW x \in Nat
    PROVE  Leads(<<>>, x, x)
<1> DEFINE f == [i \in 1 .. (Len(<<>>) + 1) |-> x]
<1>1. f \in [1 .. (Len(<<>>) + 1) -> Nat] /\ f[1] = x /\ f[Len(<<>>) + 1] = x
  OBVIOUS
<1>2. \A i \in 1 .. Len(<<>>) : Follows(<<>>[i], f[i], f[i + 1])
  OBVIOUS
<1> QED
  BY <1>1, <1>2, Zenon DEF Leads

LEMMA LeadsOn ==
    ASSUME NEW ps \in Seq(Packets), NEW x, NEW y \in Nat, NEW z \in Nat, NEW p \in Packets,
           Leads(ps, x, y), Follows(p, y, z)
    PROVE  Leads(ps \o <<p>>, x, z)
<1>1. PICK f \in [1 .. (Len(ps) + 1) -> Nat] :
        /\ f[1] = x /\ f[Len(ps) + 1] = y
        /\ \A i \in 1 .. Len(ps) : Follows(ps[i], f[i], f[i + 1])
  BY SMTT(60) DEF Leads
<1> DEFINE qs == ps \o <<p>>
           g == [i \in 1 .. (Len(qs) + 1) |-> IF i <= Len(ps) + 1 THEN f[i] ELSE z]
<1>2. /\ Len(ps) \in Nat /\ Len(qs) = Len(ps) + 1 /\ qs[Len(ps) + 1] = p
      /\ \A i \in 1 .. Len(ps) : qs[i] = ps[i]
  BY SMTT(60)
<1> HIDE DEF qs
<1>3. g \in [1 .. (Len(qs) + 1) -> Nat] /\ g[1] = x /\ g[Len(qs) + 1] = z
  BY <1>1, <1>2, SMTT(60)
<1>4. ASSUME NEW i \in 1 .. Len(qs) PROVE Follows(qs[i], g[i], g[i + 1])
  <2>1. CASE i <= Len(ps)
    <3>1. i \in 1 .. Len(ps) /\ g[i] = f[i] /\ g[i + 1] = f[i + 1] /\ qs[i] = ps[i]
      BY <1>2, <2>1, SMTT(60)
    <3> QED
      BY <1>1, <3>1, SMTT(60)
  <2>2. CASE i = Len(ps) + 1
    <3>1. g[i] = y /\ g[i + 1] = z /\ qs[i] = p
      BY <1>1, <1>2, <2>2, SMTT(60)
    <3> QED
      BY <3>1, SMTT(60)
  <2> QED
    BY <1>2, <2>1, <2>2, SMTT(60)
<1> HIDE DEF g
<1>5. Leads(qs, x, z)
  BY <1>3, <1>4, Zenon DEF Leads
<1> QED
  BY <1>5 DEF qs

LEMMA LeadsFrom ==
    ASSUME NEW ps \in Seq(Packets), NEW x, NEW y, Leads(ps, x, y), ps # <<>>
    PROVE  \E z \in Nat : Follows(ps[1], x, z) /\ Leads(Tail(ps), z, y)
<1>1. PICK f \in [1 .. (Len(ps) + 1) -> Nat] :
        /\ f[1] = x /\ f[Len(ps) + 1] = y
        /\ \A i \in 1 .. Len(ps) : Follows(ps[i], f[i], f[i + 1])
  BY DEF Leads
<1> DEFINE qs == Tail(ps)
           g == [i \in 1 .. (Len(qs) + 1) |-> f[i + 1]]
<1>2. /\ Len(ps) \in Nat /\ Len(ps) >= 1 /\ Len(qs) = Len(ps) - 1
      /\ \A i \in 1 .. Len(qs) : qs[i] = ps[i + 1]
  BY EmptySeq
<1> HIDE DEF qs
<1>3. /\ g \in [1 .. (Len(qs) + 1) -> Nat] /\ g[1] = f[2] /\ g[Len(qs) + 1] = y
      /\ f[2] \in Nat
  BY <1>1, <1>2, SMTT(60)
<1>4. ASSUME NEW i \in 1 .. Len(qs) PROVE Follows(qs[i], g[i], g[i + 1])
  <2>1. i + 1 \in 1 .. Len(ps) /\ g[i] = f[i + 1] /\ g[i + 1] = f[(i + 1) + 1] /\ qs[i] = ps[i + 1]
    BY <1>2, SMTT(60)
  <2> QED
    BY <1>1, <2>1, SMTT(60)
<1> HIDE DEF g
<1>5. Leads(qs, f[2], y)
  BY <1>3, <1>4, Zenon DEF Leads
<1>6. Follows(ps[1], x, f[2])
  <2>1. 1 \in 1 .. Len(ps) /\ 1 + 1 = 2
    BY <1>2
  <2> QED
    BY <1>1, <2>1
<1> QED
  BY <1>3, <1>5, <1>6 DEF qs

LEMMA ConcatIs ==
    ASSUME NEW T, NEW d \in Seq(T), NEW e \in Seq(T)
    PROVE  /\ d \o e \in Seq(T) /\ Len(d \o e) = Len(d) + Len(e)
           /\ Len(d) \in Nat /\ Len(e) \in Nat
           /\ \A i \in 1 .. (Len(d) + Len(e)) :
                (d \o e)[i] = IF i <= Len(d) THEN d[i] ELSE e[i - Len(d)]
OBVIOUS

LEMMA DropTwo ==
    ASSUME NEW T, NEW d \in Seq(T), NEW e \in Seq(T), Len(d) >= 2
    PROVE  /\ d \o e \in Seq(T) /\ Len(d \o e) >= 2 /\ (d \o e)[1] = d[1]
           /\ SubSeq(d \o e, 3, Len(d \o e)) = SubSeq(d, 3, Len(d)) \o e
<1> DEFINE w == d \o e
           r == SubSeq(d, 3, Len(d))
           u == SubSeq(w, 3, Len(w))
           v == r \o e
<1>1. /\ w \in Seq(T) /\ Len(w) = Len(d) + Len(e) /\ Len(d) \in Nat /\ Len(e) \in Nat
      /\ \A i \in 1 .. (Len(d) + Len(e)) : w[i] = IF i <= Len(d) THEN d[i] ELSE e[i - Len(d)]
  BY ConcatIs
<1>2. /\ r \in Seq(T) /\ Len(r) = Len(d) - 2 /\ \A i \in 1 .. (Len(d) - 2) : r[i] = d[i + 2]
  BY BehindTwo
<1> HIDE DEF w, r
<1>3. Len(w) >= 2
  BY <1>1
<1>4. /\ u \in Seq(T) /\ Len(u) = Len(w) - 2 /\ \A i \in 1 .. (Len(w) - 2) : u[i] = w[i + 2]
  BY <1>1, <1>3, BehindTwo, SMTT(60)
<1>5. /\ v \in Seq(T) /\ Len(v) = Len(r) + Len(e)
      /\ \A i \in 1 .. (Len(r) + Len(e)) : v[i] = IF i <= Len(r) THEN r[i] ELSE e[i - Len(r)]
  BY <1>2, ConcatIs, Zenon
<1> HIDE DEF u, v
<1>6. Len(u) = Len(v)
  BY <1>1, <1>2, <1>4, <1>5, SMTT(60)
<1>7. ASSUME NEW i \in 1 .. Len(u) PROVE u[i] = v[i]
  <2>1. u[i] = w[i + 2] /\ i + 2 \in 1 .. (Len(d) + Len(e)) /\ i \in Nat
    BY <1>1, <1>4
  <2>2. CASE i <= Len(r)
    <3>1. v[i] = r[i] /\ r[i] = d[i + 2] /\ i + 2 <= Len(d)
      BY <1>1, <1>2, <1>5, <1>6, <2>2, SMTT(60)
    <3> QED
      BY <1>1, <2>1, <3>1, SMTT(60)
  <2>3. CASE ~(i <= Len(r))
    <3>1. v[i] = e[i - Len(r)] /\ i - Len(r) = (i + 2) - Len(d) /\ ~(i + 2 <= Len(d))
      BY <1>1, <1>2, <1>5, <1>6, <2>1, <2>3, SMTT(60)
    <3> QED
      BY <1>1, <2>1, <3>1, SMTT(60)
  <2> QED
    BY <2>2, <2>3
<1>8. u = v
  BY <1>4, <1>5, <1>6, <1>7, SeqEqual, SMTT(60)
<1>9. w[1] = d[1]
  BY <1>1
<1> QED
  BY <1>1, <1>3, <1>8, <1>9, SMTT(60) DEF w, r, u, v

\* The first packet of packets in a row.
LEMMA FlatFront ==
    ASSUME NEW ps \in Seq(Packets), ps # <<>>
    PROVE  /\ ps[1] \in Packets /\ Tail(ps) \in Seq(Packets)
           /\ Flat(ps)[1].of = ps[1]
           /\ SubSeq(Flat(ps), 3, Len(Flat(ps))) = Flat(Tail(ps))
<1> DEFINE p == ps[1]
           b == Bytes(p)
           t == Tail(ps)
           e == Flat(t)
<1>1. p \in Packets /\ t \in Seq(Packets) /\ ps = <<p>> \o t
  <2>1. Len(ps) \in Nat /\ Len(ps) >= 1
    BY EmptySeq
  <2>2. /\ p \in Packets /\ t \in Seq(Packets) /\ Len(t) = Len(ps) - 1
        /\ \A i \in 1 .. (Len(ps) - 1) : t[i] = ps[i + 1]
    BY <2>1
  <2> HIDE DEF p, t
  <2>3. /\ <<p>> \o t \in Seq(Packets) /\ Len(<<p>> \o t) = Len(ps)
        /\ \A i \in 1 .. Len(ps) : (<<p>> \o t)[i] = IF i = 1 THEN p ELSE t[i - 1]
    BY <2>1, <2>2
  <2>4. \A i \in 1 .. Len(ps) : (<<p>> \o t)[i] = ps[i]
    BY <2>1, <2>2, <2>3 DEF p
  <2> QED
    BY <2>2, <2>3, <2>4, SeqEqual
<1> HIDE DEF p, t
<1>2. /\ b \in Seq(Octets) /\ Len(b) = 2 /\ b[1] = [of |-> p, part |-> 1]
      /\ e \in Seq(Octets)
  BY <1>1, BytesIs, FlatIs, SMTT(60) DEF Bytes
<1>3. Flat(ps) = b \o e
  BY <1>1, FlatOne, FlatConcat, Zenon
<1> HIDE DEF b, e
<1>4. SubSeq(b, 3, Len(b)) = <<>>
  <2>1. Len(SubSeq(b, 3, Len(b))) = 0 /\ SubSeq(b, 3, Len(b)) \in Seq(Octets)
    BY <1>2, BehindTwo, SMTT(60)
  <2> QED
    BY <2>1, EmptySeq
<1>5. <<>> \o e = e
  BY <1>2, ConcatEmptySeq, SMTT(60)
<1>6. SubSeq(b \o e, 3, Len(b \o e)) = e /\ (b \o e)[1] = b[1]
  <2>1. Len(b) >= 2
    BY <1>2, SMTT(60)
  <2>2. SubSeq(b \o e, 3, Len(b \o e)) = SubSeq(b, 3, Len(b)) \o e /\ (b \o e)[1] = b[1]
    BY <1>2, <2>1, DropTwo, Zenon
  <2> QED
    BY <1>4, <1>5, <2>2, Zenon
<1>7. b[1].of = p
  BY <1>2, SMTT(60)
<1> QED
  BY <1>1, <1>3, <1>6, <1>7, Zenon DEF p, t, e

\* Taking a packet off a buffer of numbered packets.
LEMMA FrontLeads ==
    ASSUME NEW b \in Seq(Octets), NEW rest \in Seq(Octets), NEW ps \in Seq(Packets),
           NEW x, NEW y, b \o rest = Flat(ps), Len(b) >= 2, Leads(ps, x, y)
    PROVE  \E z \in Nat, qs \in Seq(Packets) :
             /\ Follows(b[1].of, x, z)
             /\ SubSeq(b, 3, Len(b)) \o rest = Flat(qs) /\ Leads(qs, z, y)
<1>1. /\ Len(b \o rest) >= 2 /\ (b \o rest)[1] = b[1]
      /\ SubSeq(b \o rest, 3, Len(b \o rest)) = SubSeq(b, 3, Len(b)) \o rest
  BY DropTwo, Zenon
<1>2. ps # <<>>
  <2>1. Len(Flat(ps)) >= 2 /\ Len(Flat(ps)) = 2 * Len(ps)
    BY <1>1, FlatIs, Zenon
  <2> QED
    BY <2>1, EmptySeq
<1>3. /\ Tail(ps) \in Seq(Packets) /\ Flat(ps)[1].of = ps[1]
      /\ SubSeq(Flat(ps), 3, Len(Flat(ps))) = Flat(Tail(ps))
  BY <1>2, FlatFront, SMTT(60)
<1>4. PICK z \in Nat : Follows(ps[1], x, z) /\ Leads(Tail(ps), z, y)
  BY <1>2, LeadsFrom
<1> QED
  BY <1>1, <1>3, <1>4, Zenon

\* Every byte that is the session's or unread in its socket, inflated.
Stream == Buffered(session) \o Unpacked(net, variant)

\* They are packets in a row, and take the client from the number it expects next to the
\* one the server will send next; a connection that was cut short lacks the end.
Numbered ==
    Up => \E ps \in Seq(Packets), rest \in Seq(Octets), y \in Nat :
             /\ Stream \o rest = Flat(ps)
             /\ peer = "open" => rest = <<>> /\ y = server.next
             /\ Leads(ps, session.next_expected_sequence, y)

\* 0 stands for a sequence not known yet.
Logged ==
    /\ ~server.answered => server.next = 0
    /\ server.streaming => server.answered /\ server.next >= 1
    /\ session.state = "Authenticating" => session.next_expected_sequence = 0
    /\ session.state = "Streaming" => session.next_expected_sequence >= 1

NumberInv == WakeInv /\ NumberedAsSent /\ Logged /\ Numbered

LEMMA BufferedIs ==
    ASSUME NEW s \in Sessions
    PROVE  Buffered(s) \in Seq(Octets)
<1>1. /\ s.decode_buf \in Seq(Octets) /\ s.inflating \in Seq(Octets)
      /\ Flat(s.recv_staging) \in Seq(Octets)
  BY FlatIs, SMTT(60) DEF Sessions
<1>2. s.decode_buf \o s.inflating \in Seq(Octets)
  BY <1>1, ConcatProperties
<1> QED
  BY <1>1, <1>2, ConcatProperties DEF Buffered

LEMMA StreamIs ==
    ASSUME ClientType
    PROVE  /\ Buffered(session) \in Seq(Octets) /\ Unpacked(net, variant) \in Seq(Octets)
           /\ Stream \in Seq(Octets)
<1>1. Buffered(session) \in Seq(Octets) /\ Unpacked(net, variant) \in Seq(Octets)
  BY BufferedIs, UnpackedIs DEF ClientType
<1> QED
  BY <1>1, ConcatProperties DEF Stream

\* Dispatching takes a packet off the stream.
LEMMA TakenBuffered ==
    ASSUME NEW s \in Sessions, NEW t, has_packet(s), Taken(s, t), NEW w \in Seq(Octets)
    PROVE  /\ Len(Buffered(s) \o w) >= 2 /\ (Buffered(s) \o w)[1].of = front(s)
           /\ Buffered(t) \o w = SubSeq(Buffered(s) \o w, 3, Len(Buffered(s) \o w))
<1> DEFINE d == s.decode_buf
           i == s.inflating
           f == Flat(s.recv_staging)
           r == SubSeq(d, 3, Len(d))
<1>1. /\ d \in Seq(Octets) /\ i \in Seq(Octets) /\ f \in Seq(Octets) /\ Len(d) >= 2
      /\ front(s) = d[1].of
  <2>1. d \in Seq(Octets) /\ i \in Seq(Octets) /\ s.recv_staging \in Seq(Packets)
    BY DEF Sessions
  <2>2. Len(d) >= 2 /\ Head(d) = d[1]
    BY <2>1 DEF has_packet
  <2> QED
    BY <2>1, <2>2, FlatIs, SMTT(60) DEF front
<1>2. Buffered(s) = (d \o i) \o f /\ Buffered(t) = (r \o i) \o f
  BY DEF Buffered, Taken
<1>3. r \in Seq(Octets)
  BY <1>1, BehindTwo, SMTT(60)
<1> HIDE DEF d, i, f, r
<1> DEFINE e == i \o (f \o w)
<1>4. f \o w \in Seq(Octets) /\ e \in Seq(Octets)
  BY <1>1, ConcatProperties, SMTT(60)
<1>5. ASSUME NEW a \in Seq(Octets) PROVE ((a \o i) \o f) \o w = a \o e
  <2>1. a \o i \in Seq(Octets)
    BY <1>1, ConcatProperties, SMTT(60)
  <2>2. ((a \o i) \o f) \o w = (a \o i) \o (f \o w)
    BY <1>1, <2>1, Associates, Zenon
  <2>3. (a \o i) \o (f \o w) = a \o (i \o (f \o w))
    BY <1>1, <1>4, Associates, Zenon
  <2> QED
    BY <2>2, <2>3, Zenon
<1>6. Buffered(s) \o w = d \o e /\ Buffered(t) \o w = r \o e
  BY <1>1, <1>2, <1>3, <1>5, Zenon
<1> HIDE DEF e
<1>7. /\ Len(d \o e) >= 2 /\ (d \o e)[1] = d[1]
      /\ SubSeq(d \o e, 3, Len(d \o e)) = SubSeq(d, 3, Len(d)) \o e
  BY <1>1, <1>4, DropTwo, Zenon
<1> QED
  BY <1>1, <1>6, <1>7, Zenon DEF r

\* Moving bytes into the session leaves the stream as it is.
LEMMA MovedStream ==
    ASSUME ClientType, Moved
    PROVE  Stream' = Stream
<1>0. /\ net \in Seq(Units(variant)) /\ Buffered(session) \in Seq(Octets) /\ variant' = variant
  BY StreamIs, SMTT(60) DEF ClientType, Moved
<1>1. CASE net' = net /\ Buffered(session') = Buffered(session)
  BY <1>0, <1>1 DEF Stream
<1>2. CASE \E n \in 0 .. Len(net) :
             /\ net' = SubSeq(net, n + 1, Len(net))
             /\ Buffered(session') = Buffered(session) \o Unpacked(SubSeq(net, 1, n), variant)
  <2>1. PICK n \in 0 .. Len(net) :
             /\ net' = SubSeq(net, n + 1, Len(net))
             /\ Buffered(session') = Buffered(session) \o Unpacked(SubSeq(net, 1, n), variant)
    BY <1>2, SMTT(60)
  <2> DEFINE a == SubSeq(net, 1, n)
             c == SubSeq(net, n + 1, Len(net))
             b == Buffered(session)
             ua == Unpacked(a, variant)
             uc == Unpacked(c, variant)
  <2>2. a \in Seq(Units(variant)) /\ c \in Seq(Units(variant)) /\ net = a \o c
    BY <1>0, UnpackRest, Zenon
  <2>3. net' = c /\ Buffered(session') = b \o ua
    BY <2>1
  <2> HIDE DEF a, c
  <2>4. ua \in Seq(Octets) /\ uc \in Seq(Octets) /\ Unpacked(net, variant) = ua \o uc
    BY <2>2, UnpackedIs, SMTT(60)
  <2>5. b \in Seq(Octets)
    BY <1>0
  <2> HIDE DEF b, ua
  <2>6. Stream' = (b \o ua) \o uc
    BY <1>0, <2>3 DEF Stream
  <2> HIDE DEF uc
  <2>7. (b \o ua) \o uc = b \o (ua \o uc)
    BY <2>4, <2>5, Associates, Zenon
  <2> QED
    BY <2>4, <2>6, <2>7 DEF Stream, b
<1> QED
  BY <1>1, <1>2, SMTT(60) DEF Moved

\* The packet dispatched is the next one of the server's.
LEMMA DispatchNumbers ==
    ASSUME NumberInv, Dispatched
    PROVE  \E z \in Nat :
             /\ Follows(front(session), session.next_expected_sequence, z)
             /\ session'.next_expected_sequence = z => Numbered'
<1>0. /\ ClientType /\ session \in Sessions /\ has_packet(session) /\ Taken(session, session')
      /\ UNCHANGED <<variant, net, peer, server>> /\ Up
  BY DEF NumberInv, WakeInv, ClientType, Dispatched, outside, Up
<1>1. PICK ps \in Seq(Packets), rest \in Seq(Octets), y \in Nat :
             /\ Stream \o rest = Flat(ps)
             /\ peer = "open" => rest = <<>> /\ y = server.next
             /\ Leads(ps, session.next_expected_sequence, y)
  BY <1>0, SMTT(60) DEF NumberInv, Numbered
<1>2. Stream \in Seq(Octets) /\ Unpacked(net, variant) \in Seq(Octets)
  BY <1>0, StreamIs, SMTT(60)
<1>3. /\ Len(Stream) >= 2 /\ Stream[1].of = front(session)
      /\ Stream' = SubSeq(Stream, 3, Len(Stream))
  <2> DEFINE u == Unpacked(net, variant)
  <2>1. Stream = Buffered(session) \o u /\ Stream' = Buffered(session') \o u
    BY <1>0 DEF Stream
  <2>2. u \in Seq(Octets)
    BY <1>2
  <2> HIDE DEF u
  <2>3. /\ Len(Buffered(session) \o u) >= 2 /\ (Buffered(session) \o u)[1].of = front(session)
        /\ Buffered(session') \o u = SubSeq(Buffered(session) \o u, 3, Len(Buffered(session) \o u))
    BY <1>0, <2>2, TakenBuffered, Zenon
  <2> QED
    BY <2>1, <2>3, Zenon
<1>4. PICK z \in Nat, qs \in Seq(Packets) :
             /\ Follows(front(session), session.next_expected_sequence, z)
             /\ Stream' \o rest = Flat(qs) /\ Leads(qs, z, y)
  <2> DEFINE b == Stream
  <2>1. b \o rest = Flat(ps) /\ Leads(ps, session.next_expected_sequence, y)
    BY <1>1
  <2>2. b \in Seq(Octets) /\ Len(b) >= 2 /\ b[1].of = front(session)
    BY <1>2, <1>3, SMTT(60)
  <2>3. SubSeq(b, 3, Len(b)) = Stream'
    BY <1>3
  <2> HIDE DEF b
  <2>4. \E z \in Nat, qs \in Seq(Packets) :
          /\ Follows(b[1].of, session.next_expected_sequence, z)
          /\ SubSeq(b, 3, Len(b)) \o rest = Flat(qs) /\ Leads(qs, z, y)
    BY <2>1, <2>2, FrontLeads, Zenon
  <2> QED
    BY <2>2, <2>3, <2>4, Zenon
<1>5. ASSUME session'.next_expected_sequence = z PROVE Numbered'
  BY <1>0, <1>1, <1>4, <1>5, Zenon DEF Numbered
<1> QED
  BY <1>4, <1>5

LEMMA EncodedIs ==
    ASSUME ClientType, NEW packet \in Packets
    PROVE  Unpacked(Encoded(packet), variant) = Bytes(packet)
BY FlatOne DEF Unpacked, Encoded, Deflated

LEMMA ArrivedStream ==
    ASSUME ClientType, NEW packet \in Packets, Arrived(packet)
    PROVE  Stream' = Stream \o Bytes(packet)
<1> DEFINE b == Buffered(session)
           u == Unpacked(net, variant)
           e == Encoded(packet)
           p == Bytes(packet)
<1>1. /\ net \in Seq(Units(variant)) /\ e \in Seq(Units(variant)) /\ net' = net \o e
      /\ UNCHANGED <<session, variant>>
  BY SMTT(60) DEF ClientType, Arrived
<1>2. b \in Seq(Octets) /\ u \in Seq(Octets) /\ p \in Seq(Octets)
  BY StreamIs, BytesIs
<1>3. Unpacked(e, variant) = p
  BY EncodedIs
<1> HIDE DEF e
<1>4. Unpacked(net \o e, variant) = u \o p
  BY <1>1, <1>3, UnpackedIs, Zenon
<1>5. Stream' = b \o (u \o p)
  BY <1>1, <1>4 DEF Stream
<1>6. Stream = b \o u
  BY DEF Stream
<1> HIDE DEF b, u, p
<1>7. (b \o u) \o p = b \o (u \o p)
  BY <1>2, Associates, Zenon
<1> QED
  BY <1>5, <1>6, <1>7 DEF p

LEMMA ArrivedNumbered ==
    ASSUME NumberInv, NEW packet \in Packets, ServerSends(packet)
    PROVE  Numbered' /\ Logged'
<1>0. /\ ClientType /\ Arrived(packet) /\ Up /\ peer = "open" /\ Logged
      /\ UNCHANGED <<session, peer>> /\ server.next \in Nat /\ server'.next \in Nat
  BY Zenon DEF NumberInv, WakeInv, ClientType, ServerSends, Arrived, Live, ServerTypes
<1>1. /\ Follows(packet, server.next, server'.next)
      /\ ~server'.answered => server'.next = 0
      /\ server'.streaming => server'.answered /\ server'.next >= 1
  <2>1. server.next >= 1 => server.next + 1 >= 1
    BY <1>0
  <2> QED
    BY <1>0, <2>1, Zenon DEF ServerSends, Follows, Logged
<1>2. PICK ps \in Seq(Packets), rest \in Seq(Octets), y \in Nat :
             /\ Stream \o rest = Flat(ps)
             /\ peer = "open" => rest = <<>> /\ y = server.next
             /\ Leads(ps, session.next_expected_sequence, y)
  BY <1>0, SMTT(60) DEF NumberInv, Numbered
<1>3. /\ Leads(ps, session.next_expected_sequence, server.next)
      /\ Stream \o rest = Stream /\ rest = <<>>
  BY <1>0, <1>2, StreamIs, ConcatEmptySeq, SMTT(60)
<1> DEFINE qs == ps \o <<packet>>
<1>4. qs \in Seq(Packets) /\ Flat(qs) = Flat(ps) \o Bytes(packet)
  <2>1. <<packet>> \in Seq(Packets) /\ Flat(<<packet>>) = Bytes(packet)
    BY FlatOne
  <2> QED
    BY <2>1, FlatConcat, ConcatProperties, Zenon
<1>5. Leads(qs, session.next_expected_sequence, server'.next)
  BY <1>0, <1>1, <1>3, LeadsOn, SMTT(60)
<1> HIDE DEF qs
<1>6. Stream' = Stream \o Bytes(packet)
  BY <1>0, ArrivedStream
<1>7. Stream' = Flat(qs)
  BY <1>2, <1>3, <1>4, <1>6, Zenon
<1>8. Flat(qs) \in Seq(Octets) /\ <<>> \in Seq(Octets)
  <2>1. Flat(qs) \in Seq(Octets)
    BY <1>4, FlatIs, Zenon
  <2> QED
    BY <2>1, EmptySeq
<1>9. Stream' \o <<>> = Flat(qs)
  BY <1>7, <1>8, ConcatEmptySeq
<1>10. Numbered'
  BY <1>0, <1>4, <1>5, <1>8, <1>9, Zenon DEF Numbered
<1> QED
  BY <1>0, <1>1, <1>10, SMTT(60) DEF Logged

LEMMA ClosedNumbered ==
    ASSUME NumberInv, ServerCloses
    PROVE  Numbered'
<1>0. /\ ClientType /\ Up /\ UNCHANGED <<variant, session>> /\ peer' = "closed"
      /\ net' = net \/ net' = <<>>
  BY DEF NumberInv, WakeInv, ServerCloses, Live
<1>1. PICK ps \in Seq(Packets), rest \in Seq(Octets), y \in Nat :
             /\ Stream \o rest = Flat(ps)
             /\ Leads(ps, session.next_expected_sequence, y)
  BY <1>0 DEF NumberInv, Numbered
<1>2. CASE net' = net
  <2>1. Stream' \o rest = Flat(ps)
    BY <1>0, <1>1, <1>2, SMTT(60) DEF Stream
  <2> QED
    BY <1>0, <1>1, <2>1, Zenon DEF Numbered
<1>3. CASE net' = <<>>
  <2> DEFINE b == Buffered(session)
             u == Unpacked(net, variant)
             more == u \o rest
  <2>1. b \in Seq(Octets) /\ u \in Seq(Octets) /\ Stream = b \o u
    BY <1>0, StreamIs DEF Stream
  <2>2. Unpacked(<<>>, variant) = <<>>
    BY <1>0, UnpackedIs, SMTT(60) DEF ClientType
  <2>3. Stream' = b \o <<>>
    BY <1>0, <1>3, <2>2, Zenon DEF Stream
  <2> HIDE DEF b, u
  <2>4. Stream' = b
    BY <2>1, <2>3, ConcatEmptySeq
  <2>5. (b \o u) \o rest = b \o (u \o rest)
    BY <1>1, <2>1, Associates, Zenon
  <2>6. more \in Seq(Octets)
    BY <1>1, <2>1, ConcatProperties, SMTT(60)
  <2>7. Stream' \o more = Flat(ps)
    BY <1>1, <2>1, <2>4, <2>5, Zenon
  <2> HIDE DEF more
  <2> QED
    BY <1>0, <1>1, <2>6, <2>7, Zenon DEF Numbered
<1> QED
  BY <1>0, <1>2, <1>3

LEMMA NumberStep ==
    ASSUME NumberInv, [Next]_vars
    PROVE  NumberInv'
<1>0. /\ ClientType /\ WakeInv' /\ NumberedAsSent /\ Logged /\ Numbered
      /\ session \in Sessions /\ session.next_expected_sequence \in Nat
  BY WakeStep, Zenon DEF NumberInv, WakeInv, ClientType, Sessions
<1> SUFFICES NumberedAsSent' /\ Logged' /\ Numbered'
  BY <1>0 DEF NumberInv
<1>1. ASSUME Kept(session, session'), UNCHANGED <<variant, net, peer, server, history>>,
             session'.state = session.state \/ session'.state = "Closed",
             pc' = "down" <=> pc = "down"
      PROVE  NumberedAsSent' /\ Logged' /\ Numbered'
  <2>1. Stream' = Stream /\ session'.next_expected_sequence = session.next_expected_sequence
    BY <1>1, KeptBuffered, SMTT(60) DEF Stream, Kept
  <2>2. Numbered'
    BY <1>0, <1>1, <2>1 DEF Numbered, Up
  <2>3. Logged'
    BY <1>0, <1>1, <2>1, SMTT(60) DEF Logged
  <2> QED
    BY <1>0, <1>1, <2>2, <2>3, SMTT(60) DEF NumberedAsSent, history
<1>2. CASE Unmoved
  BY <1>1, <1>2, SMTT(60) DEF Unmoved, outside
<1>3. CASE Aged
  BY <1>1, <1>3, SMTT(60) DEF Aged
<1>4. CASE Dropped
  <2>1. session'.state = "Authenticating" /\ session'.next_expected_sequence = 0
    <3>1. session.requested \in Nat /\ session' = new(session.requested)
      BY <1>0, <1>4 DEF Dropped, Sessions
    <3> QED
      BY <3>1, NewIs, SMTT(60)
  <2>2. ~Up' /\ UNCHANGED <<server, delivered, numbers>>
    BY <1>4 DEF Dropped, Up, outside, history
  <2> QED
    BY <1>0, <2>1, <2>2, SMTT(60) DEF NumberedAsSent, Logged, Numbered
<1>5. ASSUME Dispatched
      PROVE  \E z \in Nat :
               /\ Follows(front(session), session.next_expected_sequence, z)
               /\ session'.next_expected_sequence = z => Numbered'
  BY <1>5, DispatchNumbers
<1>6. CASE DispatchedLogin
  <2>1. PICK z \in Nat : /\ Follows(front(session), session.next_expected_sequence, z)
                         /\ session'.next_expected_sequence = z => Numbered'
    BY <1>5, <1>6, SMTT(60) DEF DispatchedLogin
  <2>2. z >= 1 /\ session'.next_expected_sequence = z /\ session'.state = "Streaming"
    BY <1>6, <2>1, SMTT(60) DEF DispatchedLogin, Follows
  <2> QED
    BY <1>0, <1>6, <2>1, <2>2, SMTT(60)
       DEF DispatchedLogin, Dispatched, outside, history, NumberedAsSent, Logged
<1>7. CASE DispatchedData
  <2>1. PICK z \in Nat : /\ Follows(front(session), session.next_expected_sequence, z)
                         /\ session'.next_expected_sequence = z => Numbered'
    BY <1>5, <1>7, SMTT(60) DEF DispatchedData
  <2>2. /\ z >= 1 /\ session'.next_expected_sequence = z
        /\ front(session).val = session.next_expected_sequence
        /\ session'.state = "Streaming"
    BY <1>0, <1>7, <2>1, SMTT(60) DEF DispatchedData, Follows
  <2>3. NumberedAsSent'
    BY <1>0, <1>7, <2>2, SMTT(60) DEF DispatchedData, NumberedAsSent
  <2> QED
    BY <1>0, <1>7, <2>1, <2>2, <2>3, SMTT(60) DEF DispatchedData, Dispatched, outside, Logged
<1>8. CASE DispatchedOther
  <2>1. PICK z \in Nat : /\ Follows(front(session), session.next_expected_sequence, z)
                         /\ session'.next_expected_sequence = z => Numbered'
    BY <1>5, <1>8, SMTT(60) DEF DispatchedOther
  <2>2. z = session.next_expected_sequence
    BY <1>0, <1>8, <2>1, SMTT(60) DEF DispatchedOther, Follows, Logged
  <2>3. /\ session'.next_expected_sequence = session.next_expected_sequence
        /\ session'.state = session.state \/ session'.state = "Closed"
        /\ UNCHANGED <<server, delivered, numbers>>
    BY <1>8, SMTT(60) DEF DispatchedOther, Dispatched, outside, history
  <2> QED
    BY <1>0, <2>1, <2>2, <2>3, SMTT(60) DEF NumberedAsSent, Logged
<1>9. CASE Moved
  <2>1. Stream' = Stream
    BY <1>0, <1>9, MovedStream
  <2>2. /\ session'.next_expected_sequence = session.next_expected_sequence
        /\ session'.state = session.state /\ Up
        /\ UNCHANGED <<peer, server, delivered, numbers>>
    BY <1>9 DEF Moved, SameSession, Up, history
  <2> QED
    BY <1>0, <2>1, <2>2, SMTT(60) DEF NumberedAsSent, Logged, Numbered
<1>10. CASE Connected
  <2>1. /\ Buffered(session') = <<>> /\ net' = <<>> /\ variant' = variant
        /\ session'.next_expected_sequence = 0 /\ session'.state = "Authenticating"
        /\ UNCHANGED <<delivered, numbers>>
        /\ server'.next = 0 /\ ~server'.answered /\ ~server'.streaming
    BY <1>10, SMTT(60) DEF Connected, history
  <2>2. Unpacked(<<>>, variant) = <<>>
    BY <1>0, UnpackedIs DEF ClientType
  <2>3. Stream' = <<>>
    BY <2>1, <2>2 DEF Stream
  <2>4. Stream' \o <<>> = Flat(<<>>)
    BY <2>3, NoneFlat
  <2>5. Leads(<<>>, 0, 0)
    BY LeadsNowhere
  <2>6. <<>> \in Seq(Packets) /\ <<>> \in Seq(Octets) /\ 0 \in Nat
    BY EmptySeq
  <2>7. \E ps \in Seq(Packets), rest \in Seq(Octets), y \in Nat :
             /\ Stream' \o rest = Flat(ps)
             /\ peer' = "open" => rest = <<>> /\ y = server'.next
             /\ Leads(ps, session'.next_expected_sequence, y)
    BY <2>1, <2>4, <2>5, <2>6, Zenon
  <2>8. Numbered'
    BY <2>7, Zenon DEF Numbered
  <2> QED
    BY <1>0, <2>1, <2>8, SMTT(60) DEF NumberedAsSent, Logged
<1>11. CASE ServerCloses
  <2>1. UNCHANGED <<session, server, delivered, numbers>>
    BY <1>11 DEF ServerCloses, history
  <2> QED
    BY <1>0, <1>11, <2>1, ClosedNumbered, SMTT(60) DEF NumberedAsSent, Logged
<1>12. ASSUME NEW packet \in Packets, ServerSends(packet)
       PROVE  NumberedAsSent' /\ Logged' /\ Numbered'
  <2>1. UNCHANGED <<delivered, numbers>>
    BY <1>12, SMTT(60) DEF ServerSends, Arrived, history
  <2> QED
    BY <1>0, <1>12, <2>1, ArrivedNumbered DEF NumberedAsSent
<1> QED
  BY <1>0, <1>2, <1>3, <1>4, <1>6, <1>7, <1>8, <1>9, <1>10, <1>11, <1>12, StepIs, SMTT(60)

\* The number a message is handed out with, which the client counts and the packet does
\* not carry, is its place in the server's log: through partial reads, inflating under
\* a cap, stray packets, resets and any number of connections.
THEOREM NumberedAlwaysAsSent == Spec => []NumberedAsSent
<1>1. Init => NumberInv
  <2>1. ASSUME Init PROVE NumberInv
    <3>1. session.state = "Authenticating" /\ session.next_expected_sequence = 0
      <4>1. FirstRequested \in Nat /\ session = new(FirstRequested)
        BY <2>1, ClientAssumption, SMTT(60) DEF Init
      <4> QED
        BY <4>1, NewIs, SMTT(60)
    <3>2. ~Up /\ delivered = numbers /\ server.next = 0 /\ ~server.answered /\ ~server.streaming
      BY <2>1, SMTT(60) DEF Init, Up
    <3> QED
      BY <2>1, <3>1, <3>2, InitType, SMTT(60) DEF NumberInv, NumberedAsSent, Logged, Numbered
  <2> QED
    BY <2>1
<1>2. NumberInv /\ [Next]_vars => NumberInv'
  BY NumberStep
<1>3. NumberInv => NumberedAsSent
  BY DEF NumberInv
<1> QED
  BY <1>1, <1>2, <1>3, PTL DEF Spec

=============================================================================
