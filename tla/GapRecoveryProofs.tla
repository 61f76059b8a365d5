---------------------------- MODULE GapRecoveryProofs ----------------------------
(***************************************************************************)
(* The gap map inside the recovery loop: what GapRequestHandlerProofs shows *)
(* of the map under any calls, for the calls the receiver makes.           *)
(***************************************************************************)
EXTENDS GapRecovery, GapRequestHandlerProofs

\* The cursor bounds what ranges the loop records.
RecoveryInv == IInv /\ next_unseen \in Nat

LEMMA RecoveryStep ==
    ASSUME RecoveryInv, [Next]_vars
    PROVE  RecoveryInv'
<1>1. ASSUME NEW seq \in Seqs, NEW count \in 0 .. 1, OpenGap(seq, count)
      PROVE  RecoveryInv'
  <2>1. seq \in Nat /\ seq + count \in Nat
    BY SeqsAssumption
  <2>2. IInv'
    BY <1>1, <2>1, RecordExact DEF OpenGap, RecoveryInv
  <2> QED
    BY <1>1, <2>1, <2>2 DEF OpenGap, RecoveryInv
<1>2. ASSUME NEW seq \in Seqs, ConfirmGap(seq)
      PROVE  RecoveryInv'
  <2>1. seq \in Nat /\ seq + 1 \in Nat
    BY SeqsAssumption
  <2>2. IInv'
    BY <1>2, <2>1, RecordExact DEF ConfirmGap, record_gap, RecoveryInv
  <2> QED
    BY <1>2, <2>2 DEF ConfirmGap, RecoveryInv
<1>3. ASSUME NEW seq \in Seqs, Arrival(seq)
      PROVE  RecoveryInv'
  <2>1. seq \in Nat
    BY SeqsAssumption
  <2>2. IInv'
    BY <1>3, <2>1, ReceiveExact DEF Arrival, RecoveryInv
  <2> QED
    BY <1>3, <2>2 DEF Arrival, RecoveryInv
<1>4. CASE UNCHANGED <<gaps, next_unseen>>
  BY <1>4 DEF RecoveryInv, IInv, GapsOK, Separated
<1>5. CASE \/ send_due \/ Tick \/ UNCHANGED vars
           \/ \E chunk \in due : Skip(chunk) \/ Send(chunk) \/ SendFails(chunk) \/ WouldBlock(chunk)
  BY <1>4, <1>5 DEF send_due, Tick, vars, Skip, Send, SendFails, WouldBlock, Asking
<1> QED
  BY <1>1, <1>2, <1>3, <1>5 DEF Next

\* gap.rs: "entries stay disjoint and non-adjacent", in the receiver's own use of the
\* map: gaps opened past the highest sequence seen, confirmed one number at a time and
\* closed by arrivals, with rounds of requests in between.
THEOREM RecoveryRangesSeparated == Spec => []Separated
<1>1. Init => RecoveryInv
  BY InitExact DEF Init, RecoveryInv
<1>2. RecoveryInv /\ [Next]_vars => RecoveryInv'
  BY RecoveryStep
<1>3. RecoveryInv => Separated
  BY DEF RecoveryInv, IInv
<1> QED
  BY <1>1, <1>2, <1>3, PTL DEF Spec

----------------------------------------------------------------------------
(* The chunks of one range. *)

LEMMA DivMod ==
    ASSUME NEW c \in Nat \ {0}, NEW a \in Nat
    PROVE  a \div c \in Int /\ a % c \in 0 .. (c - 1) /\ a = c * (a \div c) + (a % c)
OBVIOUS

\* The only multiple of c in 0..c-1.
LEMMA SmallMultiple ==
    ASSUME NEW c \in Nat \ {0}, NEW k \in Int, 0 <= c * k, c * k < c
    PROVE  k = 0
<1>1. CASE k >= 1
  <2>1. c * k >= c
    BY <1>1
  <2> QED
    BY <2>1
<1>2. CASE k <= -1
  <2>1. c * k < 0
    BY <1>2
  <2> QED
    BY <2>1
<1> QED
  BY <1>1, <1>2

\* A chunk of start..end-1 lies inside the range, starts a multiple of MaxChunk above its
\* start, and is as long as it can be.
LEMMA ChunkIs ==
    ASSUME NEW start \in Nat, NEW end \in Nat, NEW c \in Chunks(start, end)
    PROVE  /\ c.start_seq \in Nat /\ start <= c.start_seq /\ c.start_seq < end
           /\ (c.start_seq - start) % MaxChunk = 0
           /\ c.count = IF end - c.start_seq < MaxChunk THEN end - c.start_seq ELSE MaxChunk
           /\ c = [start_seq |-> c.start_seq, count |-> c.count]
           /\ c.count \in 1 .. MaxChunk
           /\ c.start_seq + c.count <= end
<1>1. PICK d \in start .. (end - 1) :
        /\ (d - start) % MaxChunk = 0
        /\ c = [start_seq |-> d, count |-> IF end - d < MaxChunk THEN end - d ELSE MaxChunk]
  BY DEF Chunks
<1> QED
  BY <1>1, ChunkAssumption

\* Every number of the range is in the chunk that starts at the multiple below it.
LEMMA ChunkOf ==
    ASSUME NEW start \in Nat, NEW end \in Nat, NEW q \in start .. (end - 1)
    PROVE  \E c \in Chunks(start, end) : c.start_seq <= q /\ q < c.start_seq + c.count
<1> DEFINE a == q - start
           k == a \div MaxChunk
           r == a % MaxChunk
           d == q - r
<1>1. a \in Nat /\ MaxChunk \in Nat \ {0}
  BY ChunkAssumption
<1>2. k \in Int /\ r \in 0 .. (MaxChunk - 1) /\ a = MaxChunk * k + r
  BY <1>1, DivMod
<1> HIDE DEF k, r
<1>3. r <= a
  <2>1. a % MaxChunk <= a
    BY <1>1
  <2> QED
    BY <2>1 DEF r
<1>4. d \in start .. (end - 1) /\ d <= q /\ q < d + MaxChunk
  BY <1>1, <1>2, <1>3
<1>5. d - start \in Nat /\ d - start = MaxChunk * k
  BY <1>1, <1>2, <1>4
<1>6. (d - start) % MaxChunk = 0
  <2> DEFINE m == (d - start) \div MaxChunk
             p == (d - start) % MaxChunk
  <2>1. m \in Int /\ p \in 0 .. (MaxChunk - 1) /\ d - start = MaxChunk * m + p
    BY <1>1, <1>5, DivMod, Zenon
  <2> HIDE DEF m, p
  <2>2. k - m \in Int /\ MaxChunk * (k - m) = p
    BY <1>1, <1>2, <1>5, <2>1
  <2>3. k - m = 0
    BY <1>1, <2>1, <2>2, SmallMultiple
  <2>4. p = 0
    BY <1>1, <2>2, <2>3
  <2> QED
    BY <2>4 DEF p
<1> DEFINE c == [start_seq |-> d, count |-> IF end - d < MaxChunk THEN end - d ELSE MaxChunk]
<1>8. c \in Chunks(start, end)
  BY <1>4, <1>6 DEF Chunks
<1>9. c.start_seq <= q /\ q < c.start_seq + c.count
  BY <1>1, <1>4
<1> QED
  BY <1>8, <1>9

\* Two chunks of one range that start apart do not overlap.
LEMMA ChunksApart ==
    ASSUME NEW start \in Nat, NEW end \in Nat, NEW c \in Chunks(start, end),
           NEW d \in Chunks(start, end), c.start_seq < d.start_seq
    PROVE  c.start_seq + c.count <= d.start_seq
<1> DEFINE a == c.start_seq - start
           b == d.start_seq - start
<1>1. /\ a \in Nat /\ b \in Nat /\ a % MaxChunk = 0 /\ b % MaxChunk = 0 /\ a < b
      /\ c.count \in 1 .. MaxChunk /\ c.start_seq \in Nat /\ d.start_seq \in Nat
  BY ChunkIs
<1>2. MaxChunk \in Nat \ {0}
  BY ChunkAssumption
<1>3. ASSUME b < a + MaxChunk PROVE FALSE
  <2> HIDE DEF a, b
  <2> DEFINE k == a \div MaxChunk
             m == b \div MaxChunk
  <2>1. k \in Int /\ m \in Int /\ a = MaxChunk * k /\ b = MaxChunk * m
    BY <1>1, <1>2, DivMod
  <2> HIDE DEF k, m
  <2>2. m - k \in Int /\ MaxChunk * (m - k) = b - a
    BY <1>2, <2>1
  <2>3. m - k = 0
    BY <1>1, <1>2, <1>3, <2>2, SmallMultiple
  <2> QED
    BY <1>1, <1>2, <2>1, <2>3
<1> QED
  BY <1>1, <1>2, <1>3

\* What pending_gaps returns for a map of separated ranges.
LEMMA PendingIs ==
    ASSUME IInv
    PROVE  /\ \A c \in pending_gaps : c.start_seq \in Nat /\ c.count \in 1 .. MaxChunk
           /\ ChunksPartition
<1>1. ASSUME NEW c \in pending_gaps
      PROVE  \E s \in DOMAIN gaps : s \in Nat /\ gaps[s] \in Nat /\ c \in Chunks(s, gaps[s])
  BY DEF pending_gaps, IInv, GapsOK
<1>2. ASSUME NEW c \in pending_gaps
      PROVE  c.start_seq \in Nat /\ c.count \in 1 .. MaxChunk
  BY <1>1, <1>2, ChunkIs
<1>3. ASSUME NEW c \in pending_gaps, NEW d \in pending_gaps, c # d, NEW q \in Int,
             c.start_seq <= q, q < c.start_seq + c.count,
             d.start_seq <= q, q < d.start_seq + d.count
      PROVE  FALSE
  <2>1. PICK s \in DOMAIN gaps : s \in Nat /\ gaps[s] \in Nat /\ c \in Chunks(s, gaps[s])
    BY <1>1
  <2>2. PICK t \in DOMAIN gaps : t \in Nat /\ gaps[t] \in Nat /\ d \in Chunks(t, gaps[t])
    BY <1>1
  <2>3. /\ s <= q /\ q < gaps[s] /\ t <= q /\ q < gaps[t]
        /\ c.start_seq \in Nat /\ d.start_seq \in Nat /\ c.count \in 1 .. MaxChunk
        /\ d.count \in 1 .. MaxChunk
    <3>1. /\ c.start_seq \in Nat /\ s <= c.start_seq /\ c.start_seq + c.count <= gaps[s]
          /\ c.count \in 1 .. MaxChunk
      BY <2>1, ChunkIs
    <3>2. /\ d.start_seq \in Nat /\ t <= d.start_seq /\ d.start_seq + d.count <= gaps[t]
          /\ d.count \in 1 .. MaxChunk
      BY <2>2, ChunkIs
    <3> QED
      BY <1>3, <2>1, <2>2, <3>1, <3>2
  <2>4. s = t
    BY <2>1, <2>2, <2>3 DEF IInv, Separated
  <2>5. CASE c.start_seq = d.start_seq
    <3>1. /\ c.count = IF gaps[s] - c.start_seq < MaxChunk THEN gaps[s] - c.start_seq ELSE MaxChunk
          /\ c = [start_seq |-> c.start_seq, count |-> c.count]
      BY <2>1, ChunkIs
    <3>2. /\ d.count = IF gaps[s] - d.start_seq < MaxChunk THEN gaps[s] - d.start_seq ELSE MaxChunk
          /\ d = [start_seq |-> d.start_seq, count |-> d.count]
      BY <2>2, <2>4, ChunkIs
    <3> QED
      BY <1>3, <2>5, <3>1, <3>2
  <2>6. CASE c.start_seq < d.start_seq
    <3>1. c.start_seq + c.count <= d.start_seq
      BY <2>1, <2>2, <2>4, <2>6, ChunksApart
    <3> QED
      BY <1>3, <2>3, <3>1
  <2>7. CASE d.start_seq < c.start_seq
    <3>1. d.start_seq + d.count <= c.start_seq
      BY <2>1, <2>2, <2>4, <2>7, ChunksApart
    <3> QED
      BY <1>3, <2>3, <3>1
  <2> QED
    BY <2>3, <2>5, <2>6, <2>7
<1>4. ASSUME NEW c \in pending_gaps, NEW q \in c.start_seq .. (c.start_seq + c.count - 1)
      PROVE  q \in Covered
  <2>1. PICK s \in DOMAIN gaps : s \in Nat /\ gaps[s] \in Nat /\ c \in Chunks(s, gaps[s])
    BY <1>1
  <2>2. /\ c.start_seq \in Nat /\ s <= c.start_seq /\ c.start_seq + c.count <= gaps[s]
        /\ c.count \in 1 .. MaxChunk
    BY <2>1, ChunkIs
  <2>3. q \in Int /\ s <= q /\ q < gaps[s]
    BY <2>1, <2>2, ChunkAssumption
  <2> QED
    BY <2>3, InCovered DEF IInv
<1>5. ASSUME NEW q \in Covered
      PROVE  \E c \in pending_gaps : q \in c.start_seq .. (c.start_seq + c.count - 1)
  <2>1. q \in Int
    BY CoveredInt DEF IInv
  <2>2. PICK s \in DOMAIN gaps : s <= q /\ q < gaps[s]
    BY <2>1, InCovered DEF IInv
  <2>3. s \in Nat /\ gaps[s] \in Nat /\ q \in s .. (gaps[s] - 1)
    BY <2>1, <2>2 DEF IInv, GapsOK
  <2>4. PICK c \in Chunks(s, gaps[s]) : c.start_seq <= q /\ q < c.start_seq + c.count
    BY <2>3, ChunkOf
  <2>5. c \in pending_gaps
    BY <2>4 DEF pending_gaps
  <2>6. c.start_seq \in Nat /\ c.count \in 1 .. MaxChunk
    BY <1>2, <2>5
  <2> QED
    BY <2>1, <2>4, <2>5, <2>6, ChunkAssumption
<1> DEFINE at(c) == c.start_seq .. (c.start_seq + c.count - 1)
<1>6. \A c, d \in pending_gaps : c # d => at(c) \cap at(d) = {}
  <2> SUFFICES ASSUME NEW c \in pending_gaps, NEW d \in pending_gaps, c # d,
                      NEW q \in at(c), q \in at(d)
               PROVE  FALSE
    OBVIOUS
  <2>1. /\ c.start_seq \in Nat /\ c.count \in 1 .. MaxChunk
        /\ d.start_seq \in Nat /\ d.count \in 1 .. MaxChunk
    BY <1>2
  <2>2. /\ q \in Int /\ c.start_seq <= q /\ q < c.start_seq + c.count
        /\ d.start_seq <= q /\ q < d.start_seq + d.count
    BY <2>1, ChunkAssumption
  <2> QED
    BY <1>3, <2>2
<1>7. UNION {at(c) : c \in pending_gaps} = Covered
  BY <1>4, <1>5
<1> HIDE DEF at
<1>8. \A c \in pending_gaps : c.count \in 1 .. MaxChunk
  BY <1>2
<1> QED
  BY <1>2, <1>6, <1>7, <1>8 DEF ChunksPartition, at

\* pending_gaps of the receiver's map: chunks that fit the u16 count, do not overlap and
\* together name exactly the tracked numbers, for every chunk limit.
THEOREM ChunksPartitionGaps == Spec => []ChunksPartition
<1>1. Init => RecoveryInv
  BY InitExact DEF Init, RecoveryInv
<1>2. RecoveryInv /\ [Next]_vars => RecoveryInv'
  BY RecoveryStep
<1>3. RecoveryInv => ChunksPartition
  BY PendingIs DEF RecoveryInv
<1> QED
  BY <1>1, <1>2, <1>3, PTL DEF Spec

----------------------------------------------------------------------------
(* What the emitter remembers. *)

RequestedOK == requested \subseteq [start : Nat, stop : Nat, age : Nat]

LEMMA SeparatedIs ==
    ASSUME Emitter!RequestedSeparated, NEW r \in requested, NEW s \in requested
    PROVE  r.start < r.stop /\ (r # s => r.stop < s.start \/ s.stop < r.start)
BY DEF Emitter!RequestedSeparated

\* The widened range: it holds the new one and everything touched, and its bounds are
\* bounds of those.
LEMMA MergedIs ==
    ASSUME RequestedOK, Emitter!RequestedSeparated, NEW start \in Nat, NEW stop \in Nat, start < stop
    PROVE  LET m == Emitter!merged(start, stop)
               T == Emitter!touched(start, stop)
           IN  /\ m \in [start : Nat, stop : Nat, age : Nat] /\ m.age = 0
               /\ m.start <= start /\ stop <= m.stop
               /\ \A r \in T : m.start <= r.start /\ r.stop <= m.stop
               /\ m.start = start \/ \E r \in T : m.start = r.start
               /\ m.stop = stop \/ \E r \in T : m.stop = r.stop
<1> DEFINE T == Emitter!touched(start, stop)
           L == {start} \cup {r.start : r \in T}
           H == {stop} \cup {r.stop : r \in T}
           m == Emitter!merged(start, stop)
<1>1. \A r \in T : /\ r \in requested /\ r.start \in Nat /\ r.stop \in Nat
                   /\ r.start <= stop /\ start <= r.stop
  BY DEF Emitter!touched, RequestedOK
<1>2. m = [start |-> Emitter!Lowest(L), stop |-> Emitter!Highest(H), age |-> 0]
  BY DEF Emitter!merged
<1> HIDE DEF T, m
<1>3. L \subseteq Nat /\ start \in L /\ \A r \in T : r.start \in L
  BY <1>1
<1>4. \A x \in L : x = start \/ \E r \in T : x = r.start
  OBVIOUS
<1>5. H \subseteq Nat /\ stop \in H /\ \A r \in T : r.stop \in H
  BY <1>1
<1>6. \A x \in H : x = stop \/ \E r \in T : x = r.stop
  OBVIOUS
<1> HIDE DEF L, H
<1>7. Emitter!Lowest(L) \in L /\ \A y \in L : Emitter!Lowest(L) <= y
  <2>1. \E x \in L : \A y \in L : x <= y
    BY <1>3, LeastNat, Zenon
  <2> QED
    BY <2>1 DEF Emitter!Lowest
<1>8. \E x \in H : \A y \in H : x >= y
  <2>1. CASE \A r \in T : r.stop <= stop
    <3>1. \A y \in H : stop >= y
      BY <1>5, <1>6, <2>1
    <3> QED
      BY <1>5, <3>1
  <2>2. ASSUME NEW t \in T, ~(t.stop <= stop) PROVE \E x \in H : \A y \in H : x >= y
    <3>1. ASSUME NEW r \in T PROVE r.stop <= t.stop
      <4>1. /\ r \in requested /\ t \in requested /\ r.start \in Nat /\ r.stop \in Nat
            /\ t.start \in Nat /\ t.stop \in Nat /\ t.start <= stop /\ r.start <= stop
        BY <1>1
      <4>2. r # t => r.stop < t.start \/ t.stop < r.start
        BY <4>1, SeparatedIs
      <4> QED
        BY <2>2, <4>1, <4>2
    <3>2. ASSUME NEW y \in H PROVE t.stop >= y
      BY <1>1, <1>5, <1>6, <2>2, <3>1
    <3> QED
      BY <1>5, <3>2, Zenon
  <2> QED
    BY <2>1, <2>2
<1>9. Emitter!Highest(H) \in H /\ \A y \in H : Emitter!Highest(H) >= y
  BY <1>8 DEF Emitter!Highest
<1>10. /\ m.start = Emitter!Lowest(L) /\ m.stop = Emitter!Highest(H) /\ m.age = 0
       /\ m \in [start : Nat, stop : Nat, age : Nat]
  BY <1>2, <1>3, <1>5, <1>7, <1>9, Zenon
<1>11. m.start <= start /\ \A r \in T : m.start <= r.start
  BY <1>3, <1>7, <1>10, Zenon
<1>12. stop <= m.stop /\ \A r \in T : r.stop <= m.stop
  BY <1>1, <1>5, <1>9, <1>10
<1>13. m.start = start \/ \E r \in T : m.start = r.start
  BY <1>4, <1>7, <1>10
<1>14. m.stop = stop \/ \E r \in T : m.stop = r.stop
  BY <1>6, <1>9, <1>10
<1> QED
  BY <1>10, <1>11, <1>12, <1>13, <1>14 DEF T, m

\* mark_requested keeps the ranges disjoint and non-adjacent, and forgets nothing.
LEMMA MarkSeparates ==
    ASSUME RequestedOK, Emitter!RequestedSeparated, NEW start \in Nat, NEW stop \in Nat,
           start < stop, Emitter!mark_requested(start, stop)
    PROVE  /\ RequestedOK' /\ Emitter!RequestedSeparated'
           /\ \E m \in requested' : m.age = 0 /\ m.start <= start /\ stop <= m.stop
           /\ \A r \in requested : \E m \in requested' :
                /\ m.start <= r.start /\ r.stop <= m.stop
                /\ m = r \/ m.age = 0
<1> DEFINE T == Emitter!touched(start, stop)
           m == Emitter!merged(start, stop)
<1>1. /\ m \in [start : Nat, stop : Nat, age : Nat] /\ m.age = 0
      /\ m.start <= start /\ stop <= m.stop
      /\ \A r \in T : m.start <= r.start /\ r.stop <= m.stop
      /\ m.start = start \/ \E r \in T : m.start = r.start
      /\ m.stop = stop \/ \E r \in T : m.stop = r.stop
  BY MergedIs, SMTT(30)
<1>2. requested' = (requested \ T) \cup {m}
  BY DEF Emitter!mark_requested
<1>3. /\ \A r \in requested \ T : r.start > stop \/ start > r.stop
      /\ \A r \in T : r \in requested /\ r.start <= stop /\ start <= r.stop
      /\ \A r \in requested : r.start \in Nat /\ r.stop \in Nat
  BY DEF Emitter!touched, RequestedOK
<1> HIDE DEF T, m
<1>4. RequestedOK'
  BY <1>1, <1>2 DEF RequestedOK
<1>5. m.start < m.stop /\ m.start \in Nat /\ m.stop \in Nat
  BY <1>1
<1>6. ASSUME NEW r \in requested \ T PROVE r.stop < m.start \/ m.stop < r.start
  <2>1. r \in requested /\ r.start < r.stop /\ r.start \in Nat /\ r.stop \in Nat
    BY <1>3, SeparatedIs
  <2>2. CASE r.start > stop
    <3>1. ASSUME NEW t \in T, m.stop = t.stop PROVE m.stop < r.start
      <4>1. t \in requested /\ t # r /\ t.start <= stop /\ t.start \in Nat /\ t.stop \in Nat
        BY <1>3
      <4>2. r.stop < t.start \/ t.stop < r.start
        BY <2>1, <4>1, SeparatedIs
      <4> QED
        BY <2>1, <2>2, <3>1, <4>1, <4>2
    <3> QED
      BY <1>1, <2>2, <3>1
  <2>3. CASE start > r.stop
    <3>1. ASSUME NEW t \in T, m.start = t.start PROVE r.stop < m.start
      <4>1. t \in requested /\ t # r /\ start <= t.stop /\ t.start \in Nat /\ t.stop \in Nat
        BY <1>3
      <4>2. r.stop < t.start \/ t.stop < r.start
        BY <2>1, <4>1, SeparatedIs
      <4> QED
        BY <2>1, <2>3, <3>1, <4>1, <4>2
    <3> QED
      BY <1>1, <2>3, <3>1
  <2> QED
    BY <1>3, <2>2, <2>3
<1>7. Emitter!RequestedSeparated'
  <2>1. \A r, s \in requested \ T : r.start < r.stop /\ (r # s => r.stop < s.start \/ s.stop < r.start)
    BY SeparatedIs
  <2>2. \A r, s \in requested' : r.start < r.stop /\ (r # s => r.stop < s.start \/ s.stop < r.start)
    BY <1>2, <1>5, <1>6, <2>1
  <2> QED
    BY <2>2 DEF Emitter!RequestedSeparated
<1>8. m \in requested'
  BY <1>2
<1>9. ASSUME NEW r \in requested
      PROVE  \E n \in requested' : /\ n.start <= r.start /\ r.stop <= n.stop
                                   /\ n = r \/ n.age = 0
  <2>1. CASE r \in T
    BY <2>1, <1>1, <1>8
  <2>2. CASE r \notin T
    <3>1. r \in requested' /\ r.start <= r.start /\ r.stop <= r.stop
      BY <2>2, <1>2, <1>3
    <3> QED
      BY <3>1
  <2> QED
    BY <2>1, <2>2
<1> QED
  BY <1>1, <1>4, <1>7, <1>8, <1>9

----------------------------------------------------------------------------
(* The recovery loop. *)

\* AskedRemembered and what its induction needs: only numbers of the session are tracked
\* and asked for.
LoopInv ==
    /\ RecoveryInv /\ next_unseen >= 1 /\ Covered \subseteq Seqs
    /\ \A c \in due : /\ c.start_seq \in Nat /\ c.count \in Nat \ {0}
                      /\ span(c) \subseteq Seqs
    /\ RequestedOK
    /\ asked \in [Seqs -> 0 .. Interval]
    /\ AskedRemembered

LEMMA LoopInit == Init => LoopInv
<1> SUFFICES ASSUME Init PROVE LoopInv
  OBVIOUS
<1>1. RecoveryInv /\ Covered = {}
  BY InitExact DEF Init, RecoveryInv, Missing!Init
<1>2. requested = {} /\ due = {} /\ next_unseen = 1 /\ asked = [q \in Seqs |-> Interval]
  BY DEF Init, Emitter!Init
<1>3. AskedRemembered
  BY <1>2, TicksAssumption DEF AskedRemembered, Emitter!RequestedSeparated
<1> QED
  BY <1>1, <1>2, <1>3, TicksAssumption DEF LoopInv, RequestedOK

\* A range recorded past the highest sequence seen is a range of the session.
LEMMA OpenExact ==
    ASSUME LoopInv, NEW seq \in Seqs, NEW count \in 0 .. 1, OpenGap(seq, count)
    PROVE  /\ RecoveryInv' /\ next_unseen' >= 1
           /\ next_unseen \in Seqs /\ Covered' = Covered \cup (next_unseen .. (seq - 1))
           /\ Covered' \subseteq Seqs
<1>1. seq \in Nat /\ next_unseen \in Nat /\ next_unseen >= 1 /\ seq > next_unseen
  BY SeqsAssumption DEF OpenGap, LoopInv, RecoveryInv
<1>2. RecoveryInv'
  BY RecoveryStep DEF LoopInv, Next
<1>3. Covered' = Covered \cup (next_unseen .. (seq - 1))
  BY <1>1, RecordExact DEF OpenGap, LoopInv, RecoveryInv
<1>4. next_unseen .. (seq - 1) \subseteq 1 .. seq /\ next_unseen \in 1 .. seq
  BY <1>1
<1>5. 1 .. seq \subseteq Seqs
  BY SessionAssumption
<1> QED
  BY <1>1, <1>2, <1>3, <1>4, <1>5 DEF OpenGap, LoopInv

LEMMA ConfirmExact ==
    ASSUME LoopInv, NEW seq \in Seqs, ConfirmGap(seq)
    PROVE  RecoveryInv' /\ Covered' = Covered \cup (seq .. ((seq + 1) - 1)) /\ Covered' \subseteq Seqs
<1>1. seq \in Nat /\ seq + 1 \in Nat
  BY SeqsAssumption
<1>2. RecoveryInv'
  BY RecoveryStep DEF LoopInv, Next
<1>3. Covered' = Covered \cup (seq .. ((seq + 1) - 1))
  BY <1>1, RecordExact DEF ConfirmGap, record_gap, LoopInv, RecoveryInv
<1>4. seq .. ((seq + 1) - 1) = {seq}
  BY <1>1
<1> QED
  BY <1>2, <1>3, <1>4 DEF LoopInv

LEMMA ArrivalExact ==
    ASSUME LoopInv, NEW seq \in Seqs, Arrival(seq)
    PROVE  RecoveryInv' /\ Covered' = Covered \ {seq} /\ Covered' \subseteq Seqs
<1>1. seq \in Nat
  BY SeqsAssumption
<1>2. RecoveryInv'
  BY RecoveryStep DEF LoopInv, Next
<1>3. Covered' = Covered \ {seq}
  BY <1>1, ReceiveExact DEF Arrival, LoopInv, RecoveryInv
<1> QED
  BY <1>2, <1>3 DEF LoopInv

\* Asking for a chunk, whether or not the socket takes it.
LEMMA AskKeeps ==
    ASSUME LoopInv, NEW chunk \in due,
           Emitter!mark_requested(chunk.start_seq, Emitter!end(chunk)), Asking(chunk)
    PROVE  RequestedOK' /\ asked' \in [Seqs -> 0 .. Interval] /\ AskedRemembered'
<1> DEFINE start == chunk.start_seq
           stop == Emitter!end(chunk)
<1>1. start \in Nat /\ stop \in Nat /\ start < stop
  BY DEF LoopInv, Emitter!end
<1>2. span(chunk) = start .. (stop - 1)
  BY DEF span
<1>3. Emitter!mark_requested(start, stop) /\ RequestedOK /\ Emitter!RequestedSeparated
  BY DEF LoopInv, AskedRemembered
<1> HIDE DEF start, stop
<1>4. /\ RequestedOK' /\ Emitter!RequestedSeparated'
      /\ \E m \in requested' : m.age = 0 /\ m.start <= start /\ stop <= m.stop
      /\ \A r \in requested : \E m \in requested' :
            /\ m.start <= r.start /\ r.stop <= m.stop
            /\ m = r \/ m.age = 0
  BY <1>1, <1>3, MarkSeparates
<1>5. asked' = [q \in Seqs |-> IF q \in span(chunk) THEN 0 ELSE asked[q]]
  BY DEF Asking
<1>6. asked \in [Seqs -> 0 .. Interval]
  BY DEF LoopInv
<1>7. asked' \in [Seqs -> 0 .. Interval]
  BY <1>5, <1>6, TicksAssumption
<1>8. ASSUME NEW q \in Seqs, asked'[q] < Interval
      PROVE  \E r \in requested' : r.start <= q /\ q < r.stop /\ r.age <= asked'[q]
  <2>0. q \in Nat /\ \A r \in requested' : r.start \in Nat /\ r.stop \in Nat
    BY <1>4, SeqsAssumption DEF RequestedOK
  <2>1. CASE q \in span(chunk)
    <3>1. asked'[q] = 0 /\ start <= q /\ q < stop
      BY <1>1, <1>2, <1>5, <2>0, <2>1
    <3>2. PICK m \in requested' : m.age = 0 /\ m.start <= start /\ stop <= m.stop
      BY <1>4
    <3>3. m.start <= q /\ q < m.stop /\ m.age <= asked'[q]
      BY <1>1, <2>0, <3>1, <3>2
    <3> QED
      BY <3>3
  <2>2. CASE q \notin span(chunk)
    <3>1. asked'[q] = asked[q] /\ asked[q] \in Nat
      BY <1>5, <1>6, <2>2, TicksAssumption
    <3>2. PICK r \in requested : r.start <= q /\ q < r.stop /\ r.age <= asked[q]
      BY <1>8, <3>1 DEF LoopInv, AskedRemembered
    <3>3. PICK m \in requested' : /\ m.start <= r.start /\ r.stop <= m.stop
                                  /\ m = r \/ m.age = 0
      BY <1>4
    <3>4. r.start \in Nat /\ r.stop \in Nat
      BY <1>3 DEF RequestedOK
    <3>5. m.start <= q /\ q < m.stop /\ m.age <= asked'[q]
      BY <2>0, <3>1, <3>2, <3>3, <3>4
    <3> QED
      BY <3>5
  <2> QED
    BY <2>1, <2>2
<1> QED
  BY <1>4, <1>7, <1>8 DEF AskedRemembered

\* Pruning at the start of a round forgets no range that still limits something.
LEMMA PruneKeeps ==
    ASSUME LoopInv, send_due
    PROVE  RequestedOK' /\ AskedRemembered'
           /\ \A c \in due' : /\ c.start_seq \in Nat /\ c.count \in Nat \ {0}
                              /\ span(c) \subseteq Seqs
<1>1. requested' = {r \in requested : r.age < Interval} /\ due' = pending_gaps /\ asked' = asked
  BY DEF send_due, Emitter!emit
<1>2. RequestedOK' /\ requested' \subseteq requested
  BY <1>1 DEF LoopInv, RequestedOK
<1>3. Emitter!RequestedSeparated'
  BY <1>2 DEF LoopInv, AskedRemembered, Emitter!RequestedSeparated
<1>4. ASSUME NEW q \in Seqs, asked'[q] < Interval
      PROVE  \E r \in requested' : r.start <= q /\ q < r.stop /\ r.age <= asked'[q]
  <2>1. PICK r \in requested : r.start <= q /\ q < r.stop /\ r.age <= asked[q]
    BY <1>1, <1>4 DEF LoopInv, AskedRemembered
  <2>2. r.age \in Nat /\ asked[q] \in Nat /\ asked[q] < Interval
    BY <1>1, <1>4, TicksAssumption DEF LoopInv, RequestedOK
  <2>3. r.age < Interval
    BY <2>1, <2>2, TicksAssumption
  <2> QED
    BY <1>1, <2>1, <2>3
<1>5. ASSUME NEW c \in due'
      PROVE  c.start_seq \in Nat /\ c.count \in Nat \ {0} /\ span(c) \subseteq Seqs
  <2>1. /\ c \in pending_gaps /\ c.start_seq \in Nat /\ c.count \in 1 .. MaxChunk
        /\ ChunksPartition
    BY <1>1, PendingIs DEF LoopInv, RecoveryInv
  <2>2. c.start_seq .. (c.start_seq + c.count - 1) \subseteq Covered
    BY <2>1 DEF ChunksPartition
  <2>3. span(c) = c.start_seq .. (c.start_seq + c.count - 1)
    BY <2>1, ChunkAssumption DEF span, Emitter!end
  <2> QED
    BY <2>1, <2>2, <2>3, ChunkAssumption DEF LoopInv
<1> QED
  BY <1>2, <1>3, <1>4, <1>5 DEF AskedRemembered

\* A tick ages the ranges and the history alike.
LEMMA TickKeeps ==
    ASSUME LoopInv, Tick
    PROVE  RequestedOK' /\ asked' \in [Seqs -> 0 .. Interval] /\ AskedRemembered'
<1>1. /\ requested' = {[r EXCEPT !.age = Emitter!Older(@)] : r \in requested}
      /\ asked' = [q \in Seqs |-> Emitter!Older(asked[q])]
  BY DEF Tick, Emitter!Age
<1>2. \A a \in Nat : /\ Emitter!Older(a) \in Nat
                     /\ a <= Interval => Emitter!Older(a) <= Interval
                     /\ Emitter!Older(a) < Interval => Emitter!Older(a) = a + 1
                     /\ a < Interval => Emitter!Older(a) = a + 1
  BY TicksAssumption DEF Emitter!Older
<1>3. \A r \in requested : r \in [start : Nat, stop : Nat, age : Nat]
  BY DEF LoopInv, RequestedOK
<1> DEFINE older(r) == [r EXCEPT !.age = Emitter!Older(@)]
<1>4. ASSUME NEW r \in requested
      PROVE  /\ older(r) \in requested' /\ older(r).start = r.start /\ older(r).stop = r.stop
             /\ older(r).age = Emitter!Older(r.age)
             /\ older(r) \in [start : Nat, stop : Nat, age : Nat]
  BY <1>1, <1>2, <1>3
<1>5. \A x \in requested' : \E r \in requested : x = older(r)
  BY <1>1
<1> HIDE DEF older
<1>6. RequestedOK'
  BY <1>4, <1>5 DEF RequestedOK
<1>7. Emitter!RequestedSeparated'
  <2>1. ASSUME NEW x \in requested', NEW y \in requested'
        PROVE  x.start < x.stop /\ (x # y => x.stop < y.start \/ y.stop < x.start)
    <3>1. PICK r \in requested : x = older(r)
      BY <1>5
    <3>2. PICK s \in requested : y = older(s)
      BY <1>5
    <3>3. r.start < r.stop /\ (r # s => r.stop < s.start \/ s.stop < r.start)
      BY SeparatedIs DEF LoopInv, AskedRemembered
    <3> QED
      BY <1>4, <3>1, <3>2, <3>3
  <2> QED
    BY <2>1 DEF Emitter!RequestedSeparated
<1>8. asked \in [Seqs -> 0 .. Interval]
  BY DEF LoopInv
<1>9. asked' \in [Seqs -> 0 .. Interval]
  <2>1. \A q \in Seqs : asked[q] \in Nat /\ asked[q] <= Interval
    BY <1>8, TicksAssumption
  <2>2. ASSUME NEW q \in Seqs PROVE Emitter!Older(asked[q]) \in 0 .. Interval
    <3>1. Emitter!Older(asked[q]) \in Nat /\ Emitter!Older(asked[q]) <= Interval
      BY <1>2, <2>1
    <3> QED
      BY <3>1, TicksAssumption
  <2> QED
    BY <1>1, <2>2
<1>10. ASSUME NEW q \in Seqs, asked'[q] < Interval
       PROVE  \E r \in requested' : r.start <= q /\ q < r.stop /\ r.age <= asked'[q]
  <2>1. asked[q] \in Nat /\ asked'[q] = asked[q] + 1 /\ asked[q] < Interval
    BY <1>1, <1>2, <1>8, <1>10, TicksAssumption
  <2>2. PICK r \in requested : r.start <= q /\ q < r.stop /\ r.age <= asked[q]
    BY <2>1 DEF LoopInv, AskedRemembered
  <2>3. r.age \in Nat /\ r.age < Interval
    BY <1>3, <2>1, <2>2, TicksAssumption
  <2>4. older(r).age = r.age + 1
    BY <1>2, <1>4, <2>3
  <2> QED
    BY <1>4, <2>1, <2>2, <2>3, <2>4
<1> QED
  BY <1>6, <1>7, <1>9, <1>10 DEF AskedRemembered

LEMMA LoopStep == LoopInv /\ [Next]_vars => LoopInv'
<1> SUFFICES ASSUME LoopInv, [Next]_vars PROVE LoopInv'
  OBVIOUS
<1>1. CASE UNCHANGED <<requested, due, asked>> /\ RecoveryInv' /\ next_unseen' >= 1
           /\ Covered' \subseteq Seqs
  BY <1>1 DEF LoopInv, RequestedOK, AskedRemembered, Emitter!RequestedSeparated
<1>2. ASSUME NEW seq \in Seqs, NEW count \in 0 .. 1, OpenGap(seq, count)
      PROVE  LoopInv'
  BY <1>1, <1>2, OpenExact, Zenon DEF OpenGap
<1>3. ASSUME NEW seq \in Seqs, ConfirmGap(seq)
      PROVE  LoopInv'
  BY <1>1, <1>3, ConfirmExact DEF ConfirmGap, LoopInv
<1>4. ASSUME NEW seq \in Seqs, Arrival(seq)
      PROVE  LoopInv'
  BY <1>1, <1>4, ArrivalExact DEF Arrival, LoopInv
<1>5. CASE UNCHANGED <<gaps, next_unseen>>
  <2>1. RecoveryInv' /\ next_unseen' >= 1 /\ Covered' \subseteq Seqs
    BY <1>5, RecoveryStep DEF LoopInv, Covered
  <2>2. CASE send_due
    BY <2>1, <2>2, PruneKeeps DEF send_due, LoopInv
  <2>3. CASE Tick
    BY <2>1, <2>3, TickKeeps DEF Tick, LoopInv
  <2>4. ASSUME NEW chunk \in due, Skip(chunk) \/ WouldBlock(chunk)
        PROVE  LoopInv'
    <3>1. UNCHANGED <<requested, asked>> /\ due' \subseteq due
      BY <2>4 DEF Skip, WouldBlock, Emitter!Skip, Emitter!WouldBlock
    <3>2. \A c \in due' : /\ c.start_seq \in Nat /\ c.count \in Nat \ {0}
                          /\ span(c) \subseteq Seqs
      BY <3>1 DEF LoopInv
    <3>3. RequestedOK' /\ AskedRemembered' /\ asked' \in [Seqs -> 0 .. Interval]
      BY <3>1 DEF LoopInv, RequestedOK, AskedRemembered, Emitter!RequestedSeparated
    <3> QED
      BY <2>1, <3>2, <3>3 DEF LoopInv
  <2>5. ASSUME NEW chunk \in due, Send(chunk) \/ SendFails(chunk)
        PROVE  LoopInv'
    <3>1. /\ Emitter!mark_requested(chunk.start_seq, Emitter!end(chunk)) /\ Asking(chunk)
          /\ due' \subseteq due
      BY <2>5 DEF Send, SendFails, Emitter!Send, Emitter!SendFails
    <3>2. \A c \in due' : /\ c.start_seq \in Nat /\ c.count \in Nat \ {0}
                          /\ span(c) \subseteq Seqs
      BY <3>1 DEF LoopInv
    <3>3. RequestedOK' /\ asked' \in [Seqs -> 0 .. Interval] /\ AskedRemembered'
      BY <3>1, AskKeeps
    <3> QED
      BY <2>1, <3>2, <3>3 DEF LoopInv
  <2>6. CASE UNCHANGED vars
    BY <1>1, <2>1, <2>6 DEF vars
  <2> QED
    BY <1>2, <1>3, <1>4, <2>2, <2>3, <2>4, <2>5, <2>6 DEF Next
<1>6. CASE \/ send_due \/ Tick \/ UNCHANGED vars
           \/ \E chunk \in due : Skip(chunk) \/ Send(chunk) \/ SendFails(chunk) \/ WouldBlock(chunk)
  BY <1>5, <1>6 DEF send_due, Tick, vars, Skip, Send, SendFails, WouldBlock, Asking
<1> QED
  BY <1>2, <1>3, <1>4, <1>6 DEF Next

\* The remembered ranges stay disjoint and non-adjacent, and every number asked for within
\* the last interval lies in one at least as young: merging, pruning and ageing never let
\* a limit lapse early.
THEOREM AskedIsRemembered == Spec => []AskedRemembered
<1>1. LoopInv => AskedRemembered
  BY DEF LoopInv
<1> QED
  BY <1>1, LoopInit, LoopStep, PTL DEF Spec

\* A request that goes out asks for at least one number nobody asked for within the last
\* interval.  Were every number of the chunk remembered, the range that holds its first one
\* would hold them all: it cannot end inside the chunk, because the range that holds the
\* number at its end would touch it.
THEOREM RequestsRateLimited == Spec => RateLimited
<1> DEFINE Limited == \A chunk \in due : Send(chunk) \/ SendFails(chunk) =>
                            \E q \in span(chunk) : asked[q] = Interval
<1>1. LoopInv => Limited
  <2> SUFFICES ASSUME LoopInv, NEW chunk \in due, Send(chunk) \/ SendFails(chunk),
                      \A q \in span(chunk) : asked[q] # Interval
               PROVE  FALSE
    OBVIOUS
  <2> DEFINE start == chunk.start_seq
             stop == Emitter!end(chunk)
  <2>1. start \in Nat /\ stop \in Nat /\ start < stop /\ span(chunk) = start .. (stop - 1)
    BY DEF LoopInv, Emitter!end, span
  <2>2. ~\E r \in requested : r.start <= start /\ stop <= r.stop
    BY DEF Send, SendFails, Emitter!Send, Emitter!SendFails, Emitter!covered
  <2> HIDE DEF start, stop
  <2>3. ASSUME NEW q \in span(chunk)
        PROVE  \E r \in requested : r.start <= q /\ q < r.stop
    <3>1. q \in Seqs /\ asked[q] \in 0 .. Interval
      BY DEF LoopInv
    <3>2. asked[q] < Interval
      BY <3>1, TicksAssumption
    <3> QED
      BY <3>1, <3>2 DEF LoopInv, AskedRemembered
  <2>4. \A r \in requested : r.start \in Nat /\ r.stop \in Nat
    BY DEF LoopInv, RequestedOK
  <2>5. PICK r \in requested : r.start <= start /\ start < r.stop
    <3>1. start \in span(chunk)
      BY <2>1
    <3> QED
      BY <2>3, <3>1
  <2>6. r.stop \in span(chunk)
    BY <2>1, <2>2, <2>4, <2>5
  <2>7. PICK s \in requested : s.start <= r.stop /\ r.stop < s.stop
    BY <2>3, <2>6
  <2>8. r # s /\ (r.stop < s.start \/ s.stop < r.start)
    <3>1. r # s
      BY <2>4, <2>7
    <3> QED
      BY <3>1, SeparatedIs DEF LoopInv, AskedRemembered
  <2> QED
    BY <2>1, <2>4, <2>5, <2>7, <2>8
<1>2. LoopInv /\ [Next]_vars => [Limited]_vars
  BY <1>1
<1>3. Spec => [][Limited]_vars
  BY <1>2, LoopInit, LoopStep, PTL DEF Spec
<1> QED
  BY <1>3 DEF RateLimited

\* The receiver's own use of the map is a set of missing numbers: every step of the loop
\* records a range of the session, clears one arrival, or leaves the set alone.
THEOREM RecoveryTracksMissing == Spec => TracksMissing
<1>1. Init => Missing!Init
  BY InitExact DEF Init
<1>2. ASSUME LoopInv, [Next]_vars PROVE [Missing!Next]_Covered
  <2>1. ASSUME NEW seq \in Seqs, NEW count \in 0 .. 1, OpenGap(seq, count)
        PROVE  Missing!Next
    BY <1>2, <2>1, OpenExact DEF Missing!Next, Missing!Record
  <2>2. ASSUME NEW seq \in Seqs, ConfirmGap(seq)
        PROVE  Missing!Next
    BY <1>2, <2>2, ConfirmExact DEF Missing!Next, Missing!Record
  <2>3. ASSUME NEW seq \in Seqs, Arrival(seq)
        PROVE  Missing!Next
    BY <1>2, <2>3, ArrivalExact DEF Missing!Next, Missing!Receive
  <2>4. CASE \/ send_due \/ Tick \/ UNCHANGED vars
             \/ \E chunk \in due : Skip(chunk) \/ Send(chunk) \/ SendFails(chunk) \/ WouldBlock(chunk)
    <3>1. gaps' = gaps
      BY <2>4 DEF send_due, Tick, vars, Skip, Send, SendFails, WouldBlock, Asking
    <3> QED
      BY <3>1 DEF Covered
  <2> QED
    BY <1>2, <2>1, <2>2, <2>3, <2>4 DEF Next
<1> QED
  BY <1>1, <1>2, LoopInit, LoopStep, PTL DEF Spec, TracksMissing, Missing!Spec
=============================================================================
