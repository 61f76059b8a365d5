---------------------------- MODULE TransportsProofs ----------------------------
(***************************************************************************)
(* The receive transports for every size of ring, pool and queue, every    *)
(* batch the caller brings and every frame.                                *)
(***************************************************************************)
EXTENDS Transports, FiniteSetTheorems, SequenceTheorems, TLAPS

\* A set of natural numbers has a least element.
LEMMA LeastNat ==
    ASSUME NEW S, S \subseteq Nat, S # {}
    PROVE  \E x \in S : \A y \in S : x <= y
<1>1. IsWellFoundedOn(OpToRel(<, Nat), Nat)
  BY NatLessThanWellFounded
<1>2. PICK x \in S : \A y \in S : ~(<<y, x>> \in OpToRel(<, Nat))
  BY <1>1, WFMin
<1>3. \A y \in S : ~(y < x)
  BY <1>2, Zenon DEF OpToRel
<1> QED
  BY <1>3

----------------------------------------------------------------------------
(* How many entries of a sequence are in a set. *)

Count(s, S) == Cardinality({i \in DOMAIN s : s[i] \in S})

LEMMA CountIs ==
    ASSUME NEW T, NEW s \in Seq(T), NEW S
    PROVE  /\ IsFiniteSet({i \in DOMAIN s : s[i] \in S})
           /\ Count(s, S) \in Nat
           /\ s = <<>> => Count(s, S) = 0
<1> DEFINE I == {i \in DOMAIN s : s[i] \in S}
<1>1. I \subseteq 1 .. Len(s) /\ IsFiniteSet(1 .. Len(s))
  BY FS_Interval
<1>2. IsFiniteSet(I)
  BY <1>1, FS_Subset
<1>3. s = <<>> => I = {}
  OBVIOUS
<1> HIDE DEF I
<1>4. Cardinality(I) \in Nat /\ (s = <<>> => Cardinality(I) = 0)
  BY <1>2, <1>3, FS_CardinalityType, FS_EmptySet
<1> QED
  BY <1>2, <1>4 DEF Count, I

LEMMA CountAppend ==
    ASSUME NEW T, NEW s \in Seq(T), NEW e \in T, NEW S
    PROVE  Count(Append(s, e), S) = IF e \in S THEN Count(s, S) + 1 ELSE Count(s, S)
<1> DEFINE I == {i \in DOMAIN s : s[i] \in S}
           J == {i \in DOMAIN Append(s, e) : Append(s, e)[i] \in S}
<1>1. IsFiniteSet(I)
  BY CountIs, Zenon
<1>2. Len(s) + 1 \notin I
  OBVIOUS
<1>3. J = IF e \in S THEN I \cup {Len(s) + 1} ELSE I
  OBVIOUS
<1> HIDE DEF I, J
<1>4. Cardinality(I \cup {Len(s) + 1}) = Cardinality(I) + 1
  BY <1>1, <1>2, FS_AddElement, Zenon
<1> QED
  BY <1>3, <1>4, Zenon DEF Count, I, J

LEMMA CountConcat ==
    ASSUME NEW T, NEW s \in Seq(T), NEW t \in Seq(T), NEW S
    PROVE  Count(s \o t, S) = Count(s, S) + Count(t, S)
<1> DEFINE I == {i \in DOMAIN s : s[i] \in S}
           J == {i \in DOMAIN t : t[i] \in S}
           n == Len(s)
           K == {i \in DOMAIN (s \o t) : (s \o t)[i] \in S}
           M == {i \in K : i > n}
           f == [i \in J |-> n + i]
<1>0. n \in Nat
  OBVIOUS
<1>1. IsFiniteSet(I) /\ IsFiniteSet(J)
  BY CountIs, Zenon
<1>2. J \subseteq Nat \ {0} /\ I \subseteq 1 .. n
  OBVIOUS
<1>3. K = I \cup M
  BY SMTT(30)
<1>4. \A i \in Nat : i \in M <=> i > n /\ i - n \in J
  BY SMTT(30)
<1>5. M \subseteq Nat /\ \A i \in M : i > n
  OBVIOUS
<1> HIDE DEF I, J, K, M, n
<1>6. f \in Injection(J, M)
  <2>1. f \in [J -> M]
    BY <1>0, <1>2, <1>4
  <2>2. \A i, j \in J : f[i] = f[j] => i = j
    BY <1>0, <1>2
  <2> QED
    BY <2>1, <2>2 DEF Injection, IsInjective
<1>7. f \in Surjection(J, M)
  <2>1. f \in [J -> M]
    BY <1>0, <1>2, <1>4
  <2>2. ASSUME NEW m \in M PROVE \E j \in J : f[j] = m
    <3>1. m - n \in J /\ f[m - n] = m
      BY <1>0, <1>4, <1>5
    <3> QED
      BY <3>1
  <2> QED
    BY <2>1, <2>2 DEF Surjection
<1>8. ExistsBijection(J, M)
  BY <1>6, <1>7 DEF ExistsBijection, Bijection
<1>9. IsFiniteSet(M) /\ Cardinality(M) = Cardinality(J)
  BY <1>1, <1>8, FS_Bijection
<1>10. I \cap M = {}
  BY <1>0, <1>2, <1>5
<1>11. Cardinality(I \cup M) = Cardinality(I) + Cardinality(M) - Cardinality({})
  BY <1>1, <1>9, <1>10, FS_Union
<1>12. Cardinality(K) = Cardinality(I) + Cardinality(J)
  BY <1>1, <1>3, <1>9, <1>11, FS_EmptySet, FS_CardinalityType
<1> QED
  BY <1>12, Zenon DEF Count, I, J, K

LEMMA CountConstant ==
    ASSUME NEW n \in Nat, NEW e, NEW S, NEW s, s = [i \in 1 .. n |-> e]
    PROVE  Count(s, S) = IF e \in S THEN n ELSE 0
<1> DEFINE I == {i \in DOMAIN s : s[i] \in S}
<1>1. I = IF e \in S THEN 1 .. n ELSE {}
  OBVIOUS
<1>2. Cardinality(1 .. n) = n
  BY FS_Interval
<1> QED
  BY <1>1, <1>2, FS_EmptySet, Zenon DEF Count

\* The entries in a set, before and after a point.
LEMMA CountSplit ==
    ASSUME NEW T, NEW s \in Seq(T), NEW n \in 0 .. Len(s), NEW S
    PROVE  /\ SubSeq(s, 1, n) \in Seq(T) /\ Len(SubSeq(s, 1, n)) = n
           /\ SubSeq(s, n + 1, Len(s)) \in Seq(T)
           /\ Count(s, S) = Count(SubSeq(s, 1, n), S) + Count(SubSeq(s, n + 1, Len(s)), S)
<1> DEFINE a == SubSeq(s, 1, n)
           b == SubSeq(s, n + 1, Len(s))
<1>1. a \in Seq(T) /\ Len(a) = n /\ b \in Seq(T)
  OBVIOUS
<1>2. a \o b = s
  <2>1. a \o b = SubSeq(s, 1, Len(s))
    <3>1. 1 \in 1 .. Len(s) + 1 /\ n \in 1 - 1 .. Len(s) /\ Len(s) \in n .. Len(s)
      OBVIOUS
    <3> QED
      BY <3>1, ConcatAdjacentSubSeq, Zenon
  <2> QED
    BY <2>1, SubSeqFull, Zenon
<1> HIDE DEF a, b
<1>3. Count(a \o b, S) = Count(a, S) + Count(b, S)
  BY <1>1, CountConcat
<1> QED
  BY <1>1, <1>2, <1>3, Zenon DEF a, b

----------------------------------------------------------------------------
(* The io_uring driver's count of armed recvs. *)

Sqes == [op : {"recv", "cancel", "provide"}, slots : SUBSET SlotIds]
Cqes == [ud : {"recv", "provide"}, res : Int, bid : SlotIds \cup {NoSlot}, more : BOOLEAN,
         slots : SUBSET SlotIds]

IsUring(u) ==
    /\ u = [path |-> u.path, sq |-> u.sq, cq |-> u.cq, requests |-> u.requests, group |-> u.group,
            armed |-> u.armed, starved |-> u.starved, back |-> u.back, lost |-> u.lost,
            waiting |-> u.waiting, mem |-> u.mem]
    /\ u.sq \in Seq(Sqes) /\ u.cq \in Seq(Cqes)
    /\ u.requests \in Nat /\ u.armed \in Nat
    /\ u.group \subseteq SlotIds /\ u.back \subseteq SlotIds

Recvs == {e \in Sqes : e.op = "recv"}
Endings(u) == {cqe \in Cqes : ended(u, cqe)}

\* `more` recvs than the fleet counts are queued, held or ended without being read.
Counted(u, more) ==
    /\ IsUring(u) /\ u.mem = "live"
    /\ u.armed + more = Count(u.sq, Recvs) + u.requests + Count(u.cq, Endings(u))

LEMMA OutstandingIs ==
    ASSUME NEW u, IsUring(u)
    PROVE  Outstanding(u) = Count(u.sq, Recvs) + u.requests + Count(u.cq, Endings(u))
<1>1. {i \in DOMAIN u.sq : u.sq[i].op = "recv"} = {i \in DOMAIN u.sq : u.sq[i] \in Recvs}
  BY DEF IsUring, Recvs
<1>2. {i \in DOMAIN u.cq : ended(u, u.cq[i])} = {i \in DOMAIN u.cq : u.cq[i] \in Endings(u)}
  BY DEF IsUring, Endings
<1> QED
  BY <1>1, <1>2, Zenon DEF Outstanding, Count

\* Whether a completion ends its request depends on the driver's path alone.
LEMMA EndingsOf ==
    ASSUME NEW u, NEW v, u.path = v.path
    PROVE  Endings(u) = Endings(v)
BY DEF Endings, ended

LEMMA CountsAre ==
    ASSUME NEW u, IsUring(u)
    PROVE  Count(u.sq, Recvs) \in Nat /\ Count(u.cq, Endings(u)) \in Nat
BY CountIs, Zenon DEF IsUring

\* The completions of a recv: one with an error ends it, another one says so itself.
LEMMA RecvCqeIs ==
    ASSUME NEW u, NEW res \in Int, NEW bid \in SlotIds \cup {NoSlot}, NEW more \in BOOLEAN
    PROVE  LET cqe == RecvCqe(res, bid, more)
           IN  /\ cqe \in Cqes
               /\ res < 0 => cqe \in Endings(u)
               /\ ~more => cqe \in Endings(u)
               /\ res >= 0 /\ (res = 0 \/ bid # NoSlot) /\ more /\ u.path = "Multishot" =>
                    cqe \notin Endings(u)
<1> DEFINE cqe == RecvCqe(res, bid, more)
<1>1. cqe \in Cqes /\ cqe.ud = "recv" /\ cqe.res = res /\ cqe.bid = bid /\ cqe.more = more
  BY DEF RecvCqe, Cqes
<1> HIDE DEF cqe
<1>2. res < 0 => classify(cqe) \in {"NoBuffers", "Failed"}
  <2>1. CASE res = -ENOBUFS
    <3>1. classify(cqe) = "NoBuffers"
      BY <1>1, <2>1 DEF classify, ENOBUFS
    <3> QED
      BY <3>1
  <2>2. CASE res # -ENOBUFS
    <3>1. res < 0 => classify(cqe) = "Failed"
      BY <1>1, <2>2 DEF classify, ENOBUFS
    <3> QED
      BY <3>1
  <2> QED
    BY <2>1, <2>2
<1>3. res >= 0 /\ (res = 0 \/ bid # NoSlot) => classify(cqe) \notin {"NoBuffers", "Failed"}
  <2> SUFFICES ASSUME res >= 0, res = 0 \/ bid # NoSlot
               PROVE  classify(cqe) \in {"Empty", "Truncated", "Data"}
    OBVIOUS
  <2>1. CASE res = 0 /\ bid = NoSlot
    BY <1>1, <2>1 DEF classify, ENOBUFS
  <2>2. CASE bid # NoSlot /\ res > SlotSize
    BY <1>1, <2>2 DEF classify, ENOBUFS
  <2>3. CASE bid # NoSlot /\ ~(res > SlotSize)
    BY <1>1, <2>3 DEF classify, ENOBUFS
  <2> QED
    BY <2>1, <2>2, <2>3
<1> QED
  BY <1>1, <1>2, <1>3 DEF Endings, ended, IsRecv, cqe

\* A completion that is delivered, or whose slot goes back, names a slot.
LEMMA SlotsOfIs ==
    ASSUME NEW cqes \in Seq(Cqes), NEW kind \in {"Data", "Truncated"}
    PROVE  SlotsOf(cqes, kind) \subseteq SlotIds
<1> SUFFICES ASSUME NEW i \in DOMAIN cqes, IsKind(cqes[i], kind) PROVE cqes[i].bid \in SlotIds
  BY DEF SlotsOf
<1> DEFINE cqe == cqes[i]
<1>1. cqe \in Cqes
  OBVIOUS
<1> HIDE DEF cqe
<1>2. classify(cqe) = kind
  BY DEF IsKind, cqe
<1>3. CASE cqe.bid = NoSlot
  <2>1. cqe.res \in Int
    BY <1>1 DEF Cqes
  <2>2. CASE cqe.res = -ENOBUFS
    BY <1>2, <2>1, <2>2 DEF classify, ENOBUFS
  <2>3. CASE cqe.res < 0 /\ cqe.res # -ENOBUFS
    BY <1>2, <2>1, <2>3 DEF classify, ENOBUFS
  <2>4. CASE cqe.res = 0
    BY <1>2, <1>3, <2>1, <2>4 DEF classify, ENOBUFS
  <2>5. CASE cqe.res > 0
    BY <1>2, <1>3, <2>1, <2>5 DEF classify, ENOBUFS
  <2> QED
    BY <2>1, <2>2, <2>3, <2>4, <2>5
<1> QED
  BY <1>1, <1>3 DEF Cqes, cqe

\* Reading the first completions takes off as many requests as they end.
LEMMA FleetIs ==
    ASSUME NEW u, Counted(u, 0), NEW n \in 0 .. Len(u.cq)
    PROVE  LET cqes == SubSeq(u.cq, 1, n)
               v == fleet_complete(u, cqes)
           IN  /\ IsUring(v) /\ v.path = u.path /\ v.sq = u.sq /\ v.cq = u.cq
               /\ v.requests = u.requests /\ v.mem = u.mem /\ v.back = u.back /\ v.group = u.group
               /\ v.armed = Count(u.sq, Recvs) + u.requests
                                + Count(SubSeq(u.cq, n + 1, Len(u.cq)), Endings(u))
<1> DEFINE cqes == SubSeq(u.cq, 1, n)
           rest == SubSeq(u.cq, n + 1, Len(u.cq))
           v == fleet_complete(u, cqes)
           E == Endings(u)
<1>0. IsUring(u) /\ u.cq \in Seq(Cqes)
  BY DEF Counted, IsUring
<1>1. cqes \in Seq(Cqes) /\ rest \in Seq(Cqes) /\ Count(u.cq, E) = Count(cqes, E) + Count(rest, E)
  <2> HIDE DEF E
  <2> QED
    BY <1>0, CountSplit
<1> HIDE DEF cqes, rest
<1>2. {i \in DOMAIN cqes : ended(u, cqes[i])} = {i \in DOMAIN cqes : cqes[i] \in E}
  BY <1>1 DEF Endings
<1> DEFINE A == Max({u.armed - Count(cqes, E), 0})
           B == u.starved \/ \E i \in DOMAIN cqes : IsKind(cqes[i], "NoBuffers")
<1>3. v = [u EXCEPT !.armed = A, !.starved = B]
  BY <1>2, Zenon DEF fleet_complete, Count
<1> HIDE DEF E, B
<1>4. Count(cqes, E) \in Nat /\ Count(rest, E) \in Nat /\ Count(u.sq, Recvs) \in Nat
  BY <1>0, <1>1, CountIs, CountsAre, Zenon
<1>5. u.armed \in Nat /\ u.requests \in Nat
  BY <1>0 DEF IsUring
<1>6. u.armed = Count(u.sq, Recvs) + u.requests + Count(u.cq, E)
  BY <1>5 DEF Counted, E
<1>7. A = Count(u.sq, Recvs) + u.requests + Count(rest, E)
  <2>1. u.armed - Count(cqes, E) = Count(u.sq, Recvs) + u.requests + Count(rest, E)
    BY <1>1, <1>4, <1>5, <1>6, SMTT(30)
  <2> DEFINE d == u.armed - Count(cqes, E)
  <2>2. d \in Nat
    BY <1>4, <1>5, <2>1
  <2> HIDE DEF d
  <2>3. Max({d, 0}) = d
    BY <2>2 DEF Max
  <2> QED
    BY <2>1, <2>3, SMTT(30) DEF d
<1>8. A \in Nat
  BY <1>4, <1>5, <1>7
<1> HIDE DEF A, v
<1>9. /\ IsUring(v) /\ v.path = u.path /\ v.sq = u.sq /\ v.cq = u.cq /\ v.armed = A
      /\ v.requests = u.requests /\ v.mem = u.mem /\ v.back = u.back /\ v.group = u.group
  BY <1>0, <1>3, <1>8, Zenon DEF IsUring
<1> QED
  BY <1>7, <1>9, SMTT(30) DEF v, cqes, rest, E

LEMMA SeenIs ==
    ASSUME NEW u, IsUring(u), NEW room
    PROVE  \E n \in 0 .. Len(u.cq) : seen(u, room) = SubSeq(u.cq, 1, n)
<1> DEFINE data(n) == Cardinality({i \in 1 .. n : IsKind(u.cq[i], "Data")})
           stops == {i \in DOMAIN u.cq : IsError(u.cq[i]) \/ data(i) = room}
           S == stops \cup {Len(u.cq)}
<1>1. Len(u.cq) \in Nat /\ S \subseteq 0 .. Len(u.cq) /\ S # {}
  BY DEF IsUring
<1>2. seen(u, room) = SubSeq(u.cq, 1, Min(S))
  BY DEF seen
<1> HIDE DEF S
<1>3. S \subseteq Nat
  BY <1>1
<1>4. \E x \in S : \A y \in S : x <= y
  BY <1>1, <1>3, LeastNat, Zenon
<1>5. Min(S) \in S
  BY <1>4 DEF Min
<1> QED
  BY <1>1, <1>2, <1>5, Zenon

LEMMA CompleteCounted ==
    ASSUME NEW u, Counted(u, 0), NEW room
    PROVE  Counted(complete(u, room), 0) /\ SlotsOf(seen(u, room), "Data") \subseteq SlotIds
<1>0. IsUring(u) /\ u.cq \in Seq(Cqes) /\ u.mem = "live"
  BY DEF Counted, IsUring
<1>1. PICK n \in 0 .. Len(u.cq) : seen(u, room) = SubSeq(u.cq, 1, n)
  BY <1>0, SeenIs
<1> DEFINE cqes == SubSeq(u.cq, 1, n)
           rest == SubSeq(u.cq, n + 1, Len(u.cq))
           v == fleet_complete(u, cqes)
           w == complete(u, room)
           B == v.back \cup SlotsOf(cqes, "Truncated")
           L == v.lost \cup FailedSlots(cqes)
<1>2. cqes \in Seq(Cqes) /\ rest \in Seq(Cqes) /\ Len(cqes) = n
  BY <1>0, CountSplit
<1>3. /\ IsUring(v) /\ v.path = u.path /\ v.sq = u.sq /\ v.cq = u.cq
      /\ v.requests = u.requests /\ v.mem = u.mem /\ v.back = u.back
      /\ v.armed = Count(u.sq, Recvs) + u.requests + Count(rest, Endings(u))
  BY FleetIs
<1>4. w = [v EXCEPT !.cq = SubSeq(v.cq, Len(cqes) + 1, Len(v.cq)), !.back = B, !.lost = L]
  BY <1>1 DEF complete
<1>5. SubSeq(v.cq, Len(cqes) + 1, Len(v.cq)) = rest
  BY <1>2, <1>3, Zenon
<1>6. B \subseteq SlotIds /\ SlotsOf(cqes, "Data") \subseteq SlotIds
  BY <1>2, <1>3, SlotsOfIs, Zenon DEF IsUring
<1> HIDE DEF cqes, rest, v, w, B, L
<1>7. w = [v EXCEPT !.cq = rest, !.back = B, !.lost = L]
  BY <1>4, <1>5, Zenon
<1>8. /\ IsUring(w) /\ w.path = v.path /\ w.sq = v.sq /\ w.cq = rest /\ w.armed = v.armed
      /\ w.requests = v.requests /\ w.mem = v.mem
  BY <1>2, <1>3, <1>6, <1>7, Zenon DEF IsUring
<1>9. Endings(w) = Endings(u)
  BY <1>3, <1>8, EndingsOf, SMTT(30)
<1>10. w.armed + 0 = w.armed
  BY <1>8 DEF IsUring
<1>11. Counted(w, 0)
  BY <1>0, <1>3, <1>8, <1>9, <1>10 DEF Counted
<1> QED
  BY <1>1, <1>6, <1>11 DEF w, cqes

LEMMA DiscardedCounted ==
    ASSUME NEW u, Counted(u, 0)
    PROVE  Counted(discarded(u), 0)
<1>0. IsUring(u) /\ u.cq \in Seq(Cqes) /\ u.mem = "live" /\ Len(u.cq) \in 0 .. Len(u.cq)
  BY DEF Counted, IsUring
<1> DEFINE v == fleet_complete(u, u.cq)
           w == discarded(u)
           L == v.lost \cup FailedSlots(u.cq) \cup SlotsOf(u.cq, "Data") \cup SlotsOf(u.cq, "Truncated")
           rest == SubSeq(u.cq, Len(u.cq) + 1, Len(u.cq))
<1>1. SubSeq(u.cq, 1, Len(u.cq)) = u.cq /\ rest = <<>>
  <2>1. Len(u.cq) \in Nat
    BY <1>0
  <2> QED
    BY <1>0, <2>1, SubSeqFull, SubSeqEmpty
<1>2. /\ IsUring(v) /\ v.path = u.path /\ v.sq = u.sq /\ v.cq = u.cq
      /\ v.requests = u.requests /\ v.mem = u.mem /\ v.back = u.back
      /\ v.armed = Count(u.sq, Recvs) + u.requests + Count(rest, Endings(u))
  BY <1>0, <1>1, FleetIs, ZenonT(40)
<1>3. w = [v EXCEPT !.cq = rest, !.lost = L]
  BY <1>1, Zenon DEF discarded
<1>7. rest \in Seq(Cqes)
  BY <1>1
<1> HIDE DEF v, w, L, rest
<1>4. /\ IsUring(w) /\ w.path = v.path /\ w.sq = v.sq /\ w.cq = rest /\ w.armed = v.armed
      /\ w.requests = v.requests /\ w.mem = v.mem
  BY <1>2, <1>3, <1>7, Zenon DEF IsUring
<1>5. Endings(w) = Endings(u)
  BY <1>2, <1>4, EndingsOf, SMTT(30)
<1>6. w.armed + 0 = w.armed
  BY <1>4 DEF IsUring
<1> QED
  BY <1>0, <1>2, <1>4, <1>5, <1>6 DEF Counted, w

\* Entering the kernel moves recvs from the queue to the kernel, and a cancelled one to a
\* completion that says it ended.
LEMMA SubmittedCounted ==
    ASSUME NEW u, NEW more \in Nat, Counted(u, more),
           NEW failing, failing = {} \/ \E i \in DOMAIN u.sq : failing = {i}
    PROVE  Counted(submitted(u, failing), more)
<1>0. IsUring(u) /\ u.sq \in Seq(Sqes) /\ u.cq \in Seq(Cqes) /\ u.mem = "live" /\ u.requests \in Nat
  BY DEF Counted, IsUring
<1> DEFINE good == {i \in DOMAIN u.sq : u.sq[i].op = "provide"} \ failing
           count(op) == Cardinality({i \in DOMAIN u.sq : u.sq[i].op = op})
           held_now == u.requests + count("recv")
           cancelled == Min({count("cancel"), held_now, 1})
           c1 == ProvideFailed(u.sq[Min(failing)].slots)
           c2 == RecvCqe(-ECANCELED, NoSlot, FALSE)
           m == Cardinality(failing)
           s1 == [i \in 1 .. m |-> c1]
           s2 == [i \in 1 .. cancelled |-> c2]
           G == u.group \cup UNION {u.sq[i].slots : i \in good}
           v == submitted(u, failing)
           E == Endings(u)
<1>1. v = [u EXCEPT !.sq = <<>>, !.group = G, !.requests = held_now - cancelled,
                    !.cq = u.cq \o s1 \o s2]
  BY DEF submitted
<1>2. count("recv") = Count(u.sq, Recvs)
  <2>1. {i \in DOMAIN u.sq : u.sq[i].op = "recv"} = {i \in DOMAIN u.sq : u.sq[i] \in Recvs}
    BY <1>0 DEF Recvs
  <2> QED
    BY <2>1, Zenon DEF Count
<1>3. count("cancel") \in Nat
  <2> DEFINE C == {e \in Sqes : e.op = "cancel"}
  <2>1. {i \in DOMAIN u.sq : u.sq[i].op = "cancel"} = {i \in DOMAIN u.sq : u.sq[i] \in C}
    BY <1>0
  <2>2. Count(u.sq, C) \in Nat
    <3> HIDE DEF C
    <3> QED
      BY <1>0, CountIs, Zenon
  <2> QED
    BY <2>1, <2>2 DEF Count
<1>4. G \subseteq SlotIds
  <2>1. u.group \subseteq SlotIds
    BY <1>0 DEF IsUring
  <2>2. ASSUME NEW i \in DOMAIN u.sq PROVE u.sq[i].slots \in SUBSET SlotIds
    <3>1. u.sq[i] \in Sqes
      BY <1>0
    <3> QED
      BY <3>1 DEF Sqes
  <2> QED
    BY <2>1, <2>2
<1>5. m \in {0, 1}
  BY FS_EmptySet, FS_Singleton, Zenon
<1>6. ASSUME m # 0 PROVE c1 \in Cqes
  <2>1. failing # {}
    BY <1>6, FS_EmptySet
  <2>2. PICK i \in DOMAIN u.sq : failing = {i}
    BY <2>1
  <2>3. Min(failing) = i
    BY <1>0, <2>2 DEF Min
  <2>4. u.sq[i].slots \in SUBSET SlotIds
    <3>1. u.sq[i] \in Sqes
      BY <1>0
    <3> QED
      BY <3>1 DEF Sqes
  <2> QED
    BY <2>3, <2>4, SMTT(30) DEF ProvideFailed, Cqes, EINVAL
<1>7. c1 \notin E
  BY DEF Endings, ended, IsRecv, ProvideFailed
<1>8. c2 \in Cqes /\ c2 \in E
  <2>1. -ECANCELED \in Int /\ -ECANCELED < 0 /\ NoSlot \in SlotIds \cup {NoSlot} /\ FALSE \in BOOLEAN
    BY DEF ECANCELED
  <2> QED
    BY <2>1, RecvCqeIs, Zenon
<1> HIDE DEF count, c1, c2, E, G
<1>9. Count(u.sq, Recvs) \in Nat /\ Count(u.cq, E) \in Nat
  BY <1>0, CountsAre DEF E
<1>10. held_now \in Nat
  BY <1>0, <1>2, <1>9
<1> HIDE DEF held_now
<1>11. cancelled \in Nat /\ cancelled <= held_now
  <2> DEFINE k == count("cancel")
  <2>1. k \in Nat
    BY <1>3
  <2> HIDE DEF k
  <2>2. Min({k, held_now, 1}) \in {k, held_now, 1} /\ Min({k, held_now, 1}) <= held_now
    BY <1>10, <2>1 DEF Min
  <2> QED
    BY <1>10, <2>1, <2>2 DEF k
<1> HIDE DEF cancelled, m
<1>12. s1 \in Seq(Cqes) /\ Count(s1, E) = 0
  <2>1. s1 \in Seq(Cqes) /\ m \in Nat /\ s1 = [i \in 1 .. m |-> c1]
    BY <1>5, <1>6
  <2> HIDE DEF s1
  <2> QED
    BY <1>7, <2>1, CountConstant
<1>13. s2 \in Seq(Cqes) /\ Count(s2, E) = cancelled
  <2>1. s2 \in Seq(Cqes) /\ cancelled \in Nat /\ s2 = [i \in 1 .. cancelled |-> c2]
    BY <1>8, <1>11
  <2> HIDE DEF s2
  <2> QED
    BY <1>8, <2>1, CountConstant
<1> HIDE DEF s1, s2
<1>14. u.cq \o s1 \in Seq(Cqes) /\ u.cq \o s1 \o s2 \in Seq(Cqes)
  BY <1>0, <1>12, <1>13
<1>15. Count(u.cq \o s1 \o s2, E) = Count(u.cq, E) + cancelled
  <2>1. Count(u.cq \o s1, E) = Count(u.cq, E) + 0
    BY <1>0, <1>12, CountConcat
  <2>2. Count(u.cq \o s1 \o s2, E) = Count(u.cq \o s1, E) + cancelled
    BY <1>13, <1>14, CountConcat, ZenonT(30)
  <2> QED
    BY <1>9, <2>1, <2>2
<1>16. held_now - cancelled \in Nat
  BY <1>10, <1>11
<1> DEFINE Q == u.cq \o s1 \o s2
           R == held_now - cancelled
           none == <<>>
<1>17. none \in Seq(Sqes) /\ Count(none, Recvs) = 0
  <2>1. none \in Seq(Sqes)
    OBVIOUS
  <2> QED
    BY <2>1, CountIs, Zenon
<1> HIDE DEF v, Q, R, none
<1>18. v = [u EXCEPT !.sq = none, !.group = G, !.requests = R, !.cq = Q]
  BY <1>1 DEF Q, R, none
<1>19. Q \in Seq(Cqes) /\ R \in Nat
  BY <1>14, <1>16 DEF Q, R
<1>20. /\ IsUring(v) /\ v.path = u.path /\ v.sq = none /\ v.cq = Q /\ v.armed = u.armed
       /\ v.requests = R /\ v.mem = u.mem
  BY <1>0, <1>4, <1>17, <1>18, <1>19, Zenon DEF IsUring
<1>21. Endings(v) = E
  BY <1>20, EndingsOf DEF E
<1>22. u.armed + more = 0 + R + Count(Q, E)
  <2>1. u.armed + more = Count(u.sq, Recvs) + u.requests + Count(u.cq, E)
    BY DEF Counted, E
  <2>2. Count(Q, E) = Count(u.cq, E) + cancelled
    BY <1>15 DEF Q
  <2>3. held_now = u.requests + Count(u.sq, Recvs)
    BY <1>2 DEF held_now
  <2>4. R = held_now - cancelled
    BY DEF R
  <2>5. u.armed \in Nat
    BY <1>0 DEF IsUring
  <2> QED
    BY <1>0, <1>9, <1>10, <1>11, <2>1, <2>2, <2>3, <2>4, <2>5, SMTT(30)
<1> QED
  BY <1>0, <1>17, <1>20, <1>21, <1>22 DEF Counted, v

LEMMA EnterCounted ==
    ASSUME NEW u, NEW more \in Nat, Counted(u, more), NEW o \in enter(u)
    PROVE  Counted(o.u, more) /\ o = [u |-> o.u, ok |-> o.ok] /\ o.ok \in BOOLEAN
<1> DEFINE provides == {i \in DOMAIN u.sq : u.sq[i].op = "provide"}
<1>1. CASE \E f \in {{}} \cup {{i} : i \in provides} : o = [u |-> submitted(u, f), ok |-> TRUE]
  <2>1. PICK f \in {{}} \cup {{i} : i \in provides} : o = [u |-> submitted(u, f), ok |-> TRUE]
    BY <1>1, Zenon
  <2>2. f = {} \/ \E i \in DOMAIN u.sq : f = {i}
    OBVIOUS
  <2>3. Counted(submitted(u, f), more)
    BY <2>2, SubmittedCounted
  <2> QED
    BY <2>1, <2>3
<1>2. CASE o \in {[u |-> u, ok |-> TRUE], [u |-> u, ok |-> FALSE]}
  <2>1. CASE o = [u |-> u, ok |-> TRUE]
    <3>1. o.u = u /\ o.ok = TRUE
      BY <2>1
    <3> QED
      BY <2>1, <3>1
  <2>2. CASE o = [u |-> u, ok |-> FALSE]
    <3>1. o.u = u /\ o.ok = FALSE
      BY <2>2
    <3> QED
      BY <2>2, <3>1
  <2> QED
    BY <1>2, <2>1, <2>2
<1> QED
  BY <1>1, <1>2 DEF enter

\* An entry is queued, after a submission if need be; a recv is then one more than is
\* counted.
LEMMA PushCounted ==
    ASSUME NEW u, Counted(u, 0), NEW e \in Sqes, NEW o \in push(u, e)
    PROVE  /\ o = [u |-> o.u, ok |-> o.ok] /\ o.ok \in BOOLEAN
           /\ o.ok => Counted(o.u, IF e \in Recvs THEN 1 ELSE 0)
           /\ ~o.ok => Counted(o.u, 0)
<1> DEFINE queued(v) == [v EXCEPT !.sq = Append(@, e)]
<1>1. ASSUME NEW v, Counted(v, 0)
      PROVE  Counted(queued(v), IF e \in Recvs THEN 1 ELSE 0)
  <2> DEFINE w == queued(v)
             s == Append(v.sq, e)
  <2>0. IsUring(v) /\ v.sq \in Seq(Sqes) /\ v.armed \in Nat /\ v.requests \in Nat
    BY <1>1 DEF Counted, IsUring
  <2>1. s \in Seq(Sqes)
    BY <2>0
  <2>2. Count(s, Recvs) = IF e \in Recvs THEN Count(v.sq, Recvs) + 1 ELSE Count(v.sq, Recvs)
    BY <2>0, CountAppend
  <2>3. w = [v EXCEPT !.sq = s]
    OBVIOUS
  <2> HIDE DEF w, s
  <2>4. /\ IsUring(w) /\ w.path = v.path /\ w.sq = s /\ w.cq = v.cq /\ w.armed = v.armed
        /\ w.requests = v.requests /\ w.mem = v.mem
    BY <2>0, <2>1, <2>3 DEF IsUring
  <2>5. Endings(w) = Endings(v)
    BY <2>4, EndingsOf
  <2>6. Count(v.sq, Recvs) \in Nat /\ Count(v.cq, Endings(v)) \in Nat
    BY <2>0, CountsAre
  <2>7. v.armed + 0 = Count(v.sq, Recvs) + v.requests + Count(v.cq, Endings(v)) /\ v.mem = "live"
    BY <1>1 DEF Counted
  <2>8. Counted(w, IF e \in Recvs THEN 1 ELSE 0)
    <3>1. CASE e \in Recvs
      <4>1. w.armed + 1 = Count(w.sq, Recvs) + w.requests + Count(w.cq, Endings(w))
        BY <2>0, <2>2, <2>4, <2>5, <2>6, <2>7, <3>1, SMTT(30)
      <4> QED
        BY <2>4, <2>7, <3>1, <4>1 DEF Counted
    <3>2. CASE e \notin Recvs
      <4>1. w.armed + 0 = Count(w.sq, Recvs) + w.requests + Count(w.cq, Endings(w))
        BY <2>0, <2>2, <2>4, <2>5, <2>6, <2>7, <3>2
      <4> QED
        BY <2>4, <2>7, <3>2, <4>1 DEF Counted
    <3> QED
      BY <3>1, <3>2
  <2> QED
    BY <2>8 DEF w
<1> HIDE DEF queued
<1>2. CASE o = [u |-> queued(u), ok |-> TRUE]
  BY <1>1, <1>2
<1>3. CASE \E p \in enter(u) :
             o = IF p.ok /\ Len(p.u.sq) < SqSize THEN [u |-> queued(p.u), ok |-> TRUE]
                 ELSE [u |-> p.u, ok |-> FALSE]
  <2>1. PICK p \in enter(u) :
             o = IF p.ok /\ Len(p.u.sq) < SqSize THEN [u |-> queued(p.u), ok |-> TRUE]
                 ELSE [u |-> p.u, ok |-> FALSE]
    BY <1>3, Zenon
  <2>2. Counted(p.u, 0)
    BY EnterCounted
  <2>3. Counted(queued(p.u), IF e \in Recvs THEN 1 ELSE 0)
    BY <1>1, <2>2
  <2>4. CASE p.ok /\ Len(p.u.sq) < SqSize
    <3>1. o = [u |-> queued(p.u), ok |-> TRUE]
      BY <2>1, <2>4
    <3> QED
      BY <2>3, <3>1
  <2>5. CASE ~(p.ok /\ Len(p.u.sq) < SqSize)
    <3>1. o = [u |-> p.u, ok |-> FALSE]
      BY <2>1, <2>5
    <3> QED
      BY <2>2, <3>1
  <2> QED
    BY <2>4, <2>5
<1>4. CASE Len(u.sq) < SqSize
  <2>1. o = [u |-> queued(u), ok |-> TRUE]
    BY <1>4 DEF push, queued
  <2> QED
    BY <1>2, <2>1
<1>5. CASE ~(Len(u.sq) < SqSize)
  <2>1. o \in {IF p.ok /\ Len(p.u.sq) < SqSize THEN [u |-> queued(p.u), ok |-> TRUE]
               ELSE [u |-> p.u, ok |-> FALSE] : p \in enter(u)}
    BY <1>5 DEF push, queued
  <2> QED
    BY <1>3, <2>1
<1> QED
  BY <1>4, <1>5

\* Fields that no recv is counted by.
LEMMA KeepsCounted ==
    ASSUME NEW u, NEW v, NEW more, Counted(u, more), IsUring(v), v.mem = "live", v.path = u.path,
           v.sq = u.sq, v.cq = u.cq, v.requests = u.requests, v.armed = u.armed
    PROVE  Counted(v, more)
<1>1. Endings(u) = Endings(v)
  BY EndingsOf
<1> QED
  BY <1>1 DEF Counted

LEMMA GiveBackCounted ==
    ASSUME NEW u, Counted(u, 0), NEW o \in give_back(u)
    PROVE  Counted(o.u, 0)
<1>0. IsUring(u) /\ u.mem = "live" /\ u.back \subseteq SlotIds
  BY DEF Counted, IsUring
<1>1. CASE u.path # "Legacy"
  <2> DEFINE v == refilled(publish(u))
  <2>1. o.u = v
    BY <1>1 DEF give_back
  <2>2. v = [[u EXCEPT !.group = u.group \cup u.back, !.back = {}] EXCEPT !.starved = FALSE]
    BY DEF refilled, publish
  <2> HIDE DEF v
  <2>3. /\ IsUring(v) /\ v.path = u.path /\ v.sq = u.sq /\ v.cq = u.cq /\ v.armed = u.armed
        /\ v.requests = u.requests /\ v.mem = u.mem
    BY <1>0, <2>2, Zenon DEF IsUring
  <2> QED
    BY <1>0, <2>1, <2>3, KeepsCounted
<1>2. CASE u.path = "Legacy"
  <2> DEFINE run == first_run(u.back)
             e == Provide(run)
  <2>1. e \in Sqes /\ e \notin Recvs
    BY <1>0 DEF Provide, Sqes, Recvs, first_run
  <2> HIDE DEF e, run
  <2>2. PICK p \in push(u, e) :
            o = IF p.ok THEN [u |-> refilled([p.u EXCEPT !.back = @ \ run]), ok |-> TRUE] ELSE p
    BY <1>2, Zenon DEF give_back, e, run
  <2>3. Counted(p.u, 0)
    BY <2>1, PushCounted
  <2>4. CASE p.ok
    <3> DEFINE w == p.u
               v == refilled([w EXCEPT !.back = @ \ run])
    <3>1. o.u = v
      BY <2>2, <2>4
    <3>2. IsUring(w) /\ w.mem = "live"
      BY <2>3 DEF Counted
    <3>3. v = [[w EXCEPT !.back = w.back \ run] EXCEPT !.starved = FALSE]
      BY DEF refilled
    <3> HIDE DEF v, w
    <3>4. /\ IsUring(v) /\ v.path = w.path /\ v.sq = w.sq /\ v.cq = w.cq /\ v.armed = w.armed
          /\ v.requests = w.requests /\ v.mem = w.mem
      BY <3>2, <3>3, Zenon DEF IsUring
    <3>5. Counted(w, 0)
      BY <2>3 DEF w
    <3> QED
      BY <3>1, <3>2, <3>4, <3>5, KeepsCounted
  <2>5. CASE ~p.ok
    BY <2>2, <2>3, <2>5
  <2> QED
    BY <2>4, <2>5
<1> QED
  BY <1>1, <1>2

LEMMA ArmCounted ==
    ASSUME NEW u, Counted(u, 0), NEW o \in arm(u)
    PROVE  Counted(o.u, 0)
<1>1. Recv \in Sqes /\ Recv \in Recvs
  BY DEF Recv, Sqes, Recvs
<1>2. PICK p \in push(u, Recv) : o = IF p.ok THEN [u |-> [p.u EXCEPT !.armed = @ + 1], ok |-> TRUE] ELSE p
  BY DEF arm
<1>3. (p.ok => Counted(p.u, 1)) /\ (~p.ok => Counted(p.u, 0))
  <2>1. /\ p.ok => Counted(p.u, IF Recv \in Recvs THEN 1 ELSE 0)
        /\ ~p.ok => Counted(p.u, 0)
    BY <1>1, PushCounted
  <2> QED
    BY <1>1, <2>1
<1>4. CASE p.ok
  <2> DEFINE w == p.u
             v == [w EXCEPT !.armed = w.armed + 1]
  <2>1. o.u = v /\ Counted(w, 1)
    BY <1>2, <1>3, <1>4
  <2> HIDE DEF w
  <2>2. IsUring(w) /\ w.armed \in Nat
    BY <2>1 DEF Counted, IsUring
  <2>3. /\ IsUring(v) /\ v.path = w.path /\ v.sq = w.sq /\ v.cq = w.cq /\ v.armed = w.armed + 1
        /\ v.requests = w.requests /\ v.mem = w.mem
    BY <2>2, SMTT(30) DEF IsUring
  <2> HIDE DEF v
  <2>4. Endings(v) = Endings(w)
    BY <2>3, EndingsOf
  <2>5. v.armed + 0 = w.armed + 1
    BY <2>2, <2>3
  <2>6. Counted(v, 0)
    BY <2>1, <2>3, <2>4, <2>5 DEF Counted
  <2> QED
    BY <2>1, <2>6
<1>5. CASE ~p.ok
  BY <1>2, <1>3, <1>5
<1> QED
  BY <1>4, <1>5

LEMMA CancelCounted ==
    ASSUME NEW u, Counted(u, 0), NEW o \in cancel_round(u)
    PROVE  Counted(o.u, 0)
<1>1. Cancel \in Sqes /\ Cancel \notin Recvs
  BY DEF Cancel, Sqes, Recvs
<1>2. PICK q \in UNION {IF p.ok THEN enter(p.u) ELSE {p} : p \in push(u, Cancel)} :
            o = IF q.ok THEN [u |-> discarded(q.u), ok |-> TRUE] ELSE q
  BY DEF cancel_round
<1>3. PICK p \in push(u, Cancel) : q \in IF p.ok THEN enter(p.u) ELSE {p}
  BY <1>2
<1>4. Counted(p.u, 0)
  BY <1>1, PushCounted
<1>5. Counted(q.u, 0)
  <2>1. CASE p.ok
    <3>1. q \in enter(p.u)
      BY <1>3, <2>1
    <3> QED
      BY <1>4, <3>1, EnterCounted
  <2>2. CASE ~p.ok
    BY <1>3, <1>4, <2>2
  <2> QED
    BY <2>1, <2>2
<1>6. Counted(discarded(q.u), 0)
  BY <1>5, DiscardedCounted
<1>7. CASE q.ok
  BY <1>2, <1>6, <1>7
<1>8. CASE ~q.ok
  BY <1>2, <1>5, <1>8
<1> QED
  BY <1>7, <1>8

\* The kernel completes a recv: the request ends exactly when the completion says so.
LEMMA PostedCounted ==
    ASSUME NEW u, Counted(u, 0), u.requests > 0, NEW cqe \in Cqes, NEW ends \in BOOLEAN,
           ends <=> cqe \in Endings(u)
    PROVE  Counted(Posted(u, cqe, ends), 0)
<1> DEFINE Q == Append(u.cq, cqe)
           R == IF ends THEN u.requests - 1 ELSE u.requests
           v == Posted(u, cqe, ends)
           E == Endings(u)
<1>0. IsUring(u) /\ u.cq \in Seq(Cqes) /\ u.armed \in Nat /\ u.requests \in Nat
  BY SMTT(30) DEF Counted, IsUring
<1>1. v = [u EXCEPT !.cq = Q, !.requests = R]
  BY DEF Posted
<1>2. Q \in Seq(Cqes) /\ R \in Nat
  BY <1>0
<1>3. Count(Q, E) = IF ends THEN Count(u.cq, E) + 1 ELSE Count(u.cq, E)
  <2> HIDE DEF E
  <2>1. Count(Q, E) = IF cqe \in E THEN Count(u.cq, E) + 1 ELSE Count(u.cq, E)
    BY <1>0, CountAppend
  <2> QED
    BY <2>1 DEF E
<1>4. Count(u.sq, Recvs) \in Nat /\ Count(u.cq, E) \in Nat
  BY <1>0, CountsAre
<1>5. u.armed + 0 = Count(u.sq, Recvs) + u.requests + Count(u.cq, E) /\ u.mem = "live"
  BY DEF Counted
<1>6. R + Count(Q, E) = u.requests + Count(u.cq, E) /\ Count(Q, E) \in Nat
  <2> HIDE DEF E, Q
  <2>1. CASE ends
    BY <1>0, <1>3, <1>4, <2>1, SMTT(30)
  <2>2. CASE ~ends
    BY <1>0, <1>3, <1>4, <2>2
  <2> QED
    BY <2>1, <2>2
<1> HIDE DEF v, Q, R, E
<1>7. /\ IsUring(v) /\ v.path = u.path /\ v.sq = u.sq /\ v.cq = Q /\ v.armed = u.armed
      /\ v.requests = R /\ v.mem = u.mem
  BY <1>0, <1>1, <1>2, Zenon DEF IsUring
<1>8. Endings(v) = E
  BY <1>7, EndingsOf DEF E
<1>9. v.armed + 0 = Count(v.sq, Recvs) + v.requests + Count(v.cq, Endings(v))
  <2> DEFINE a == Count(u.sq, Recvs)
             b == Count(u.cq, E)
             c == Count(Q, E)
  <2>1. /\ a \in Nat /\ b \in Nat /\ c \in Nat /\ R \in Nat /\ R + c = u.requests + b
        /\ u.armed + 0 = a + u.requests + b
    BY <1>2, <1>4, <1>5, <1>6, SMTT(30)
  <2>2. v.armed = u.armed /\ Count(v.sq, Recvs) = a /\ v.requests = R /\ Count(v.cq, Endings(v)) = c
    BY <1>7, <1>8
  <2> HIDE DEF a, b, c
  <2>3. u.armed + 0 = a + R + c
    BY <1>0, <2>1, SMTT(30)
  <2> QED
    BY <2>2, <2>3
<1> QED
  BY <1>5, <1>7, <1>9, SMTT(30) DEF Counted, v

LEMMA ReceptionCounted ==
    ASSUME NEW u, Counted(u, 0), NEW v \in receptions(u)
    PROVE  Counted(v, 0)
<1>0. u.requests > 0 /\ IsUring(u) /\ u.group \subseteq SlotIds
  BY DEF receptions, CanPost, Counted, IsUring
<1>1. ASSUME NEW res \in {0, 1, SlotSize + 1}, NEW bid \in SlotIds \cup {NoSlot},
             NEW more \in goes_on(u), res = 0 \/ bid # NoSlot
      PROVE  Counted(Posted(u, RecvCqe(res, bid, more), ~more), 0)
  <2>0. more \in BOOLEAN /\ (~more) \in BOOLEAN /\ (more => u.path = "Multishot")
    BY Zenon DEF goes_on
  <2>1. res \in Int /\ res >= 0
    BY DEF SlotSize
  <2>2. RecvCqe(res, bid, more) \in Cqes
    BY <2>0, <2>1, RecvCqeIs
  <2>3. ~more <=> RecvCqe(res, bid, more) \in Endings(u)
    BY <1>1, <2>0, <2>1, RecvCqeIs, Zenon
  <2> QED
    BY <1>0, <2>0, <2>2, <2>3, PostedCounted, Zenon
<1>2. ASSUME NEW res \in {1, SlotSize + 1}, NEW s \in u.group, NEW more \in goes_on(u),
             v = filled(u, res, s, more)
      PROVE  Counted(v, 0)
  <2>1. s \in SlotIds /\ s # NoSlot
    BY <1>0, UringAssumption, SMTT(30) DEF SlotIds
  <2> DEFINE w == Posted(u, RecvCqe(res, s, more), ~more)
  <2>2. Counted(w, 0)
    BY <1>1, <2>1, SMTT(30)
  <2>3. v = [w EXCEPT !.group = w.group \ {s}, !.waiting = FALSE]
    BY <1>2 DEF filled
  <2> HIDE DEF w
  <2>4. IsUring(w) /\ w.mem = "live"
    BY <2>2 DEF Counted
  <2>5. /\ IsUring(v) /\ v.path = w.path /\ v.sq = w.sq /\ v.cq = w.cq /\ v.armed = w.armed
        /\ v.requests = w.requests /\ v.mem = w.mem
    BY <2>3, <2>4, Zenon DEF IsUring
  <2> QED
    BY <2>2, <2>4, <2>5, KeepsCounted, SMTT(30)
<1>3. ASSUME NEW more \in goes_on(u), v = emptied(u, more)
      PROVE  Counted(v, 0)
  <2> DEFINE w == Posted(u, RecvCqe(0, NoSlot, more), ~more)
  <2>1. Counted(w, 0)
    BY <1>1
  <2>2. v = [w EXCEPT !.waiting = FALSE]
    BY <1>3 DEF emptied
  <2> HIDE DEF w
  <2>3. IsUring(w) /\ w.mem = "live"
    BY <2>1 DEF Counted
  <2>4. /\ IsUring(v) /\ v.path = w.path /\ v.sq = w.sq /\ v.cq = w.cq /\ v.armed = w.armed
        /\ v.requests = w.requests /\ v.mem = w.mem
    BY <2>2, <2>3, Zenon DEF IsUring
  <2> QED
    BY <2>1, <2>3, <2>4, KeepsCounted
<1> QED
  BY <1>2, <1>3 DEF receptions

LEMMA FailureCounted ==
    ASSUME NEW u, Counted(u, 0), NEW v \in failures(u)
    PROVE  Counted(v, 0)
<1>0. u.requests > 0
  BY Zenon DEF failures, CanPost
<1>1. ASSUME NEW res \in {-ECONNREFUSED, -ENOBUFS}
      PROVE  Counted(Posted(u, RecvCqe(res, NoSlot, FALSE), TRUE), 0)
  <2>1. res \in Int /\ res < 0
    BY DEF ECONNREFUSED, ENOBUFS
  <2>2. RecvCqe(res, NoSlot, FALSE) \in Cqes /\ RecvCqe(res, NoSlot, FALSE) \in Endings(u)
    <3>1. NoSlot \in SlotIds \cup {NoSlot} /\ FALSE \in BOOLEAN
      OBVIOUS
    <3> QED
      BY <2>1, <3>1, RecvCqeIs, Zenon
  <2> QED
    BY <1>0, <2>2, PostedCounted, Zenon
<1>2. \E res \in {-ECONNREFUSED, -ENOBUFS} : v = Posted(u, RecvCqe(res, NoSlot, FALSE), TRUE)
  BY Zenon DEF failures
<1> QED
  BY <1>1, <1>2, Zenon

----------------------------------------------------------------------------
(* UdpDecap's parser. *)

\* A frame is accepted exactly when it passes every check, and its payload is then what
\* follows the UDP header.
LEMMA ParsedIs ==
    ASSUME NEW f \in FrameHeaders, NEW dst_port, NEW dst_ip, parse_udp(f, dst_port, dst_ip).ok
    PROVE  LET l3 == IF f.ethertype = ETHERTYPE_VLAN THEN ETH_HDR + VLAN_TAG ELSE ETH_HDR
               p == parse_udp(f, dst_port, dst_ip)
           IN  /\ f.ethertype \in {ETHERTYPE_IPV4, ETHERTYPE_VLAN}
               /\ f.ethertype = ETHERTYPE_VLAN => f.inner = ETHERTYPE_IPV4
               /\ f.len - l3 >= IPV4_HDR
               /\ f.version = 4 /\ f.frag = 0 /\ f.proto = IPPROTO_UDP
               /\ f.ihl >= IPV4_HDR /\ f.ihl <= f.total /\ f.total <= f.len - l3
               /\ f.udp_len >= UDP_HDR /\ f.udp_len <= f.total - f.ihl
               /\ p.start = l3 + f.ihl + UDP_HDR /\ p.end = l3 + f.ihl + f.udp_len
<1> DEFINE tagged == f.ethertype = ETHERTYPE_VLAN
           l3 == IF tagged THEN ETH_HDR + VLAN_TAG ELSE ETH_HDR
           ip_len == f.len - l3
           checks == <<
            [fails |-> f.len < ETH_HDR, why |-> "Truncated"],
            [fails |-> f.ethertype \notin {ETHERTYPE_IPV4, ETHERTYPE_VLAN}, why |-> "NotIpv4"],
            [fails |-> ip_len < 0, why |-> "Truncated"],
            [fails |-> tagged /\ f.inner # ETHERTYPE_IPV4, why |-> "NotIpv4"],
            [fails |-> ip_len < IPV4_HDR, why |-> "Truncated"],
            [fails |-> f.version # 4, why |-> "NotIpv4"],
            [fails |-> f.ihl < IPV4_HDR \/ ip_len < f.ihl, why |-> "Truncated"],
            [fails |-> f.frag # 0, why |-> "Fragment"],
            [fails |-> f.proto # IPPROTO_UDP, why |-> "WrongDst"],
            [fails |-> f.total < f.ihl \/ f.total > ip_len, why |-> "Truncated"],
            [fails |-> f.total - f.ihl < UDP_HDR, why |-> "Truncated"],
            [fails |-> f.port # dst_port \/ dst_ip \notin {{}, {f.ip}}, why |-> "WrongDst"],
            [fails |-> ~udp_len_fits(f), why |-> "Truncated"]>>
           failed == {i \in DOMAIN checks : checks[i].fails}
           p == parse_udp(f, dst_port, dst_ip)
<1>1. p = IF failed # {} THEN Filtered(checks[Min(failed)].why)
          ELSE Payload(l3 + f.ihl + UDP_HDR, l3 + f.ihl + f.udp_len)
  BY Zenon DEF parse_udp
<1>2. DOMAIN checks = 1 .. 13
  BY SMTT(30)
<1>3. /\ checks[2].fails <=> f.ethertype \notin {ETHERTYPE_IPV4, ETHERTYPE_VLAN}
      /\ checks[4].fails <=> tagged /\ f.inner # ETHERTYPE_IPV4
      /\ checks[5].fails <=> ip_len < IPV4_HDR
      /\ checks[6].fails <=> f.version # 4
      /\ checks[7].fails <=> f.ihl < IPV4_HDR \/ ip_len < f.ihl
      /\ checks[8].fails <=> f.frag # 0
      /\ checks[9].fails <=> f.proto # IPPROTO_UDP
      /\ checks[10].fails <=> f.total < f.ihl \/ f.total > ip_len
      /\ checks[13].fails <=> ~udp_len_fits(f)
  BY Zenon
<1> HIDE DEF checks, l3, ip_len, tagged
<1>4. failed = {}
  <2> HIDE DEF failed
  <2> QED
    BY <1>1 DEF Filtered
<1>5. p.start = l3 + f.ihl + UDP_HDR /\ p.end = l3 + f.ihl + f.udp_len
  BY <1>1, <1>4, SMTT(60) DEF Payload
<1>6. \A i \in 1 .. 13 : ~checks[i].fails
  BY <1>2, <1>4
<1>7. /\ ~checks[2].fails /\ ~checks[4].fails /\ ~checks[5].fails /\ ~checks[6].fails
      /\ ~checks[7].fails /\ ~checks[8].fails /\ ~checks[9].fails /\ ~checks[10].fails
      /\ ~checks[13].fails
  BY <1>6
<1>8. /\ f.len \in Nat /\ f.ihl \in Nat /\ f.total \in Nat /\ f.udp_len \in Nat
      /\ l3 \in Nat /\ ip_len = f.len - l3
  BY DEF FrameHeaders, l3, ETH_HDR, VLAN_TAG, ip_len
<1> QED
  BY <1>3, <1>5, <1>7, <1>8, SMTT(30) DEF tagged, l3, udp_len_fits, IPV4_HDR, ETH_HDR, VLAN_TAG

\* For every frame: the payload parse_udp reports lies inside the frame and inside its
\* IP packet.
THEOREM PayloadAlwaysInside == Spec => []PayloadInside
<1>1. Overrun = {}
  <2> SUFFICES ASSUME NEW f \in WireFrames, parse_udp(f, f.port, {f.ip}).ok
               PROVE  LET p == parse_udp(f, f.port, {f.ip})
                          l3 == IF f.ethertype = ETHERTYPE_VLAN THEN ETH_HDR + VLAN_TAG ELSE ETH_HDR
                      IN  p.start <= p.end /\ p.end <= Min({f.len, l3 + f.total})
    BY Zenon DEF Overrun
  <2> DEFINE p == parse_udp(f, f.port, {f.ip})
             l3 == IF f.ethertype = ETHERTYPE_VLAN THEN ETH_HDR + VLAN_TAG ELSE ETH_HDR
  <2>1. f \in FrameHeaders
    BY TransportAssumption
  <2>2. /\ f.len \in Nat /\ f.ihl \in Nat /\ f.total \in Nat /\ f.udp_len \in Nat /\ l3 \in Nat
    BY <2>1 DEF FrameHeaders, ETH_HDR, VLAN_TAG
  <2>3. /\ f.total <= f.len - l3
        /\ f.udp_len >= UDP_HDR /\ f.udp_len <= f.total - f.ihl
        /\ p.start = l3 + f.ihl + UDP_HDR /\ p.end = l3 + f.ihl + f.udp_len
    BY <2>1, ParsedIs, SMTT(60)
  <2> HIDE DEF p, l3
  <2>4. p.start <= p.end /\ p.end <= f.len /\ p.end <= l3 + f.total
    BY <2>2, <2>3 DEF UDP_HDR
  <2>5. Min({f.len, l3 + f.total}) \in {f.len, l3 + f.total}
    BY <2>2 DEF Min
  <2> QED
    BY <2>4, <2>5 DEF p, l3
<1>2. PayloadInside
  BY <1>1 DEF PayloadInside
<1> QED
  BY <1>2, PTL

----------------------------------------------------------------------------
(* Waiting for a socket. *)

IsSocket(s) ==
    /\ s = [kind |-> s.kind, free |-> s.free, slab |-> s.slab, queue |-> s.queue, error |-> s.error,
            ready |-> s.ready, parked |-> s.parked, drained |-> s.drained]
    /\ s.queue \in Seq({"fits", "cut"})

IsCall(c) == c = [pc |-> c.pc, room |-> c.room, pushed |-> c.pushed, failed |-> c.failed]

Signals(s) == s.queue # <<>> \/ s.error

\* A caller parks only between calls and only on an Ok(0), and an Ok(0) leaves nothing
\* behind that an edge has not announced.
WaitInv ==
    /\ IsCall(call)
    /\ backend = "socket" =>
        /\ IsSocket(sock)
        /\ sock.parked => At("idle") /\ sock.kind # "udp" /\ sock.drained
        /\ sock.kind # "udp" /\ sock.drained /\ Signals(sock) => sock.ready

\* Slabs may come back at any time: nothing else of the socket changes.
LEMMA ReleaseKeeps ==
    ASSUME backend = "socket", IsSocket(sock), NEW slots, Release(slots)
    PROVE  /\ IsSocket(sock') /\ sock'.parked = sock.parked /\ sock'.kind = sock.kind
           /\ sock'.drained = sock.drained /\ sock'.queue = sock.queue
           /\ sock'.error = sock.error /\ sock'.ready = sock.ready
BY Zenon DEF Release, return_slabs, IsSocket

\* A recv leaves no more to report than there was.
LEMMA AfterRecvIs ==
    ASSUME NEW s, IsSocket(s)
    PROVE  LET t == after_recv(s)
           IN  /\ IsSocket(t) /\ t.parked = s.parked /\ t.kind = s.kind /\ t.ready = s.ready
               /\ t.drained = s.drained /\ t.error = FALSE
               /\ Signals(t) => Signals(s)
               /\ recv_result(s) = "would_block" => t.queue = <<>>
<1> DEFINE F == IF recv_result(s) = "fits" THEN s.free ELSE s.free \cup s.slab
           Q == IF s.error \/ s.queue = <<>> THEN s.queue ELSE Tail(s.queue)
           t == after_recv(s)
<1>1. t = [s EXCEPT !.slab = {}, !.free = F, !.error = FALSE, !.queue = Q]
  BY DEF after_recv
<1>2. (Q # <<>> => s.queue # <<>>) /\ (recv_result(s) = "would_block" => Q = <<>>)
  <2>1. CASE s.error
    BY <2>1 DEF recv_result
  <2>2. CASE ~s.error
    <3>1. CASE s.queue = <<>>
      BY <3>1
    <3>2. CASE s.queue # <<>>
      <4>1. Head(s.queue) \in {"fits", "cut"}
        BY <3>2 DEF IsSocket
      <4> QED
        BY <2>2, <3>2, <4>1 DEF recv_result
    <3> QED
      BY <3>1, <3>2, SMTT(60)
  <2> QED
    BY <2>1, <2>2, SMTT(60)
<1>4. Q \in Seq({"fits", "cut"})
  BY DEF IsSocket
<1> HIDE DEF F, Q, t
<1>3. /\ IsSocket(t) /\ t.parked = s.parked /\ t.kind = s.kind /\ t.ready = s.ready
      /\ t.drained = s.drained /\ t.error = FALSE /\ t.queue = Q
  BY <1>1, <1>4, Zenon DEF IsSocket
<1> QED
  BY <1>2, <1>3, SMTT(60) DEF Signals, t

LEMMA WaitInit == Init => WaitInv
<1> SUFFICES ASSUME Init PROVE WaitInv
  OBVIOUS
<1>1. call = [Idle EXCEPT !.pc = IF backend \in {"dpdk", "socket"} THEN "idle" ELSE "opening"]
  BY DEF Init
<1>2. IsCall(call)
  BY <1>1, Zenon DEF IsCall, Idle
<1>3. ASSUME backend = "socket" PROVE sock = new_socket
  BY <1>3 DEF Init
<1>4. IsSocket(new_socket) /\ new_socket.parked = FALSE /\ new_socket.kind = "udp"
  BY SMTT(30) DEF IsSocket, new_socket
<1> QED
  BY <1>2, <1>3, <1>4 DEF WaitInv

LEMMA WaitStep == WaitInv /\ [Next]_vars => WaitInv'
<1> SUFFICES ASSUME WaitInv, [Next]_vars PROVE WaitInv'
  OBVIOUS
<1> USE DEF WaitInv, At
<1>0. IsCall(call) /\ IsCall(Idle) /\ Idle.pc = "idle" /\ Idle.pushed = FALSE
  BY DEF Idle, IsCall
<1>1. ASSUME NEW room \in 1 .. MaxRoom, RecvBurst(room) PROVE WaitInv'
  BY <1>0, <1>1, Zenon DEF RecvBurst, IsCall, backends, Idle, Signals
<1>2. ASSUME NEW s \in held, DropFrame(s) PROVE WaitInv'
  BY <1>0, <1>2, ReleaseKeeps, SMTT(30) DEF DropFrame, Signals
<1>3. CASE DecapDeliver
  BY <1>0, <1>3, ReleaseKeeps DEF DecapDeliver, Signals, IsCall
<1>4. CASE ReturnDeferred
  BY <1>0, <1>4, SMTT(60) DEF ReturnDeferred, Signals, backends
<1>5. CASE PollFrames
  BY <1>0, <1>5 DEF PollFrames, Signals, IsCall
<1>6. CASE Close
  BY <1>6, Zenon DEF Close, GoTo, IsCall, Idle
<1>7. CASE XskCollect \/ XskWake \/ XskOpenStep \/ XskOpenFails \/ XskDropStep \/ XskLand \/ XskStall
  <2>1. backend # "socket" /\ backend' = backend
    BY <1>7, Zenon DEF XskCollect, XskWake, XskOpenStep, XskOpenFails, XskDropStep, XskLand, XskStall
  <2>2. IsCall(call')
    BY <1>0, <1>7 DEF XskCollect, XskWake, XskOpenStep, XskOpenFails, XskDropStep, XskLand,
        XskStall, GoTo, Return, IsCall, Idle
  <2> QED
    BY <2>1, <2>2
<1>8. CASE \/ UringBind \/ UringCollect \/ UringGiveBack \/ UringArm \/ UringSubmit \/ UringDrop
           \/ UringArrival \/ UringReceives \/ UringFailsRecv
  <2>1. backend # "socket" /\ backend' = backend
    BY <1>8, Zenon DEF UringBind, UringCollect, UringGiveBack, UringArm, UringSubmit, UringDrop,
        UringArrival, UringReceives, UringFailsRecv, Refilling
  <2>2. IsCall(call')
    BY <1>0, <1>8, Zenon DEF UringBind, UringCollect, UringGiveBack, UringArm, UringSubmit, UringDrop,
        UringArrival, UringReceives, UringFailsRecv, GoTo, RefillDone, Return, IsCall, Idle
  <2> QED
    BY <2>1, <2>2
<1>9. CASE PmdCollect \/ NicReceives
  <2>1. backend # "socket" /\ backend' = backend
    BY <1>9, Zenon DEF PmdCollect, NicReceives
  <2>2. IsCall(call')
    BY <1>0, <1>9, Zenon DEF PmdCollect, NicReceives, Return, IsCall
  <2> QED
    BY <2>1, <2>2
<1>10. CASE SockAcquire
  BY <1>10, Zenon DEF SockAcquire, acquire, IsSocket, IsCall, Signals
<1>11. CASE SockRecv
  <2>0. backend = "socket" /\ call.pc = "recv" /\ backend' = backend /\ ~sock.parked /\ IsSocket(sock)
    BY <1>11 DEF SockRecv
  <2> DEFINE s == after_recv(sock)
  <2>1. /\ IsSocket(s) /\ s.parked = sock.parked /\ s.kind = sock.kind /\ s.ready = sock.ready
        /\ s.drained = sock.drained /\ s.error = FALSE
        /\ Signals(s) => Signals(sock)
        /\ recv_result(sock) = "would_block" => s.queue = <<>>
    BY <2>0, AfterRecvIs, Zenon
  <2>2. CASE recv_result(sock) \in {"error", "would_block"} /\ SockReturn(recv_result(sock))
    <3> DEFINE blocked == recv_result(sock) = "would_block" /\ ~call.pushed
    <3>1. sock' = [s EXCEPT !.drained = blocked]
      BY <2>2 DEF SockReturn
    <3>2. blocked => s.queue = <<>>
      BY <2>1, SMTT(60)
    <3> HIDE DEF s, blocked
    <3>3. /\ IsSocket(sock') /\ sock'.parked = s.parked /\ sock'.drained = blocked
          /\ sock'.queue = s.queue /\ sock'.error = s.error
      BY <2>1, <3>1 DEF IsSocket
    <3>4. IsCall(call')
      BY <1>0, <2>2 DEF SockReturn, Return, IsCall
    <3> QED
      BY <2>0, <2>1, <3>2, <3>3, <3>4, SMTT(30) DEF Signals
  <2>3. CASE recv_result(sock) \in {"cut", "fits"} /\ sock' = s
    <3>1. IsCall(call')
      BY <1>0, <1>11, <2>3, Zenon DEF SockRecv, Return, IsCall
    <3> HIDE DEF s
    <3> QED
      BY <2>0, <2>1, <2>3, <3>1, SMTT(60) DEF Signals
  <2> QED
    BY <1>11, <2>2, <2>3, Zenon DEF SockRecv
<1>12. CASE SockExhausted
  BY <1>0, <1>12 DEF SockExhausted, Return, GoTo, IsCall, Idle, Signals, backends
<1>13. CASE SockPeek
  BY <1>0, <1>13, Zenon DEF SockPeek, Return, after_peek, exhausted, IsSocket, IsCall, Signals
<1>14. CASE SockConvert
  BY <1>14, Zenon DEF SockConvert, SockStep, converted, IsSocket, Signals
<1>15. CASE SockPark
  BY <1>15, Zenon DEF SockPark, SockStep, parks, IsSocket, Signals
<1>16. CASE SockWait
  BY <1>16, ZenonT(40) DEF SockWait, SockStep, waits, unparked, IsSocket, Signals
<1>17. CASE SockReady
  BY <1>17, Zenon DEF SockReady, SockStep, readiness_checked, after_peek, unparked, IsSocket, Signals
<1>18. CASE SockArrival
  <2>1. PICK datagram \in {"fits", "cut"} : SockStep(arrived(sock, datagram))
    BY <1>18 DEF SockArrival
  <2>2. backend = "socket" /\ IsSocket(sock) /\ Append(sock.queue, datagram) \in Seq({"fits", "cut"})
    BY <1>18, SMTT(60) DEF SockArrival, IsSocket
  <2> DEFINE Q == Append(sock.queue, datagram)
  <2>3. sock' = [sock EXCEPT !.queue = Q, !.ready = TRUE] /\ UNCHANGED <<backend, call>>
    BY <2>1 DEF SockStep, arrived
  <2> HIDE DEF Q
  <2>4. /\ IsSocket(sock') /\ sock'.parked = sock.parked /\ sock'.drained = sock.drained
        /\ sock'.kind = sock.kind /\ sock'.ready = TRUE
    BY <2>2, <2>3, Zenon DEF IsSocket, Q
  <2> QED
    BY <2>2, <2>3, <2>4
<1>19. CASE SockError
  BY <1>19, Zenon DEF SockError, SockStep, errored, IsSocket, Signals
<1>20. CASE UNCHANGED vars
  BY <1>20, SMTT(30) DEF vars, Signals
<1> QED
  BY Zenon, <1>1, <1>2, <1>3, <1>4, <1>5, <1>6, <1>7, <1>8, <1>9, <1>10, <1>11, <1>12, <1>13, <1>14,
     <1>15, <1>16, <1>17, <1>18, <1>19, <1>20 DEF Next

\* No lost wakeup, however arrivals, errors, conversions, timeouts and readiness checks
\* interleave with the calls: a caller parked on a socket that has something to report is
\* going to be woken.
THEOREM ParkedAlwaysWoken == Spec => []ParkedIsWoken
<1>1. WaitInv => ParkedIsWoken
  BY DEF WaitInv, ParkedIsWoken, Signals
<1> QED
  BY <1>1, WaitInit, WaitStep, PTL DEF Spec

----------------------------------------------------------------------------
(* The io_uring driver's recvs and its memory. *)

\* Receive memory is freed with no recv left, and the fleet's count is exact until then.
FleetInv ==
    backend = "io_uring" =>
        /\ IsUring(uring) /\ freed \subseteq SlotIds /\ held \subseteq SlotIds /\ ~At("deliver")
        /\ ~At("gone") => Counted(uring, 0)
        /\ uring.mem = "freed" => uring.requests = 0

LEMMA FleetInit == Init => FleetInv
<1> SUFFICES ASSUME Init, backend = "io_uring" PROVE FleetInv
  BY DEF FleetInv
<1>1. PICK path : uring = new_uring(path)
  BY DEF Init
<1> DEFINE e == <<>>
<1>2. e \in Seq(Sqes) /\ e \in Seq(Cqes)
  OBVIOUS
<1>3. uring = [path |-> path, sq |-> e, cq |-> e, requests |-> 0, group |-> {}, armed |-> 0,
               starved |-> FALSE, back |-> SlotIds, lost |-> {}, waiting |-> FALSE, mem |-> "live"]
  BY <1>1, SMTT(60) DEF new_uring
<1> HIDE DEF e
<1>4. /\ IsUring(uring) /\ uring.mem = "live" /\ uring.sq = e /\ uring.cq = e
      /\ uring.requests = 0 /\ uring.armed = 0
  BY <1>2, <1>3, SMTT(60) DEF IsUring
<1>5. Count(e, Recvs) = 0 /\ Count(e, Endings(uring)) = 0
  BY <1>2, CountIs, Zenon DEF e
<1>6. Counted(uring, 0)
  BY <1>4, <1>5, SMTT(60) DEF Counted
<1>7. ~At("deliver") /\ freed \subseteq SlotIds /\ held \subseteq SlotIds
  BY DEF Init, At, Idle
<1> QED
  BY <1>4, <1>6, <1>7 DEF FleetInv

LEMMA FleetStep == WaitInv /\ FleetInv /\ [Next]_vars => FleetInv'
<1> SUFFICES ASSUME WaitInv, FleetInv, [Next]_vars PROVE FleetInv'
  OBVIOUS
<1>0. backend' = backend /\ IsCall(call) /\ IsCall(Idle) /\ Idle.pc = "idle" /\ Idle.pushed = FALSE
  <2>1. IsCall(Idle) /\ Idle.pc = "idle" /\ Idle.pushed = FALSE
    BY DEF Idle, IsCall
  <2>2. backend' = backend
    BY Zenon DEF Next, vars, RecvBurst, DropFrame, DecapDeliver, ReturnDeferred, PollFrames, Close,
        XskCollect, XskWake, XskOpenStep, XskOpenFails, XskDropStep, XskLand, XskStall,
        UringBind, UringCollect, UringGiveBack, UringArm, UringSubmit, UringDrop, UringArrival,
        UringReceives, UringFailsRecv, PmdCollect, NicReceives, SockAcquire, SockRecv,
        SockExhausted, SockPeek, SockConvert, SockPark, SockWait, SockReady, SockArrival,
        SockError, SockStep
  <2> QED
    BY <2>1, <2>2 DEF WaitInv
<1>1. CASE backend # "io_uring"
  BY <1>0, <1>1 DEF FleetInv
<1>2. CASE backend = "io_uring"
  <2> USE <1>2 DEF FleetInv, At
  <2>0. IsUring(uring) /\ freed \subseteq SlotIds /\ held \subseteq SlotIds /\ call.pc # "deliver"
    OBVIOUS
  \* A step that leaves the driver's record alone, or empties its hands into `back`.
  <2>1. ASSUME uring' = uring, freed' \subseteq SlotIds, held' \subseteq SlotIds,
               call'.pc # "deliver", call.pc = "gone" => call'.pc = "gone"
        PROVE  FleetInv'
    BY <1>0, <2>1, SMTT(60)
  \* A step at the end of which every recv is counted.
  <2>2. ASSUME Counted(uring', 0), freed' \subseteq SlotIds, held' \subseteq SlotIds,
               call'.pc # "deliver"
        PROVE  FleetInv'
    <3>1. IsUring(uring') /\ uring'.mem = "live"
      BY <2>2, SMTT(30) DEF Counted
    <3> QED
      BY <1>0, <2>2, <3>1
  <2>3. ASSUME NEW room \in 1 .. MaxRoom, RecvBurst(room) PROVE FleetInv'
    BY <1>0, <2>0, <2>1, <2>3 DEF RecvBurst, backends, IsCall, L2
  <2>4. ASSUME NEW s \in held, DropFrame(s) PROVE FleetInv'
    BY <1>0, <2>0, <2>1, <2>4, SMTT(30) DEF DropFrame, Release
  <2>5. CASE ReturnDeferred
    BY <1>0, <2>0, <2>1, <2>5, SMTT(60) DEF ReturnDeferred, backends
  <2>6. CASE PollFrames
    <3> DEFINE v == [uring EXCEPT !.back = freed]
    <3>1. uring' = v /\ freed' = uring.back /\ held' = held /\ call.pc = "inner" /\ call'.pc = "collect"
      BY <1>0, <2>6 DEF PollFrames, Recycle, drain_freed, IsCall
    <3>2. Counted(uring, 0) /\ uring.mem = "live" /\ uring.back \subseteq SlotIds
      BY <3>1 DEF Counted, IsUring
    <3>3. /\ IsUring(v) /\ v.path = uring.path /\ v.sq = uring.sq /\ v.cq = uring.cq
          /\ v.armed = uring.armed /\ v.requests = uring.requests /\ v.mem = uring.mem
      BY <2>0 DEF IsUring
    <3> HIDE DEF v
    <3>4. Counted(v, 0)
      BY <3>2, <3>3, KeepsCounted, SMTT(60)
    <3> QED
      BY <2>0, <2>2, <3>1, <3>2, <3>4, SMTT(60)
  <2>7. CASE Close \/ UringBind
    BY <1>0, <2>0, <2>1, <2>7 DEF Close, UringBind, GoTo, backends, IsCall
  <2>8. CASE UringCollect
    <3>1. Counted(uring, 0)
      BY <2>8 DEF UringCollect
    <3>2. Counted(complete(uring, InnerRoom), 0) /\ SlotsOf(seen(uring, InnerRoom), "Data") \subseteq SlotIds
      BY <3>1, CompleteCounted
    <3>3. call'.pc = "refill"
      BY <1>0, <2>8 DEF UringCollect, IsCall
    <3> QED
      BY <2>0, <2>2, <2>8, <3>2, <3>3 DEF UringCollect
  <2>9. ASSUME Refilling, NEW ok, RefillDone(ok) PROVE call'.pc # "deliver"
    BY <1>0, <2>9 DEF RefillDone, Return, GoTo, L2, IsCall
  <2>10. CASE UringGiveBack
    <3>1. Refilling /\ freed' = freed /\ held' = held
      BY <2>10, SMTT(30) DEF UringGiveBack
    <3>2. PICK o \in give_back(uring) :
            uring' = o.u /\ IF o.ok THEN UNCHANGED <<call, deferred>> ELSE RefillDone(FALSE)
      BY <2>10, Zenon DEF UringGiveBack
    <3>3. Counted(o.u, 0)
      BY <3>1, GiveBackCounted DEF Refilling
    <3>4. call'.pc # "deliver"
      BY <2>0, <2>9, <3>1, <3>2, Zenon
    <3> QED
      BY <2>0, <2>2, <3>1, <3>2, <3>3, <3>4, SMTT(60)
  <2>11. CASE UringArm
    <3>1. Refilling /\ freed' = freed /\ held' = held
      BY <2>11, SMTT(60) DEF UringArm
    <3>2. PICK o \in arm(uring) :
            uring' = o.u /\ IF o.ok THEN UNCHANGED <<call, deferred>> ELSE RefillDone(FALSE)
      BY <2>11, Zenon DEF UringArm
    <3>3. Counted(o.u, 0)
      BY <3>1, ArmCounted, SMTT(60) DEF Refilling
    <3>4. call'.pc # "deliver"
      BY <2>0, <2>9, <3>1, <3>2, Zenon
    <3> QED
      BY <2>0, <2>2, <3>1, <3>2, <3>3, <3>4, SMTT(30)
  <2>12. CASE UringSubmit
    <3>1. Refilling /\ freed' = freed /\ held' = held
      BY <2>12, Zenon DEF UringSubmit
    <3>2. PICK o \in (IF uring.sq = <<>> THEN {[u |-> uring, ok |-> TRUE]} ELSE enter(uring)) :
            uring' = o.u /\ RefillDone(o.ok)
      BY <2>12, SMTT(30) DEF UringSubmit
    <3>3. Counted(uring, 0)
      BY <3>1, SMTT(30) DEF Refilling
    <3>4. Counted(o.u, 0)
      <4>1. CASE o \in enter(uring)
        BY <3>3, <4>1, EnterCounted, SMTT(60)
      <4>2. CASE o = [u |-> uring, ok |-> TRUE]
        <5>1. o.u = uring
          BY <4>2
        <5> QED
          BY <3>3, <5>1, SMTT(60)
      <4> QED
        BY <3>2, <4>1, <4>2, SMTT(60)
    <3>5. call'.pc # "deliver"
      BY <2>9, <3>1, <3>2
    <3> QED
      BY <2>0, <2>2, <3>1, <3>2, <3>4, <3>5, SMTT(30)
  <2>13. CASE UringDrop
    <3>0. call.pc = "closing" /\ freed' = freed /\ held' = held
      BY <2>13, SMTT(60) DEF UringDrop
    <3>1. Counted(uring, 0)
      BY <3>0
    <3>2. ASSUME NEW u, IsUring(u), NEW is_quiet \in BOOLEAN, is_quiet => u.requests = 0,
                 uring' = release(u, is_quiet), GoTo("gone")
          PROVE  FleetInv'
      <4>1. /\ IsUring(uring') /\ uring'.requests = u.requests
            /\ uring'.mem = IF is_quiet THEN "freed" ELSE "leaked"
        BY <3>2, Zenon DEF release, IsUring
      <4>2. call'.pc = "gone"
        BY <1>0, <3>2 DEF GoTo, IsCall
      <4> QED
        BY <1>0, <2>0, <3>0, <3>2, <4>1, <4>2, SMTT(30)
    <3>3. CASE uring' = release(uring, quiet(uring)) /\ GoTo("gone")
      <4>1. quiet(uring) \in BOOLEAN
        BY DEF quiet
      <4>2. quiet(uring) => uring.requests = 0
        <5>1. Count(uring.sq, Recvs) \in Nat /\ Count(uring.cq, Endings(uring)) \in Nat /\ uring.requests \in Nat
          BY <2>0, CountsAre, SMTT(60) DEF IsUring
        <5>2. quiet(uring) => 0 + 0 = Count(uring.sq, Recvs) + uring.requests + Count(uring.cq, Endings(uring))
          BY <3>1, SMTT(30) DEF Counted, quiet
        <5> QED
          BY <5>1, <5>2, SMTT(30)
      <4> QED
        BY <2>0, <3>2, <3>3, <4>1, <4>2, SMTT(60)
    <3>4. ASSUME NEW o \in cancel_round(uring),
                 IF o.ok THEN uring' = o.u /\ UNCHANGED call
                 ELSE uring' = release(o.u, FALSE) /\ GoTo("gone")
          PROVE  FleetInv'
      <4>1. Counted(o.u, 0) /\ IsUring(o.u)
        BY <3>1, CancelCounted, SMTT(30) DEF Counted
      <4>2. CASE o.ok
        <5>1. uring' = o.u /\ call' = call
          BY <3>4, <4>2
        <5> QED
          BY <2>0, <2>2, <3>0, <4>1, <5>1, Zenon
      <4>3. CASE ~o.ok
        <5>1. uring' = release(o.u, FALSE) /\ GoTo("gone")
          BY <3>4, <4>3
        <5> QED
          BY <3>2, <4>1, <5>1, Zenon
      <4> QED
        BY <4>2, <4>3, SMTT(60)
    <3> QED
      BY <2>13, <3>3, <3>4, Zenon DEF UringDrop
  <2>14. CASE UringArrival
    <3> DEFINE v == [uring EXCEPT !.waiting = TRUE]
    <3>1. /\ uring' = v /\ freed' = freed /\ held' = held /\ call' = call /\ Counted(uring, 0)
      BY <2>14 DEF UringArrival
    <3>5. v = [uring EXCEPT !.waiting = TRUE]
      OBVIOUS
    <3> HIDE DEF v
    <3>2. /\ IsUring(v) /\ v.path = uring.path /\ v.sq = uring.sq /\ v.cq = uring.cq
          /\ v.armed = uring.armed /\ v.requests = uring.requests /\ v.mem = uring.mem
      BY <2>0, <3>5, Zenon DEF IsUring
    <3>3. uring.mem = "live"
      BY <3>1, SMTT(30) DEF Counted
    <3>4. Counted(v, 0)
      BY <3>1, <3>2, <3>3, KeepsCounted
    <3> QED
      BY <2>0, <2>2, <3>1, <3>4, SMTT(30)
  <2>15. CASE UringReceives \/ UringFailsRecv
    <3>1. /\ Counted(uring, 0) /\ freed' = freed /\ held' = held /\ call' = call
          /\ uring' \in receptions(uring) \/ uring' \in failures(uring)
      BY <2>15, SMTT(60) DEF UringReceives, UringFailsRecv
    <3>2. Counted(uring', 0)
      BY <3>1, ReceptionCounted, FailureCounted, SMTT(60)
    <3> QED
      BY <2>0, <2>2, <3>1, <3>2, SMTT(60)
  <2>16. CASE UNCHANGED vars
    BY <2>0, <2>1, <2>16, SMTT(60) DEF vars
  <2>17. ~DecapDeliver
    BY <2>0 DEF DecapDeliver
  <2>18. ~(XskCollect \/ XskWake \/ XskOpenStep \/ XskOpenFails \/ XskDropStep \/ XskLand \/ XskStall
           \/ PmdCollect \/ NicReceives \/ SockAcquire \/ SockRecv \/ SockExhausted \/ SockPeek
           \/ SockConvert \/ SockPark \/ SockWait \/ SockReady \/ SockArrival \/ SockError)
    BY DEF XskCollect, XskWake, XskOpenStep, XskOpenFails, XskDropStep, XskLand, XskStall,
        PmdCollect, NicReceives, SockAcquire, SockRecv, SockExhausted, SockPeek,
        SockConvert, SockPark, SockWait, SockReady, SockArrival, SockError
  <2> QED
    BY SMTT(30), <2>3, <2>4, <2>5, <2>6, <2>7, <2>8, <2>10, <2>11, <2>12, <2>13, <2>14, <2>15, <2>16,
       <2>17, <2>18 DEF Next
<1> QED
  BY <1>1, <1>2

\* For every number of slots and requests, every path, and every way pushes, enters, provides
\* and recvs can fail: the fleet counts exactly the recvs still to end or to be read.
THEOREM ArmedAlwaysExact == Spec => []ArmedExact
<1>1. FleetInv => ArmedExact
  <2> SUFFICES ASSUME FleetInv, backend = "io_uring", ~At("gone")
               PROVE  uring.armed = Outstanding(uring)
    BY DEF ArmedExact
  <2>1. Counted(uring, 0) /\ IsUring(uring) /\ uring.armed \in Nat
    BY SMTT(60) DEF FleetInv, IsUring
  <2>2. Outstanding(uring) = Count(uring.sq, Recvs) + uring.requests + Count(uring.cq, Endings(uring))
    BY <2>1, OutstandingIs, SMTT(60)
  <2>3. uring.armed + 0 = Outstanding(uring)
    BY <2>1, <2>2, SMTT(60) DEF Counted
  <2> QED
    BY <2>1, <2>3
<1> QED
  BY <1>1, WaitInit, WaitStep, FleetInit, FleetStep, PTL DEF Spec

----------------------------------------------------------------------------
(* What the AF_XDP driver has open. *)

IsXsk(x) ==
    x = [pinned |-> x.pinned, live |-> x.live, fill |-> x.fill, rx |-> x.rx, free |-> x.free,
         wakeup |-> x.wakeup]

\* Registered memory has its socket and its pool; a map entry has a bound socket with memory.
Backed(live) ==
    /\ "umem" \in live => {"pool", "socket"} \subseteq live
    /\ "entry" \in live => {"bound", "umem"} \subseteq live

\* What open has acquired so far, in its order, and not all of it.
Acquired(x) ==
    /\ IsFiniteSet(x.live)
    /\ Cardinality(x.live) < Len(open_order(x))
    /\ x.live = {open_order(x)[i] : i \in 1 .. Cardinality(x.live)}

LiveInv ==
    backend = "afxdp" =>
        /\ IsXsk(xsk)
        /\ Backed(xsk.live)
        /\ At("opening") => Acquired(xsk)

LEMMA OrderIs ==
    ASSUME NEW x
    PROVE  LET order == open_order(x)
           IN  /\ Len(order) \in {11, 13} /\ DOMAIN order = 1 .. Len(order)
               /\ order[1] = "pool" /\ order[2] = "socket" /\ order[3] = "umem"
               /\ order[9] = "bound" /\ order[11] = "entry"
               /\ \A i, j \in 1 .. Len(order) : order[i] = order[j] => i = j
<1> DEFINE a == <<"pool", "socket", "umem", "ring_sizes", "offsets", "fill_map", "rx_map", "rings",
                  "bound", "map", "entry">>
           b == <<"pool", "socket", "umem", "ring_sizes", "offsets", "fill_map", "rx_map", "rings",
                  "bound", "map", "entry", "program", "link">>
           order == open_order(x)
<1>1. CASE x.pinned
  <2>1. order = a
    BY <1>1 DEF open_order
  <2>2. \A i, j \in 1 .. 11 : a[i] = a[j] => i = j
    OBVIOUS
  <2> QED
    BY <2>1, <2>2, SMTT(60)
<1>2. CASE ~x.pinned
  <2> DEFINE c == <<"program", "link">>
  <2>3. order = a \o c
    BY <1>2 DEF open_order
  <2> DEFINE S == {"pool", "socket", "umem", "ring_sizes", "offsets", "fill_map", "rx_map", "rings",
                   "bound", "map", "entry", "program", "link"}
  <2>4. a \in Seq(S) /\ Len(a) = 11
    <3>1. a \in [1 .. 11 -> S] /\ 11 \in Nat
      OBVIOUS
    <3> HIDE DEF a, S
    <3>2. a \in Seq(S)
      <4>1. [1 .. 11 -> S] \in {[1 .. n -> S] : n \in Nat}
        BY <3>1, Zenon
      <4> QED
        BY <3>1, <4>1, SeqDef, Zenon
    <3>3. DOMAIN a = 1 .. 11
      BY <3>1
    <3> QED
      BY <3>1, <3>2, <3>3, LenProperties
  <2>5. b \in Seq(S) /\ Len(b) = 13
    <3>1. b \in [1 .. 13 -> S] /\ 13 \in Nat
      OBVIOUS
    <3> HIDE DEF b, S
    <3>2. b \in Seq(S)
      <4>1. [1 .. 13 -> S] \in {[1 .. n -> S] : n \in Nat}
        BY <3>1, Zenon
      <4> QED
        BY <3>1, <4>1, SeqDef, Zenon
    <3>3. DOMAIN b = 1 .. 13
      BY <3>1
    <3> QED
      BY <3>1, <3>2, <3>3, LenProperties
  <2>8. c \in Seq(S) /\ Len(c) = 2
    OBVIOUS
  <2>6. \A i \in 1 .. 11 : b[i] = a[i]
    OBVIOUS
  <2>7. \A i \in 12 .. 13 : b[i] = c[i - 11]
    OBVIOUS
  <2>1. order = b
    <3> HIDE DEF a, b, c, order, S
    <3>1. a \o c \in Seq(S) /\ Len(a \o c) = Len(a) + Len(c)
      BY <2>4, <2>8, ConcatProperties, Zenon
    <3>2. ASSUME NEW i \in 1 .. 13 PROVE (a \o c)[i] = b[i]
      <4>1. \A j \in 1 .. Len(a) + Len(c) : (a \o c)[j] = IF j <= Len(a) THEN a[j] ELSE c[j - Len(a)]
        BY <2>4, <2>8, ConcatProperties, Zenon
      <4>2. i \in 1 .. Len(a) + Len(c)
        BY <2>4, <2>8
      <4>3. (a \o c)[i] = IF i <= 11 THEN a[i] ELSE c[i - 11]
        BY <2>4, <4>1, <4>2, Zenon
      <4>4. CASE i <= 11
        BY <2>6, <4>3, <4>4, SMTT(30)
      <4>5. CASE ~(i <= 11)
        BY <2>7, <4>3, <4>5
      <4> QED
        BY <4>4, <4>5, Zenon
    <3>3. Len(a \o c) = 13
      BY <2>4, <2>8, <3>1
    <3>4. a \o c = b
      BY <2>5, <3>1, <3>2, <3>3, SeqEqual, Zenon
    <3> QED
      BY <2>3, <3>4
  <2>2. \A i, j \in 1 .. 13 : b[i] = b[j] => i = j
    OBVIOUS
  <2> QED
    BY <2>1, <2>2
<1> QED
  BY <1>1, <1>2, SMTT(60)

LEMMA AcquiredBacked ==
    ASSUME NEW x, Backed(x.live), Acquired(x)
    PROVE  LET live == x.live \cup {NextStep(x)}
           IN  /\ Backed(live) /\ IsFiniteSet(live)
               /\ Cardinality(live) = Cardinality(x.live) + 1
               /\ Cardinality(x.live) + 1 <= Len(open_order(x))
               /\ live = {open_order(x)[i] : i \in 1 .. Cardinality(live)}
<1> DEFINE order == open_order(x)
           n == Cardinality(x.live)
           live == x.live \cup {NextStep(x)}
<1>1. /\ Len(order) \in {11, 13}
      /\ order[1] = "pool" /\ order[2] = "socket" /\ order[3] = "umem"
      /\ order[9] = "bound" /\ order[11] = "entry"
      /\ \A i, j \in 1 .. Len(order) : order[i] = order[j] => i = j
  BY OrderIs, SMTT(60)
<1>2. n \in Nat /\ n < Len(order) /\ IsFiniteSet(x.live) /\ x.live = {order[i] : i \in 1 .. n}
  BY FS_CardinalityType, SMTT(60) DEF Acquired
<1>3. NextStep(x) = order[n + 1]
  BY DEF NextStep
<1> HIDE DEF order, n
<1>4. n + 1 \in 1 .. Len(order) /\ order[n + 1] \notin x.live
  BY <1>1, <1>2, SMTT(30)
<1>5. IsFiniteSet(live) /\ Cardinality(live) = n + 1
  BY <1>2, <1>3, <1>4, FS_AddElement, SMTT(30) DEF n
<1>6. live = {order[i] : i \in 1 .. n + 1}
  BY <1>2, <1>3, SMTT(60)
<1>7. Backed(live)
  <2>1. ASSUME order[n + 1] = "umem" PROVE {"pool", "socket"} \subseteq x.live
    BY <1>1, <1>2, <1>4, <2>1, SMTT(30)
  <2>2. ASSUME order[n + 1] = "entry" PROVE {"bound", "umem"} \subseteq x.live
    BY <1>1, <1>2, <1>4, <2>2, SMTT(60)
  <2> QED
    BY <1>3, <2>1, <2>2, SMTT(60) DEF Backed
<1>8. n + 1 <= Len(order) /\ live = {order[i] : i \in 1 .. Cardinality(live)}
  <2> HIDE DEF live
  <2> QED
    BY <1>4, <1>5, <1>6
<1> QED
  BY <1>5, <1>7, <1>8, Zenon DEF order, n

\* Dropping goes link, rings, mappings, socket, pool: the memory last.
LEMMA DropBacked ==
    ASSUME NEW x, IsXsk(x), Backed(x.live), ~dropped_all(x)
    PROVE  IsXsk(drop_step(x)) /\ Backed(drop_step(x).live)
<1> DEFINE left == {i \in DOMAIN drop_order : drop_order[i] \in x.live}
           k == Min(left)
           L == x.live \ Dying(drop_order[k])
<1>1. /\ DOMAIN drop_order = 1 .. 6
      /\ drop_order[1] = "link" /\ drop_order[2] = "rings" /\ drop_order[3] = "fill_map"
      /\ drop_order[4] = "rx_map" /\ drop_order[5] = "socket" /\ drop_order[6] = "pool"
  BY DEF drop_order
<1>2. left # {} /\ left \subseteq 1 .. 6
  BY <1>1, SMTT(60) DEF dropped_all, Range
<1>3. drop_step(x) = [x EXCEPT !.live = L]
  BY DEF drop_step
<1>4. k \in left /\ \A i \in left : k <= i
  <2> HIDE DEF left
  <2>1. left \subseteq Nat
    BY <1>2
  <2>2. \E i \in left : \A j \in left : i <= j
    BY <1>2, <2>1, LeastNat, Zenon
  <2> QED
    BY <2>2 DEF Min
<1>5. Backed(L)
  <2> HIDE DEF k
  <2>1. Dying("link") = {"link", "program", "map"}
    BY DEF Dying
  <2>2. Dying("socket") = {"socket", "umem", "ring_sizes", "offsets", "bound", "entry"}
    BY DEF Dying
  <2>3. \A what \in {"rings", "fill_map", "rx_map", "pool"} : Dying(what) = {what}
    BY DEF Dying
  <2>4. CASE k \in 1 .. 4
    BY <1>1, <2>1, <2>3, <2>4, SMTT(30) DEF Backed
  <2>5. CASE k = 5
    BY <1>1, <2>2, <2>5, SMTT(60) DEF Backed
  <2>6. CASE k = 6
    <3>1. "socket" \notin x.live
      BY <1>1, <1>4, <2>6, SMTT(60)
    <3> QED
      BY <1>1, <2>3, <2>6, <3>1, SMTT(60) DEF Backed
  <2> QED
    BY <1>2, <1>4, <2>4, <2>5, <2>6, SMTT(30)
<1> HIDE DEF L
<1> QED
  BY <1>3, <1>5 DEF IsXsk

\* Receiving opens and drops nothing.
LEMMA RefillKeeps ==
    ASSUME NEW x, IsXsk(x), NEW slots
    PROVE  LET y == refill(x, slots) IN IsXsk(y) /\ y.live = x.live /\ y.pinned = x.pinned
<1> DEFINE owed == Listed(x.free \cup slots)
           addrs == [i \in DOMAIN owed |-> owed[i] * FrameSize]
           n == written(x.fill, addrs)
           F == produce(x.fill, addrs)
           G == {owed[i] : i \in (n + 1) .. Len(owed)}
<1>1. refill(x, slots) = [x EXCEPT !.fill = F, !.free = G]
  BY DEF refill
<1> HIDE DEF F, G
<1> QED
  BY <1>1, Zenon DEF IsXsk

LEMMA CollectKeeps ==
    ASSUME NEW x, IsXsk(x), NEW room
    PROVE  LET y == collect(x, room) IN IsXsk(y) /\ y.live = x.live /\ y.pinned = x.pinned
<1> DEFINE run == consumed(x.rx, room)
           F == consume(x.rx, room)
           G == x.free \cup {locate(run[i]).slot : i \in Located(run, "Truncated")}
<1>1. collect(x, room) = [x EXCEPT !.rx = F, !.free = G]
  BY SMTT(30) DEF collect
<1> HIDE DEF F, G
<1> QED
  BY <1>1, Zenon DEF IsXsk

LEMMA LandKeeps ==
    ASSUME NEW x, IsXsk(x), NEW at, NEW bytes
    PROVE  LET y == land_frame(x, at, bytes) IN IsXsk(y) /\ y.live = x.live /\ y.pinned = x.pinned
<1> DEFINE addr == Head(consumed(x.fill, 1))
           F == consume(x.fill, 1)
           G == produce(x.rx, <<[addr |-> addr + at.offset, len |-> at.len, bytes |-> bytes]>>)
<1>1. land_frame(x, at, bytes) = [x EXCEPT !.fill = F, !.rx = G]
  BY SMTT(30) DEF land_frame
<1> HIDE DEF F, G
<1> QED
  BY <1>1, Zenon DEF IsXsk

LEMMA LiveInit == Init => LiveInv
<1> SUFFICES ASSUME Init, backend = "afxdp" PROVE LiveInv
  BY SMTT(30) DEF LiveInv
<1>1. PICK pinned \in BOOLEAN : xsk = new_xsk(pinned)
  BY DEF Init
<1>2. IsXsk(xsk) /\ xsk.live = {}
  BY <1>1, SMTT(30) DEF new_xsk, IsXsk
<1>3. Cardinality({}) = 0 /\ IsFiniteSet({})
  BY FS_EmptySet
<1>4. Len(open_order(xsk)) \in {11, 13}
  BY OrderIs
<1>5. Acquired(xsk)
  <2>1. {} = {open_order(xsk)[i] : i \in 1 .. 0}
    BY SMTT(60)
  <2>2. Cardinality(xsk.live) = 0 /\ IsFiniteSet(xsk.live)
    BY <1>2, <1>3
  <2>3. xsk.live = {open_order(xsk)[i] : i \in 1 .. Cardinality(xsk.live)}
    BY <1>2, <2>1, <2>2, Zenon
  <2>4. Cardinality(xsk.live) < Len(open_order(xsk))
    <3>1. \A m \in {11, 13} : 0 < m
      OBVIOUS
    <3> QED
      BY <1>4, <2>2, <3>1, Zenon
  <2> QED
    BY <2>2, <2>3, <2>4, SMTT(60) DEF Acquired
<1> QED
  BY <1>2, <1>5, SMTT(30) DEF LiveInv, Backed

LEMMA LiveStep == WaitInv /\ LiveInv /\ [Next]_vars => LiveInv'
<1> SUFFICES ASSUME WaitInv, LiveInv, [Next]_vars PROVE LiveInv'
  OBVIOUS
<1>0. IsCall(call) /\ IsCall(Idle) /\ Idle.pc = "idle"
  BY DEF WaitInv, Idle, IsCall
<1>1. CASE backend # "afxdp"
  <2>1. backend' = backend
    BY Zenon DEF Next, vars, RecvBurst, DropFrame, DecapDeliver, ReturnDeferred, PollFrames, Close,
        XskCollect, XskWake, XskOpenStep, XskOpenFails, XskDropStep, XskLand, XskStall,
        UringBind, UringCollect, UringGiveBack, UringArm, UringSubmit, UringDrop, UringArrival,
        UringReceives, UringFailsRecv, PmdCollect, NicReceives, SockAcquire, SockRecv,
        SockExhausted, SockPeek, SockConvert, SockPark, SockWait, SockReady, SockArrival,
        SockError, SockStep
  <2> QED
    BY <1>1, <2>1 DEF LiveInv
<1>2. CASE backend = "afxdp"
  <2> USE <1>2 DEF LiveInv, At
  <2>0. IsXsk(xsk) /\ Backed(xsk.live)
    OBVIOUS
  \* A step of a call: nothing is opened or dropped.
  <2>1. ASSUME IsXsk(xsk'), xsk'.live = xsk.live, call'.pc # "opening"
        PROVE  LiveInv'
    BY <2>0, <2>1
  <2>2. ASSUME IsXsk(xsk'), xsk'.live = xsk.live, xsk'.pinned = xsk.pinned, call' = call
        PROVE  LiveInv'
    <3>1. open_order(xsk') = open_order(xsk)
      BY <2>2 DEF open_order
    <3>2. Acquired(xsk) => Acquired(xsk')
      BY <2>2, <3>1, SMTT(30) DEF Acquired
    <3> QED
      BY <2>0, <2>2, <3>2
  <2>3. ASSUME NEW room \in 1 .. MaxRoom, RecvBurst(room) PROVE LiveInv'
    BY <1>0, <2>0, <2>1, <2>3 DEF RecvBurst, backends, IsCall
  <2>4. ASSUME NEW s \in held, DropFrame(s) PROVE LiveInv'
    BY <2>0, <2>2, <2>4, SMTT(60) DEF DropFrame
  <2>5. CASE DecapDeliver
    BY <1>0, <2>0, <2>1, <2>5 DEF DecapDeliver, IsCall
  <2>6. CASE ReturnDeferred
    BY <1>0, <2>0, <2>1, <2>6, SMTT(60) DEF ReturnDeferred, backends
  <2>7. CASE PollFrames
    <3>1. xsk' = refill(xsk, freed) /\ call'.pc = "collect"
      BY <1>0, <2>7 DEF PollFrames, Recycle, IsCall
    <3>2. IsXsk(refill(xsk, freed)) /\ refill(xsk, freed).live = xsk.live
      BY <2>0, RefillKeeps
    <3> QED
      BY <2>1, <3>1, <3>2, SMTT(60)
  <2>8. CASE Close \/ XskOpenFails
    BY <1>0, <2>0, <2>1, <2>8 DEF Close, XskOpenFails, GoTo, backends, IsCall
  <2>9. CASE XskCollect
    <3>1. xsk' = collect(xsk, InnerRoom)
      BY <2>9, SMTT(60) DEF XskCollect
    <3>2. IsXsk(collect(xsk, InnerRoom)) /\ collect(xsk, InnerRoom).live = xsk.live
      BY <2>0, CollectKeeps, SMTT(60)
    <3>3. call'.pc # "opening"
      BY <1>0, <2>9 DEF XskCollect, Return, GoTo, IsCall
    <3> QED
      BY <2>1, <3>1, <3>2, <3>3, SMTT(60)
  <2>10. CASE XskWake
    <3>1. PICK o \in (IF needs_wakeup(xsk) THEN wake(xsk) ELSE {[x |-> xsk, ok |-> TRUE]}) :
            xsk' = o.x /\ Return(~o.ok, FALSE)
      BY <2>10, Zenon DEF XskWake
    <3> DEFINE y == [xsk EXCEPT !.wakeup = FALSE]
    <3>5. y = [xsk EXCEPT !.wakeup = FALSE]
      OBVIOUS
    <3> HIDE DEF y
    <3>2. o.x = xsk \/ o.x = y
      <4>1. o \in {[x |-> y, ok |-> TRUE], [x |-> xsk, ok |-> TRUE], [x |-> xsk, ok |-> FALSE]}
        BY <3>1 DEF wake, y
      <4> QED
        BY <4>1, SMTT(60)
    <3>3. IsXsk(o.x) /\ o.x.live = xsk.live
      BY <2>0, <3>2, <3>5 DEF IsXsk
    <3>4. call'.pc # "opening"
      BY <1>0, <3>1 DEF Return, IsCall
    <3> QED
      BY <2>1, <3>1, <3>3, <3>4, SMTT(60)
  <2>11. CASE XskOpenStep
    <3>0. call.pc = "opening" /\ xsk' = open_step(xsk) /\ Acquired(xsk) /\ backend' = backend
      BY <2>11, SMTT(60) DEF XskOpenStep
    <3> DEFINE L == xsk.live \cup {NextStep(xsk)}
               y == [xsk EXCEPT !.live = L]
    <3>1. /\ Backed(L) /\ IsFiniteSet(L)
          /\ Cardinality(L) = Cardinality(xsk.live) + 1
          /\ Cardinality(xsk.live) + 1 <= Len(open_order(xsk))
          /\ L = {open_order(xsk)[i] : i \in 1 .. Cardinality(L)}
      BY <2>0, <3>0, AcquiredBacked, Zenon
    <3>2. xsk' = IF NextStep(xsk) = "rings" THEN refill(y, {}) ELSE y
      BY <3>0 DEF open_step
    <3> HIDE DEF L
    <3>3. IsXsk(y) /\ y.live = L /\ y.pinned = xsk.pinned
      BY <2>0 DEF IsXsk
    <3> HIDE DEF y
    <3>4. IsXsk(refill(y, {})) /\ refill(y, {}).live = L /\ refill(y, {}).pinned = xsk.pinned
      BY <3>3, RefillKeeps, SMTT(60)
    <3>5. IsXsk(xsk') /\ xsk'.live = L /\ xsk'.pinned = xsk.pinned
      BY <3>2, <3>3, <3>4
    <3>6. open_order(xsk') = open_order(xsk)
      BY <3>5 DEF open_order
    <3>7. CASE opened(xsk')
      <4>1. call'.pc = "idle"
        BY <1>0, <2>11, <3>7 DEF XskOpenStep, GoTo, IsCall
      <4> QED
        BY <3>1, <3>5, <4>1, SMTT(30)
    <3>8. CASE ~opened(xsk')
      <4> DEFINE order == open_order(xsk)
      <4>1. DOMAIN order = 1 .. Len(order) /\ Len(order) \in Nat
        BY OrderIs, SMTT(60)
      <4>2. Cardinality(L) \in Nat
        BY <3>1, FS_CardinalityType, SMTT(30)
      <4> HIDE DEF order
      <4>3. Cardinality(L) # Len(order)
        <5>1. L # {order[i] : i \in 1 .. Len(order)}
          BY <3>5, <3>6, <3>8, <4>1, SMTT(60) DEF opened, Range, order
        <5> QED
          BY <3>1, <5>1, SMTT(30) DEF order
      <4>4. Cardinality(L) < Len(order)
        BY <3>1, <4>1, <4>2, <4>3, SMTT(30) DEF order
      <4>5. Acquired(xsk')
        BY <3>1, <3>5, <3>6, <4>4, SMTT(30) DEF Acquired, order
      <4> QED
        BY <3>1, <3>5, <4>5, SMTT(30)
    <3> QED
      BY <3>7, <3>8
  <2>12. CASE XskDropStep
    <3>1. CASE dropped_all(xsk)
      BY <1>0, <2>0, <2>1, <2>12, <3>1 DEF XskDropStep, GoTo, IsCall
    <3>2. CASE ~dropped_all(xsk)
      <4>1. xsk' = drop_step(xsk) /\ call' = call /\ call.pc = "closing"
        BY <2>12, <3>2, SMTT(60) DEF XskDropStep
      <4>2. IsXsk(drop_step(xsk)) /\ Backed(drop_step(xsk).live)
        BY <2>0, <3>2, DropBacked, SMTT(60)
      <4> QED
        BY <4>1, <4>2, SMTT(60)
    <3> QED
      BY <3>1, <3>2, SMTT(60)
  <2>13. CASE XskLand
    <3>1. PICK at \in Landings, f \in Arrivals : xsk' = land_frame(xsk, at, f)
      BY <2>13 DEF XskLand
    <3>2. /\ IsXsk(land_frame(xsk, at, f)) /\ land_frame(xsk, at, f).live = xsk.live
          /\ land_frame(xsk, at, f).pinned = xsk.pinned
      BY <2>0, LandKeeps, SMTT(60)
    <3> QED
      BY <2>2, <2>13, <3>1, <3>2, SMTT(60) DEF XskLand
  <2>14. CASE XskStall
    <3>1. xsk' = [xsk EXCEPT !.wakeup = TRUE] /\ call' = call
      BY <2>14 DEF XskStall, stall
    <3>2. IsXsk(xsk') /\ xsk'.live = xsk.live /\ xsk'.pinned = xsk.pinned
      BY <2>0, <3>1, Zenon DEF IsXsk
    <3> QED
      BY <2>2, <3>1, <3>2
  <2>15. CASE UNCHANGED vars
    BY <2>0, <2>2, <2>15, SMTT(60) DEF vars
  <2>16. ~(UringBind \/ UringCollect \/ UringGiveBack \/ UringArm \/ UringSubmit \/ UringDrop
           \/ UringArrival \/ UringReceives \/ UringFailsRecv
           \/ PmdCollect \/ NicReceives \/ SockAcquire \/ SockRecv \/ SockExhausted \/ SockPeek
           \/ SockConvert \/ SockPark \/ SockWait \/ SockReady \/ SockArrival \/ SockError)
    BY DEF UringBind, UringCollect, UringGiveBack, UringArm, UringSubmit, UringDrop, UringArrival,
        UringReceives, UringFailsRecv, Refilling,
        PmdCollect, NicReceives, SockAcquire, SockRecv, SockExhausted, SockPeek,
        SockConvert, SockPark, SockWait, SockReady, SockArrival, SockError
  <2> QED
    BY SMTT(30), <2>3, <2>4, <2>5, <2>6, <2>7, <2>8, <2>9, <2>10, <2>11, <2>12, <2>13, <2>14, <2>15,
       <2>16 DEF Next
<1> QED
  BY <1>1, <1>2

\* Wherever open fails, whenever the owner drops the transport and however cancelling goes:
\* no memory goes while the kernel may still write to it.
THEOREM MemoryAlwaysOutlivesKernel == Spec => []MemoryOutlivesKernel
<1>1. FleetInv /\ LiveInv => MemoryOutlivesKernel
  BY SMTT(60) DEF FleetInv, LiveInv, MemoryOutlivesKernel, Reachable, Backed
<1> QED
  BY <1>1, WaitInit, WaitStep, FleetInit, FleetStep, LiveInit, LiveStep, PTL DEF Spec
=============================================================================
