------------------------ MODULE GapRequestHandlerProofs ------------------------
(***************************************************************************)
(* The gap map of the MoldUDP64 client, for every set of sequence numbers  *)
(* and every chunk size: its ranges stay separated, and it implements the  *)
(* plain set of missing numbers.                                           *)
(***************************************************************************)
EXTENDS GapRequestHandler, WellFoundedInduction, TLAPS

\* Inductive invariant: every operation relies on the ranges being separated.
IInv == GapsOK /\ Separated

\* A set of natural numbers has a least element.
LEMMA LeastNat ==
    ASSUME NEW S, S \subseteq Nat, S # {}
    PROVE  \E x \in S : \A y \in S : x <= y
<1>1. IsWellFoundedOn(OpToRel(<, Nat), Nat)
  BY NatLessThanWellFounded
<1>2. PICK x \in S : \A y \in S : ~(<<y, x>> \in OpToRel(<, Nat))
  BY <1>1, WFMin
<1>3. \A y \in S : ~(y < x)
  BY <1>2, Zenon DEF OpToRel
<1> QED
  BY <1>3

\* A lower bound that belongs to the set is its least element.
LEMMA LeastIs ==
    ASSUME NEW S, S \subseteq Int, NEW x \in S, \A y \in S : x <= y
    PROVE  Least(S) = x
<1>1. \E m \in S : \A y \in S : m <= y
  OBVIOUS
<1>2. Least(S) \in S /\ \A y \in S : Least(S) <= y
  BY <1>1, Zenon DEF Least
<1>3. Least(S) \in Int /\ x \in Int /\ Least(S) <= x /\ x <= Least(S)
  BY <1>2, Zenon
<1> HIDE DEF Least
<1> QED
  BY <1>3

\* Covered, element by element, before a step.
LEMMA InCovered ==
    ASSUME GapsOK
    PROVE  \A q \in Int : q \in Covered <=> \E s \in DOMAIN gaps : s <= q /\ q < gaps[s]
BY DEF GapsOK, Covered

\* Covered, element by element, after a step.
LEMMA InCoveredNext ==
    ASSUME GapsOK'
    PROVE  \A q \in Int : q \in Covered' <=> \E s \in DOMAIN gaps' : s <= q /\ q < gaps'[s]
BY DEF GapsOK, Covered

LEMMA CoveredInt ==
    ASSUME GapsOK
    PROVE  Covered \subseteq Int
BY DEF GapsOK, Covered

LEMMA CoveredIntNext ==
    ASSUME GapsOK'
    PROVE  Covered' \subseteq Int
BY DEF GapsOK, Covered

\* Replacing the ranges that start in first..last by first -> last is exact when
\* no range crosses either end of it.
LEMMA AbsorbExact ==
    ASSUME IInv, NEW first \in Nat, NEW last \in Nat, first < last,
           \A s \in DOMAIN gaps : s < first => gaps[s] < first,
           \A s \in DOMAIN gaps : first <= s /\ s <= last => gaps[s] <= last,
           Absorb(first, last)
    PROVE  IInv' /\ Covered' = Covered \cup (first .. (last - 1))
<1>1. /\ DOMAIN gaps' = (DOMAIN gaps \ (first .. last)) \cup {first}
      /\ gaps'[first] = last
      /\ \A s \in DOMAIN gaps' : s # first => gaps'[s] = gaps[s]
  BY DEF Absorb
<1>2. GapsOK'
  BY <1>1 DEF IInv, GapsOK, Absorb
<1>3. Separated'
  BY <1>1 DEF IInv, GapsOK, Separated
<1>4. ASSUME NEW q \in Int
      PROVE  q \in Covered' <=> q \in Covered \cup (first .. (last - 1))
  <2>1. CASE q \in first .. (last - 1)
    BY <2>1, <1>1, <1>2, InCoveredNext
  <2>2. CASE q \notin first .. (last - 1)
    <3>1. ASSUME q \in Covered' PROVE q \in Covered
      BY <3>1, <2>2, <1>1, <1>2, InCoveredNext, InCovered DEF IInv, GapsOK
    <3>2. ASSUME q \in Covered PROVE q \in Covered'
      <4>1. PICK s \in DOMAIN gaps : s <= q /\ q < gaps[s]
        BY <3>2, InCovered DEF IInv
      <4>2. s \notin first .. last
        BY <4>1, <2>2 DEF IInv, GapsOK
      <4> QED
        BY <4>1, <4>2, <1>1, <1>2, InCoveredNext DEF IInv, GapsOK
    <3> QED
      BY <3>1, <3>2, <2>2
  <2> QED
    BY <2>1, <2>2
<1>5. Covered' \subseteq Int /\ Covered \cup (first .. (last - 1)) \subseteq Int
  BY <1>2, CoveredInt, CoveredIntNext DEF IInv
<1>6. Covered' = Covered \cup (first .. (last - 1))
  BY <1>4, <1>5, Zenon
<1> QED
  BY <1>2, <1>3, <1>6 DEF IInv

\* Where the absorbing loop of record_missing_range stops: at `end`, or at the end
\* of the one tracked range that starts inside the new one and outlasts it.
LEMMA LoopEnd ==
    ASSUME IInv, NEW first \in Nat, NEW end \in Nat, first < end
    PROVE  LET e == Least(ClosedEnds(first, end))
           IN  /\ e \in Nat /\ e >= end
               /\ \A s \in DOMAIN gaps : first <= s /\ s <= e => gaps[s] <= e
               /\ \/ e = end
                  \/ \E t \in DOMAIN gaps : first <= t /\ t <= end /\ e = gaps[t]
<1> DEFINE S == ClosedEnds(first, end)
<1>1. S \subseteq Int
  BY DEF ClosedEnds, IInv, GapsOK
<1>2. CASE \E t \in DOMAIN gaps : first <= t /\ t <= end /\ gaps[t] > end
  <2>1. PICK t \in DOMAIN gaps : first <= t /\ t <= end /\ gaps[t] > end
    BY <1>2
  <2>2. gaps[t] \in S
    BY <2>1 DEF ClosedEnds, IInv, GapsOK, Separated
  <2>3. \A e \in S : gaps[t] <= e
    BY <2>1, <1>1 DEF ClosedEnds, IInv, GapsOK
  <2>4. Least(S) = gaps[t]
    BY <1>1, <2>2, <2>3, LeastIs
  <2> QED
    BY <2>1, <2>2, <2>4, Zenon DEF ClosedEnds, IInv, GapsOK
<1>3. CASE ~ \E t \in DOMAIN gaps : first <= t /\ t <= end /\ gaps[t] > end
  <2>1. end \in S
    BY <1>3 DEF ClosedEnds, IInv, GapsOK
  <2>2. \A e \in S : end <= e
    BY DEF ClosedEnds
  <2>3. Least(S) = end
    BY <1>1, <2>1, <2>2, LeastIs
  <2> QED
    BY <2>1, <2>3 DEF ClosedEnds
<1> QED
  BY <1>2, <1>3

\* record_missing_range adds exactly start..end-1 and keeps the ranges separated.
LEMMA RecordExact ==
    ASSUME IInv, NEW start \in Nat, NEW end \in Nat, record_missing_range(start, end)
    PROVE  IInv' /\ Covered' = Covered \cup (start .. (end - 1))
<1>1. CASE start >= end
  <2>1. gaps' = gaps
    BY <1>1 DEF record_missing_range
  <2>2. start .. (end - 1) = {}
    BY <1>1
  <2> QED
    BY <2>1, <2>2 DEF IInv, GapsOK, Separated, Covered
<1>2. CASE start < end /\ Predecessor(start) = {}
  <2> DEFINE e == Least(ClosedEnds(start, end))
  <2>1. Absorb(start, e)
    BY <1>2 DEF record_missing_range
  <2>2. \A s \in DOMAIN gaps : s < start => gaps[s] < start
    BY <1>2 DEF Predecessor, IInv, GapsOK, Separated
  <2>3. /\ e \in Nat /\ e >= end
        /\ \A s \in DOMAIN gaps : start <= s /\ s <= e => gaps[s] <= e
        /\ \/ e = end
           \/ \E t \in DOMAIN gaps : start <= t /\ t <= end /\ e = gaps[t]
    BY <1>2, LoopEnd
  <2> HIDE DEF e
  <2>4. IInv' /\ Covered' = Covered \cup (start .. (e - 1))
    BY <1>2, <2>1, <2>2, <2>3, AbsorbExact
  <2>5. \A q \in Int : q \in Covered \cup (start .. (e - 1)) <=>
                        q \in Covered \cup (start .. (end - 1))
    BY <2>3, InCovered DEF IInv, GapsOK
  <2> QED
    BY <2>4, <2>5, CoveredInt DEF IInv
<1>3. ASSUME start < end, NEW p \in Predecessor(start),
             Absorb(p, Least(ClosedEnds(p, Larger(end, gaps[p]))))
      PROVE  IInv' /\ Covered' = Covered \cup (start .. (end - 1))
  <2> DEFINE end1 == Larger(end, gaps[p])
             e == Least(ClosedEnds(p, end1))
  <2>1. p \in DOMAIN gaps /\ p \in Nat /\ gaps[p] \in Nat /\ p < start /\ gaps[p] >= start
    BY DEF Predecessor, IInv, GapsOK
  <2>2. /\ end1 \in Nat /\ end1 >= end /\ end1 >= gaps[p]
        /\ end1 = end \/ end1 = gaps[p]
    BY <2>1 DEF Larger
  <2> HIDE DEF end1
  <2>3. /\ e \in Nat /\ e >= end1
        /\ \A s \in DOMAIN gaps : p <= s /\ s <= e => gaps[s] <= e
        /\ \/ e = end1
           \/ \E t \in DOMAIN gaps : p <= t /\ t <= end1 /\ e = gaps[t]
    <3>1. p < end1
      BY <2>1, <2>2
    <3> QED
      BY <2>1, <2>2, <3>1, LoopEnd, SMTT(30)
  <2>4. \A s \in DOMAIN gaps : s < p => gaps[s] < p
    BY <2>1 DEF IInv, Separated
  <2>5. Absorb(p, e)
    BY <1>3 DEF end1
  <2> HIDE DEF e
  <2>6. IInv' /\ Covered' = Covered \cup (p .. (e - 1))
    BY <1>3, <2>1, <2>2, <2>3, <2>4, <2>5, AbsorbExact
  <2>7. \A q \in Int : q \in Covered \cup (p .. (e - 1)) <=>
                        q \in Covered \cup (start .. (end - 1))
    BY <1>3, <2>1, <2>2, <2>3, InCovered DEF IInv, GapsOK
  <2> QED
    BY <2>1, <2>6, <2>7, CoveredInt DEF IInv
<1> QED
  BY <1>1, <1>2, <1>3 DEF record_missing_range

\* mark_received removes exactly `seq` and keeps the ranges separated.
LEMMA ReceiveExact ==
    ASSUME IInv, NEW seq \in Nat, mark_received(seq)
    PROVE  IInv' /\ Covered' = Covered \ {seq}
<1>1. CASE Covering(seq) = {} /\ UNCHANGED gaps
  <2>1. seq \notin Covered
    <3>1. ASSUME NEW s \in DOMAIN gaps, s <= seq, seq < gaps[s]
          PROVE  s \in Covering(seq)
      BY <3>1 DEF Covering, IInv, GapsOK, Separated
    <3> QED
      BY <3>1, <1>1, InCovered DEF IInv
  <2> QED
    BY <1>1, <2>1 DEF IInv, GapsOK, Separated, Covered
<1>2. ASSUME NEW s \in Covering(seq), Split(s, seq)
      PROVE  IInv' /\ Covered' = Covered \ {seq}
  <2> DEFINE head == IF s < seq THEN {s} ELSE {}
             tail == IF seq + 1 < gaps[s] THEN {seq + 1} ELSE {}
  <2>1. s \in DOMAIN gaps /\ s \in Nat /\ gaps[s] \in Nat /\ s <= seq /\ seq < gaps[s]
    BY DEF Covering, IInv, GapsOK
  <2>2. /\ DOMAIN gaps' = (DOMAIN gaps \ {s}) \cup head \cup tail
        /\ \A t \in DOMAIN gaps' : gaps'[t] = IF t \in head THEN seq
                                             ELSE IF t \in tail THEN gaps[s] ELSE gaps[t]
    BY <1>2 DEF Split
  <2>3. GapsOK'
    BY <1>2, <2>1, <2>2 DEF IInv, GapsOK, Split
  <2>4. Separated'
    BY <2>1, <2>2 DEF IInv, GapsOK, Separated
  <2>5. \A q \in Int : q \in Covered' => q \in Covered \ {seq}
    BY <2>1, <2>2, <2>3, InCovered, InCoveredNext DEF IInv, GapsOK, Separated
  <2>6. ASSUME NEW q \in Int, q \in Covered, q # seq
        PROVE  q \in Covered'
    <3>1. PICK t \in DOMAIN gaps : t <= q /\ q < gaps[t]
      BY <2>6, InCovered DEF IInv
    <3>2. CASE t # s
      <4>1. t \in DOMAIN gaps' /\ gaps'[t] = gaps[t]
        BY <3>2, <2>1, <2>2 DEF IInv, GapsOK, Separated
      <4> QED
        BY <3>1, <4>1, <2>3, InCoveredNext
    <3>3. CASE t = s /\ q < seq
      <4>1. s \in DOMAIN gaps' /\ gaps'[s] = seq
        BY <3>1, <3>3, <2>1, <2>2
      <4> QED
        BY <3>1, <3>3, <4>1, <2>3, InCoveredNext
    <3>4. CASE t = s /\ q > seq
      <4>1. seq + 1 \in DOMAIN gaps' /\ gaps'[seq + 1] = gaps[s]
        BY <3>1, <3>4, <2>1, <2>2
      <4> QED
        BY <3>1, <3>4, <4>1, <2>3, InCoveredNext
    <3> QED
      BY <3>2, <3>3, <3>4, <2>6
  <2> QED
    BY <2>3, <2>4, <2>5, <2>6, CoveredInt, CoveredIntNext DEF IInv
<1> QED
  BY <1>1, <1>2 DEF mark_received

\* Every step keeps the ranges separated and is a step of the set of missing numbers.
LEMMA StepExact ==
    ASSUME IInv, [HandlerNext]_gaps
    PROVE  IInv' /\ [Missing!Next]_Covered
<1>1. ASSUME NEW start \in Seqs, NEW end \in Seqs, record_missing_range(start, end)
      PROVE  IInv' /\ [Missing!Next]_Covered
  <2>1. start \in Nat /\ end \in Nat
    BY SeqsAssumption
  <2>2. IInv' /\ Covered' = Covered \cup (start .. (end - 1))
    BY <1>1, <2>1, RecordExact
  <2> QED
    BY <2>2 DEF Missing!Next, Missing!Record
<1>2. ASSUME NEW seq \in Seqs, record_gap(seq)
      PROVE  IInv' /\ [Missing!Next]_Covered
  <2>1. seq \in Nat /\ seq + 1 \in Nat
    BY SeqsAssumption
  <2>2. IInv' /\ Covered' = Covered \cup (seq .. (seq + 1 - 1))
    BY <1>2, <2>1, RecordExact DEF record_gap
  <2>3. Missing!Record(seq, seq + 1)
    BY <2>1, <2>2 DEF Missing!Record
  <2> QED
    BY <2>2, <2>3 DEF Missing!Next
<1>3. ASSUME NEW seq \in Seqs, mark_received(seq)
      PROVE  IInv' /\ [Missing!Next]_Covered
  <2>1. seq \in Nat
    BY SeqsAssumption
  <2>2. IInv' /\ Covered' = Covered \ {seq}
    BY <1>3, <2>1, ReceiveExact
  <2> QED
    BY <2>2 DEF Missing!Next, Missing!Receive
<1>4. CASE UNCHANGED gaps
  BY <1>4 DEF IInv, GapsOK, Separated, Covered
<1> QED
  BY <1>1, <1>2, <1>3, <1>4 DEF HandlerNext

LEMMA InitExact == new => IInv /\ Missing!Init
<1> SUFFICES ASSUME new PROVE IInv /\ Missing!Init
  OBVIOUS
<1>1. DOMAIN gaps = {}
  BY DEF new
<1>2. gaps \in [DOMAIN gaps -> Nat]
  BY DEF new
<1> QED
  BY <1>1, <1>2 DEF IInv, GapsOK, Separated, Missing!Init, Covered

\* gap.rs: "absorbing every tracked range it touches or overlaps, so entries stay
\* disjoint and non-adjacent", whatever the calls and however many of them.
THEOREM RangesSeparated == HandlerSpec => [](GapsOK /\ Separated)
<1>1. new => IInv
  BY InitExact
<1>2. IInv /\ [HandlerNext]_gaps => IInv'
  BY StepExact
<1>3. IInv => GapsOK /\ Separated
  BY DEF IInv
<1> QED
  BY <1>1, <1>2, <1>3, PTL DEF HandlerSpec

\* The range map of GapRequestHandler implements the plain set of missing numbers:
\* record_missing_range and record_gap add exactly what they name, mark_received
\* removes exactly one number, and merging or splitting ranges changes nothing.
THEOREM TracksMissingExactly == HandlerSpec => TracksMissing
<1>1. new => IInv /\ Missing!Init
  BY InitExact
<1>2. IInv /\ [HandlerNext]_gaps => IInv' /\ [Missing!Next]_Covered
  BY StepExact
<1> QED
  BY <1>1, <1>2, PTL DEF HandlerSpec, TracksMissing, Missing!Spec
=============================================================================
