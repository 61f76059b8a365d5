---------------------------- MODULE GapRequestHandler ----------------------------
(***************************************************************************)
(* GapRequestHandler of the MoldUDP64 client: the missing sequence numbers *)
(* kept as a sorted map start -> end of half-open ranges.                  *)
(*                                                                         *)
(* The BTreeMap is a function whose domain is the set of range starts.     *)
(* The absorbing loop of record_missing_range is given by its result: the  *)
(* least end that no range starting inside the widened range overshoots.   *)
(***************************************************************************)
EXTENDS SequenceSpace

CONSTANT MaxChunk     \* messages one request can ask for (u16::MAX)

VARIABLE gaps         \* range start -> range end, exclusive

Least(S) == CHOOSE x \in S : \A y \in S : x <= y

Larger(m, n) == IF m >= n THEN m ELSE n

----------------------------------------------------------------------------
(* Operations, named after the methods. *)

new == gaps = [s \in {} |-> 0]

\* Mutant: a range that only touches `start` is not extended.
Predecessor_StrictlyPast(start) ==
    {p \in DOMAIN gaps : /\ p < start
                         /\ \A q \in DOMAIN gaps : q < start => q <= p
                         /\ gaps[p] > start}

\* The tracked range next below `start`, when it reaches `start`: it extends
\* the new range leftwards.  No element or one.
Predecessor(start) ==
    {p \in DOMAIN gaps : /\ p < start
                         /\ \A q \in DOMAIN gaps : q < start => q <= p
                         /\ gaps[p] >= start}

\* Ends at or past `end` that no tracked range starting in first..end overshoots.
ClosedEnds(first, end) ==
    {e \in {end} \cup {gaps[s] : s \in DOMAIN gaps} :
        /\ e >= end
        /\ \A s \in DOMAIN gaps : first <= s /\ s <= e => gaps[s] <= e}

\* Drop every range that starts in first..last and insert first -> last.
Absorb(first, last) ==
    gaps' = [s \in (DOMAIN gaps \ (first .. last)) \cup {first} |->
                IF s = first THEN last ELSE gaps[s]]

record_missing_range(start, end) ==
    IF start >= end
    THEN UNCHANGED gaps
    ELSE \/ /\ Predecessor(start) = {}
            /\ Absorb(start, Least(ClosedEnds(start, end)))
         \/ \E p \in Predecessor(start) :
               Absorb(p, Least(ClosedEnds(p, Larger(end, gaps[p]))))

record_gap(seq) == record_missing_range(seq, seq + 1)

\* The range found by range(..=seq).next_back(), when it covers `seq`.
Covering(seq) ==
    {s \in DOMAIN gaps : /\ s <= seq
                         /\ \A q \in DOMAIN gaps : q <= seq => q <= s
                         /\ seq < gaps[s]}

\* Mutant: the part above `seq` is not put back.
Split_DropsTail(start, seq) ==
    LET head == IF start < seq THEN {start} ELSE {}
    IN  gaps' = [s \in (DOMAIN gaps \ {start}) \cup head |-> IF s \in head THEN seq ELSE gaps[s]]

\* Take `seq` out of the range start..end-1: keep what is left on either side.
Split(start, seq) ==
    LET head == IF start < seq THEN {start} ELSE {}
        tail == IF seq + 1 < gaps[start] THEN {seq + 1} ELSE {}
    IN  gaps' = [s \in (DOMAIN gaps \ {start}) \cup head \cup tail |->
                    IF s \in head THEN seq
                    ELSE IF s \in tail THEN gaps[start]
                    ELSE gaps[s]]

mark_received(seq) ==
    \/ /\ Covering(seq) = {}
       /\ UNCHANGED gaps
    \/ \E s \in Covering(seq) : Split(s, seq)

has_pending == DOMAIN gaps # {}

\* Mutant: the last chunk is not cut to what is left.
Chunks_AllFull(start, end) ==
    {[start_seq |-> c, count |-> MaxChunk] :
        c \in {d \in start .. (end - 1) : (d - start) % MaxChunk = 0}}

\* Re-request chunks of one range: MaxChunk messages each, the last one what is left.
Chunks(start, end) ==
    {[start_seq |-> c, count |-> IF end - c < MaxChunk THEN end - c ELSE MaxChunk] :
        c \in {d \in start .. (end - 1) : (d - start) % MaxChunk = 0}}

pending_gaps == UNION {Chunks(s, gaps[s]) : s \in DOMAIN gaps}

----------------------------------------------------------------------------
\* The map under any calls.
HandlerNext ==
    \/ \E start, end \in Seqs : record_missing_range(start, end)
    \/ \E seq \in Seqs : record_gap(seq)
    \/ \E seq \in Seqs : mark_received(seq)

HandlerSpec == new /\ [][HandlerNext]_gaps

----------------------------------------------------------------------------
(* Properties. *)

\* The map holds non-empty ranges of natural numbers.
GapsOK ==
    /\ DOMAIN gaps \subseteq Nat
    /\ gaps \in [DOMAIN gaps -> Nat]
    /\ \A s \in DOMAIN gaps : s < gaps[s]

\* gap.rs: "entries stay disjoint and non-adjacent".  Each range ends
\* strictly before the next one starts, whatever was recorded and received.
Separated == \A s, t \in DOMAIN gaps : s < t => gaps[s] < t

\* The sequence numbers the map stands for.
Covered == UNION {s .. (gaps[s] - 1) : s \in DOMAIN gaps}

\* The map behaves as a set of missing numbers: recording adds exactly the range,
\* an arrival clears exactly its own number, and splitting or merging loses none.
Missing == INSTANCE MissingSequences WITH missing <- Covered
TracksMissing == Missing!Spec

\* pending_gaps asks for every missing number once: the chunks fit the u16 count,
\* do not overlap, and together name exactly the tracked numbers.
ChunksPartition ==
    LET span(c) == c.start_seq .. (c.start_seq + c.count - 1)
    IN  /\ \A c \in pending_gaps : c.count \in 1 .. MaxChunk
        /\ \A c, d \in pending_gaps : c # d => span(c) \cap span(d) = {}
        /\ UNION {span(c) : c \in pending_gaps} = Covered
=============================================================================
