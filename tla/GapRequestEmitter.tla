---------------------------- MODULE GapRequestEmitter ----------------------------
(***************************************************************************)
(* GapRequestEmitter of the MoldUDP64 client: sends request packets for    *)
(* pending gaps and remembers the ranges it asked for, so that a gap is    *)
(* not asked for again within one interval.                                *)
(*                                                                         *)
(* A send time is kept as its age, which stops at Interval because emit    *)
(* only compares it with the interval.  One round of emit is a sequence of *)
(* steps, one per chunk of `due`, taken in ascending order.                *)
(***************************************************************************)
EXTENDS Integers

CONSTANT Interval       \* ticks in one second / max_per_gap_per_sec

VARIABLES requested,    \* remembered ranges: [start, stop, age], stop exclusive
          due           \* chunks of this round still to be looked at

end(chunk) == chunk.start_seq + chunk.count

Lowest(S) == CHOOSE x \in S : \A y \in S : x <= y

Highest(S) == CHOOSE x \in S : \A y \in S : x >= y

\* Remembered ranges that [start, stop) touches.  The code widens the range while it
\* scans; that reaches no further range, because no two remembered ranges touch.
touched(start, stop) == {r \in requested : r.start <= stop /\ start <= r.stop}

\* Mutant: the absorbed ranges do not widen the new one.
merged_Narrow(start, stop) == [start |-> start, stop |-> stop, age |-> 0]

merged(start, stop) ==
    [start |-> Lowest({start} \cup {r.start : r \in touched(start, stop)}),
     stop  |-> Highest({stop} \cup {r.stop : r \in touched(start, stop)}),
     age   |-> 0]

mark_requested(start, stop) ==
    requested' = (requested \ touched(start, stop)) \cup {merged(start, stop)}

covered(chunk) == \E r \in requested : r.start <= chunk.start_seq /\ end(chunk) <= r.stop

----------------------------------------------------------------------------
(* emit, step by step. *)

Init == requested = {} /\ due = {}

\* Mutant: ranges are pruned one tick early.
emit_PrunesEarly(chunks) ==
    /\ due' = chunks
    /\ requested' = {r \in requested : r.age + 1 < Interval}

\* Mutant: expired ranges are never pruned.
emit_NeverPrunes(chunks) ==
    /\ due' = chunks
    /\ UNCHANGED requested

\* Entry: expired ranges limit nothing and are pruned.
emit(chunks) ==
    /\ due' = chunks
    /\ requested' = {r \in requested : r.age < Interval}

First(chunk) == chunk \in due /\ \A d \in due : chunk.start_seq <= d.start_seq

Skip(chunk) ==
    /\ First(chunk)
    /\ covered(chunk)
    /\ due' = due \ {chunk}
    /\ UNCHANGED requested

Send(chunk) ==
    /\ First(chunk)
    /\ ~covered(chunk)
    /\ mark_requested(chunk.start_seq, end(chunk))
    /\ due' = due \ {chunk}

\* A full socket buffer ends the round, the chunk unmarked.
WouldBlock(chunk) ==
    /\ First(chunk)
    /\ ~covered(chunk)
    /\ due' = {}
    /\ UNCHANGED requested

\* Any other failure ends the round too, the chunk marked as if sent.
SendFails(chunk) ==
    /\ First(chunk)
    /\ ~covered(chunk)
    /\ mark_requested(chunk.start_seq, end(chunk))
    /\ due' = {}

\* One tick of the clock that emit compares send times with.
Older(age) == IF age < Interval THEN age + 1 ELSE age

Age == requested' = {[r EXCEPT !.age = Older(@)] : r \in requested}

----------------------------------------------------------------------------
\* gap.rs: "keeping `requested` disjoint and non-adjacent so one entry alone can
\* cover a later chunk".
RequestedSeparated ==
    \A r, s \in requested : /\ r.start < r.stop
                            /\ r # s => r.stop < s.start \/ s.stop < r.start
=============================================================================
