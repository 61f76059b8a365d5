------------------------------ MODULE InOrderBuffer ------------------------------
(***************************************************************************)
(* What a reassembler promises: a set of early messages and a cursor.      *)
(* Messages leave only in sequence order, a run of consecutive ones at a   *)
(* time, and none that was taken in is lost or handed out twice.  A        *)
(* message may be refused, which leaves no trace.                          *)
(***************************************************************************)
EXTENDS Naturals

CONSTANT Seqs

VARIABLES anchored,     \* the first sequence number of the stream is fixed
          next,         \* the next sequence number to hand out
          held          \* messages taken in ahead of `next`

vars == <<anchored, next, held>>

Init == anchored \in BOOLEAN /\ next \in Nat /\ held = {}

Anchor(seq) == ~anchored /\ anchored' = TRUE /\ next' = seq /\ UNCHANGED held

\* `next` itself arrives: it leaves with every held message that follows it
\* without a break, and the first number not held becomes the cursor.
Release ==
    /\ anchored
    /\ next' > next
    /\ (next + 1) .. (next' - 1) \subseteq held
    /\ next' \notin held
    /\ held' = held \ ((next + 1) .. (next' - 1))
    /\ UNCHANGED anchored

Take(seq) ==
    /\ anchored
    /\ seq > next
    /\ held' = held \cup {seq}
    /\ UNCHANGED <<anchored, next>>

Next == \/ \E seq \in Seqs : Anchor(seq)
        \/ Release
        \/ \E seq \in Seqs : Take(seq)

Spec == Init /\ [][Next]_vars
=============================================================================
