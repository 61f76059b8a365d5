---------------------------- MODULE MissingSequences ----------------------------
(***************************************************************************)
(* What a gap tracker promises its user: a plain set of the sequence       *)
(* numbers known to be missing.  Recording a range adds it, an arrival     *)
(* removes one number, and nothing else ever changes the set.              *)
(***************************************************************************)
EXTENDS Naturals

CONSTANT Seqs           \* sequence numbers callers name

VARIABLE missing        \* sequence numbers recorded and not yet received

Init == missing = {}

Record(start, end) == missing' = missing \cup (start .. (end - 1))

Receive(seq) == missing' = missing \ {seq}

Next ==
    \/ \E start, end \in Seqs : Record(start, end)
    \/ \E seq \in Seqs : Record(seq, seq + 1)
    \/ \E seq \in Seqs : Receive(seq)

Spec == Init /\ [][Next]_missing
=============================================================================
