--------------------------- MODULE SequenceReassembler ---------------------------
(***************************************************************************)
(* SequenceReassembler of the MoldUDP64 client: a ring of Capacity slots,  *)
(* a message parked in slot seq % Capacity until every earlier one has     *)
(* been handed out.  A slot is its held sequence number or Empty: the      *)
(* payload travels with the number and is never read here.                 *)
(*                                                                         *)
(* seq_anchored is the receiver's flag: the ring is re-anchored at         *)
(* most once, before anything is delivered.                                *)
(***************************************************************************)
EXTENDS RingParameters

VARIABLES slots, expected_next, seq_anchored

ring_vars == <<slots, expected_next, seq_anchored>>

Empty == -1

slot_index(seq) == seq % Capacity

Holds(ring, seq) == ring[slot_index(seq)] = seq

----------------------------------------------------------------------------
RingInit ==
    /\ slots = [i \in 0 .. (Capacity - 1) |-> Empty]
    /\ expected_next = 1
    /\ seq_anchored \in BOOLEAN

reset_expected(seq) == expected_next' = seq /\ UNCHANGED slots

\* Mutant: the cursor gives up the first message of the run only.
drain_One(ring, from, to) ==
    /\ to = IF Holds(ring, from) THEN from + 1 ELSE from
    /\ slots' = [i \in DOMAIN ring |-> IF ring[i] \in from .. (to - 1) THEN Empty ELSE ring[i]]
    /\ expected_next' = to

\* DrainCursor run to its end, and its Drop: `ring` gives up the unbroken run
\* from..to-1 and the cursor rests at the first number it does not hold.
drain(ring, from, to) ==
    /\ \A q \in from .. (to - 1) : Holds(ring, q)
    /\ ~Holds(ring, to)
    /\ slots' = [i \in DOMAIN ring |-> IF ring[i] \in from .. (to - 1) THEN Empty ELSE ring[i]]
    /\ expected_next' = to

\* advance_expected(1) followed by drain_ready, as the in-order path pairs them.
advance_and_drain(to) == drain(slots, expected_next + 1, to)

\* Mutant: a different pending message does not stop the insert.
full_Never(seq) == FALSE

\* The slot of `seq` holds a different pending message: ReassemblyBufferFull.
full(seq) ==
    /\ seq >= expected_next
    /\ slots[slot_index(seq)] \notin {Empty, seq}

\* A stale number and an exact pending duplicate drop silently.
ignored(seq) ==
    \/ seq < expected_next
    \/ Holds(slots, seq)

stored(seq) == [slots EXCEPT ![slot_index(seq)] = seq]

insert(seq) ==
    \/ /\ ignored(seq) \/ full(seq)
       /\ UNCHANGED <<slots, expected_next>>
    \/ /\ ~ignored(seq) /\ ~full(seq)
       /\ seq # expected_next
       /\ slots' = stored(seq)
       /\ UNCHANGED expected_next
    \/ /\ ~ignored(seq) /\ ~full(seq)
       /\ seq = expected_next
       /\ \E to \in seq .. (seq + Capacity) : drain(stored(seq), seq, to)

----------------------------------------------------------------------------
\* The caller, as the receiver drives the ring.
Anchor(seq) == ~seq_anchored /\ reset_expected(seq) /\ seq_anchored' = TRUE

InOrderArrival ==
    /\ seq_anchored
    /\ \E to \in (expected_next + 1) .. (expected_next + 1 + Capacity) : advance_and_drain(to)
    /\ UNCHANGED seq_anchored

Insert(seq) == seq_anchored /\ insert(seq) /\ UNCHANGED seq_anchored

RingNext ==
    \/ \E seq \in Seqs : Anchor(seq)
    \/ expected_next \in Seqs /\ InOrderArrival
    \/ \E seq \in Seqs : Insert(seq)

RingSpec == RingInit /\ [][RingNext]_ring_vars

----------------------------------------------------------------------------
RingOK ==
    /\ slots \in [0 .. (Capacity - 1) -> Nat \cup {Empty}]
    /\ expected_next \in Nat
    /\ seq_anchored \in BOOLEAN

\* Every parked message sits in its own slot and is still ahead of the cursor: the
\* next expected message is never left parked, so a run always drains to its end
\* and no delivered message stays behind to block its slot.
RingConsistent ==
    \A i \in DOMAIN slots :
        slots[i] # Empty => slots[i] > expected_next /\ slot_index(slots[i]) = i

\* The ring implements the in-order buffer: messages leave in sequence order, each
\* once, and none that was parked is clobbered, whatever aliases in the ring.
Held == {slots[i] : i \in DOMAIN slots} \ {Empty}
Buffer == INSTANCE InOrderBuffer WITH next <- expected_next, held <- Held, anchored <- seq_anchored
InOrder == Buffer!Spec
=============================================================================
