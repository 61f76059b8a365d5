----------------------------- MODULE RingParameters -----------------------------
(* RING_CAPACITY: the slots of the reassembly ring, and of the arbiter's window. *)
EXTENDS SequenceSpace

CONSTANT Capacity

ASSUME CapacityAssumption == Capacity \in Nat \ {0}
=============================================================================
