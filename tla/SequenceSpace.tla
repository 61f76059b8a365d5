------------------------------ MODULE SequenceSpace ------------------------------
(* The sequence numbers of a MoldUDP64 session that a model is about. *)
EXTENDS Integers

CONSTANT Seqs

ASSUME SeqsAssumption == Seqs \subseteq Nat
=============================================================================
