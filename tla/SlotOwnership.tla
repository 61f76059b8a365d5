----------------------------- MODULE SlotOwnership -----------------------------
(***************************************************************************)
(* What a bypass driver promises about its receive buffers: a buffer is in *)
(* one place at a time, a frame is minted only from a buffer the kernel or *)
(* NIC handed back, and a buffer goes to the kernel only out of the        *)
(* driver's own hands.                                                     *)
(***************************************************************************)
EXTENDS FiniteSets

CONSTANT Slots

VARIABLE at             \* triples: a slot, its owner, where the owner keeps it

Moves == {<<"driver", "kernel">>,      \* handed over for receiving
          <<"kernel", "frame">>,       \* collected
          <<"kernel", "driver">>,      \* collected and not delivered
          <<"frame", "driver">>,       \* frame dropped
          <<"kernel", "lost">>}        \* given up, with an error or at shutdown

InOnePlace(where) == \A s \in Slots : Cardinality({p \in where : p[1] = s}) = 1

Init == InOnePlace(at) /\ \A p \in at : p[2] = "driver"

Next ==
    LET before == at
        after == at'
    IN  /\ InOnePlace(after)
        /\ \A p \in before, q \in after :
                p[1] = q[1] /\ p[2] # q[2] => <<p[2], q[2]>> \in Moves

Spec == Init /\ [][Next]_at
=============================================================================
