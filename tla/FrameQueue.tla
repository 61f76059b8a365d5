------------------------------- MODULE FrameQueue -------------------------------
(***************************************************************************)
(* What a receive transport promises about the frames it received: they    *)
(* reach the consumer in the order they arrived, once, and none is skipped *)
(* until the transport is dropped.                                         *)
(***************************************************************************)
EXTENDS Naturals, Sequences

CONSTANT Slots

VARIABLES queue,        \* received and not yet delivered
          frames,       \* in the consumer's hands
          open          \* the transport is not dropped

Init == queue = <<>> /\ frames = {} /\ open = TRUE

Arrive(s) ==
    /\ open
    /\ s \notin frames
    /\ \A i \in DOMAIN queue : queue[i] # s
    /\ queue' = Append(queue, s)
    /\ UNCHANGED <<frames, open>>

Take(n) ==
    /\ n <= Len(queue)
    /\ frames' = frames \cup {queue[i] : i \in 1 .. n}
    /\ queue' = SubSeq(queue, n + 1, Len(queue))
    /\ UNCHANGED open

Release(s) ==
    /\ s \in frames
    /\ frames' = frames \ {s}
    /\ UNCHANGED <<queue, open>>

Drop == open /\ open' = FALSE /\ queue' = <<>> /\ UNCHANGED frames

Next ==
    \/ \E s \in Slots : Arrive(s) \/ Release(s)
    \/ \E n \in 1 .. Len(queue) : Take(n)
    \/ Drop

Spec == Init /\ [][Next]_<<queue, frames, open>>
=============================================================================
