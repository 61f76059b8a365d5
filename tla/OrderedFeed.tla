------------------------------- MODULE OrderedFeed -------------------------------
(***************************************************************************)
(* What a market-data receiver promises its caller: messages are handed    *)
(* out in sequence order, none skipped and none repeated, from the start   *)
(* the caller named or from wherever the feed was joined.                  *)
(***************************************************************************)
EXTENDS Naturals, Sequences

CONSTANT Start          \* first sequence number, 0 when any may be the first

VARIABLE delivered      \* sequence numbers handed out, in order

Init == delivered = <<>>

First ==
    /\ delivered = <<>>
    /\ Len(delivered') = 1
    /\ delivered'[1] \in IF Start = 0 THEN Nat ELSE {Start}

Following ==
    /\ delivered # <<>>
    /\ delivered' = Append(delivered, delivered[Len(delivered)] + 1)

Next == First \/ Following

Spec == Init /\ [][Next]_delivered
=============================================================================
