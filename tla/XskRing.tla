--------------------------------- MODULE XskRing ---------------------------------
(***************************************************************************)
(* A ring shared with the kernel: one side writes entries and publishes    *)
(* them by moving `prod`, the other reads them and releases them by moving *)
(* `cons`.  The indices run freely and wrap; an entry is reached by its    *)
(* index modulo the size.  The process's own copy of its index equals the  *)
(* shared word between calls, so one value stands for both.                *)
(*                                                                         *)
(* An entry that was released is shown as None: what it still holds is     *)
(* never read before the other side writes it again.                       *)
(***************************************************************************)
EXTENDS Integers, Sequences, FiniteSetsExt

CONSTANTS Frames,       \* entries of each ring, a power of two
          IndexSpan,    \* 2^32: where the indices wrap
          None

ASSUME RingAssumption ==
    /\ Frames \in Nat \ {0}
    /\ IndexSpan \in Nat \ {0}
    /\ IndexSpan % Frames = 0 /\ IndexSpan > Frames

new_ring == [prod |-> 0, cons |-> 0, desc |-> [i \in 0 .. (Frames - 1) |-> None]]

entry(index) == index % Frames

free_entries(r) == Min({(r.cons + Frames - r.prod) % IndexSpan, Frames})

ready_entries(r) == Min({(r.prod - r.cons) % IndexSpan, Frames})

\* The entries at indices from .. from + n - 1, as positions of the array.
Span(from, n) == {entry(from + i) : i \in 0 .. (n - 1)}

\* How many of `items` one call takes.
written(r, items) == Min({Len(items), free_entries(r)})

produce(r, items) ==
    LET n == written(r, items)
        item(at) == items[1 + CHOOSE i \in 0 .. (n - 1) : entry(r.prod + i) = at]
    IN  [r EXCEPT !.prod = (@ + n) % IndexSpan,
                  !.desc = [at \in DOMAIN @ |-> IF at \in Span(r.prod, n) THEN item(at) ELSE @[at]]]

taken(r, max) == Min({ready_entries(r), max})

\* The entries one call of consume passes on, in ring order.
consumed(r, max) == [i \in 1 .. taken(r, max) |-> r.desc[entry(r.cons + i - 1)]]

consume(r, max) ==
    LET n == taken(r, max)
    IN  [r EXCEPT !.cons = (@ + n) % IndexSpan,
                  !.desc = [at \in DOMAIN @ |-> IF at \in Span(r.cons, n) THEN None ELSE @[at]]]

\* The entries published and not yet released.
Published(r) == {r.desc[at] : at \in Span(r.cons, ready_entries(r))}
=============================================================================
