------------------------------- MODULE AbArbiter -------------------------------
(***************************************************************************)
(* AbArbiter of the MoldUDP64 client: a sliding bitmap window that lets    *)
(* the first copy of a sequence through, and a staging area where a        *)
(* missing sequence waits for a slower leg before it counts as a gap.      *)
(*                                                                         *)
(* The operators take and return the arbiter's state, a record of its      *)
(* fields, so that a caller can apply several in one step.  The instant a  *)
(* candidate was staged is kept as its age, which stops at ConfirmWindow:  *)
(* confirmed_gaps only compares the two.                                   *)
(***************************************************************************)
EXTENDS Integers

CONSTANTS Capacity,         \* sequences the window spans (RING_CAPACITY)
          ConfirmWindow     \* ticks in gap_confirm_window_ms

ASSUME WindowAssumption == Capacity \in Nat \ {0} /\ ConfirmWindow \in Nat

new ==
    [window_base |-> 0,
     window_bits |-> [i \in 0 .. (Capacity - 1) |-> FALSE],
     pending_gap_confirms |-> [q \in {} |-> 0]]

idx(seq) == seq % Capacity

rebase(base) == [new EXCEPT !.window_base = base]

\* The window covers `seq` and some stream already delivered it.
Delivered(arb, seq) ==
    /\ arb.window_base <= seq
    /\ seq < arb.window_base + Capacity
    /\ arb.window_bits[idx(seq)]

\* entry(seq).or_insert(now) for every member of S.
staged(pending, S) ==
    [q \in DOMAIN pending \cup S |-> IF q \in DOMAIN pending THEN pending[q] ELSE 0]

unstaged(pending, S) == [q \in DOMAIN pending \ S |-> pending[q]]

\* Mutant: the number just below the arrival is not staged.
note_missing_range_Short(arb, start, end) ==
    [arb EXCEPT !.pending_gap_confirms =
        staged(@, {q \in start .. (end - 2) : ~Delivered(arb, q)})]

note_missing_range(arb, start, end) ==
    [arb EXCEPT !.pending_gap_confirms =
        staged(@, {q \in start .. (end - 1) : ~Delivered(arb, q)})]

\* Window slid so that `seq` is its last position: every evicted position that no
\* stream delivered is staged, and its bit is free for reuse.
slid(arb, seq) ==
    LET target_base == seq - Capacity + 1
        evicted == arb.window_base .. (target_base - 1)
    IN  [window_base |-> target_base,
         window_bits |-> [i \in 0 .. (Capacity - 1) |->
                            arb.window_bits[i] /\ \A p \in evicted : idx(p) # i],
         pending_gap_confirms |->
            staged(arb.pending_gap_confirms, {p \in evicted : ~Delivered(arb, p)})]

verdict(arb, seq) ==
    CASE seq < arb.window_base /\ seq \in DOMAIN arb.pending_gap_confirms -> "Forward"
      [] seq < arb.window_base /\ seq \notin DOMAIN arb.pending_gap_confirms -> "OutOfWindow"
      [] seq >= arb.window_base /\ Delivered(arb, seq) -> "Duplicate"
      [] seq >= arb.window_base /\ ~Delivered(arb, seq) -> "Forward"

\* Mutant: a delivered sequence stays a candidate.
delivering_StaysCandidate(arb, seq) == [arb EXCEPT !.window_bits[idx(seq)] = TRUE]

\* First copy inside the window: set its bit, drop it from the candidates.
delivering(arb, seq) ==
    [arb EXCEPT !.window_bits[idx(seq)] = TRUE,
                !.pending_gap_confirms = unstaged(@, {seq})]

\* Mutant: a late arrival below the window stays a candidate.
observe_LateStays(arb, seq) ==
    CASE seq < arb.window_base -> arb
      [] seq >= arb.window_base + Capacity -> delivering(slid(arb, seq), seq)
      [] Delivered(arb, seq) -> arb
      [] OTHER -> delivering(arb, seq)

observe(arb, seq) ==
    CASE seq < arb.window_base ->
            [arb EXCEPT !.pending_gap_confirms = unstaged(@, {seq})]
      [] seq >= arb.window_base + Capacity -> delivering(slid(arb, seq), seq)
      [] Delivered(arb, seq) -> arb
      [] OTHER -> delivering(arb, seq)

\* Mutant: a candidate is confirmed at the next datagram.
confirmed_gaps_AtOnce(arb) == DOMAIN arb.pending_gap_confirms

\* Candidates whose confirm window has elapsed; the caller drains them.
confirmed_gaps(arb) ==
    {q \in DOMAIN arb.pending_gap_confirms : arb.pending_gap_confirms[q] >= ConfirmWindow}

\* Mutant: confirmed candidates are returned and kept.
drained_Keeps(arb) == arb

drained(arb) ==
    [arb EXCEPT !.pending_gap_confirms = unstaged(@, confirmed_gaps(arb))]

\* One tick of the clock the receiver reads once per datagram.
aged(arb) ==
    [arb EXCEPT !.pending_gap_confirms =
        [q \in DOMAIN @ |-> IF @[q] < ConfirmWindow THEN @[q] + 1 ELSE @[q]]]
=============================================================================
