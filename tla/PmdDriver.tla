-------------------------------- MODULE PmdDriver --------------------------------
(***************************************************************************)
(* The DPDK driver over one receive queue.                                 *)
(*                                                                         *)
(*   mempool   free mbufs                                                  *)
(*   ring      mbufs posted to the NIC                                     *)
(*   done      received mbufs with segment counts and frames, oldest first   *)
(***************************************************************************)
EXTENDS Integers, Sequences, FiniteSetsExt

CONSTANTS Mbufs,        \* mbufs of the pool
          Burst         \* cfg.burst

ASSUME PmdAssumption == Mbufs \in Nat \ {0} /\ Burst \in Nat \ {0}

MbufIds == 0 .. (Mbufs - 1)

new_pmd == [mempool |-> MbufIds, ring |-> {}, done |-> <<>>]

\* Mutant: what is freed is counted from the end of the array.
settle_FreesLast(burst) ==
    LET kept == SelectSeq(burst, LAMBDA m : m.segs = 1)
    IN  [delivered |-> kept, freed |-> IF Len(kept) = Len(burst) THEN <<>> ELSE <<burst[Len(burst)]>>]

\* Mutant: the burst is gone through from its end.
settle_Backwards(burst) ==
    LET kept == SelectSeq(burst, LAMBDA m : m.segs = 1)
    IN  [delivered |-> [i \in DOMAIN kept |-> kept[Len(kept) + 1 - i]],
         freed |-> SelectSeq(burst, LAMBDA m : m.segs > 1)]

\* settle: chained mbufs move to the front of the array, in place, and are freed.
settle(burst) ==
    LET pass[i \in 0 .. Len(burst)] ==
            IF i = 0 THEN [mbufs |-> burst, chained |-> 0, delivered |-> <<>>]
            ELSE LET before == pass[i - 1]
                     mbuf == before.mbufs[i]
                 IN  IF mbuf.segs > 1
                     THEN [before EXCEPT !.mbufs[before.chained + 1] = mbuf, !.chained = @ + 1]
                     ELSE [before EXCEPT !.delivered = Append(@, mbuf)]
        end == pass[Len(burst)]
    IN  [delivered |-> end.delivered, freed |-> SubSeq(end.mbufs, 1, end.chained)]

Ids(burst) == {burst[i].mbuf : i \in DOMAIN burst}

\* What one rx_burst call may return: something unless nothing was received.
rx_bursts(p, room) ==
    IF p.done = <<>> THEN {<<>>}
    ELSE {SubSeq(p.done, 1, n) : n \in 1 .. Min({room, Burst, Len(p.done)})}

\* The PMD refills the NIC from the mempool within rx_burst; settle frees after that.
after_burst(p, burst) ==
    [p EXCEPT !.done = SubSeq(@, Len(burst) + 1, Len(@)),
              !.ring = @ \cup p.mempool,
              !.mempool = Ids(settle(burst).freed)]

\* MbufFrame::drop, from any thread.
free_mbufs(p, mbufs) == [p EXCEPT !.mempool = @ \cup mbufs]

\* The NIC writes a frame into one mbuf, or across several: a chain.
nic_received(p, m, segs, bytes) ==
    [p EXCEPT !.ring = @ \ {m}, !.done = Append(@, [mbuf |-> m, segs |-> segs, bytes |-> bytes])]
=============================================================================
