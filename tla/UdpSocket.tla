-------------------------------- MODULE UdpSocket --------------------------------
(***************************************************************************)
(* The UDP sockets: plain UdpSocket, and MioUdp and AsyncUdp it turns      *)
(* into.  They share recv::burst and differ in how a caller waits.         *)
(*                                                                         *)
(*   kind     "udp", "mio" or "tokio"                                      *)
(*   free     slabs in the VecPool                                         *)
(*   slab     the slab lent to recv, if any                                *)
(*   queue    datagrams in the kernel: "fits" a slab, or is "cut"          *)
(*   error    the socket has an error to report                            *)
(*   ready    mio: an edge not yet reported; tokio: cached readiness       *)
(*   parked   the caller waits for readiness                               *)
(*   drained  the last call found nothing, so the caller may wait          *)
(***************************************************************************)
EXTENDS Integers, Sequences

CONSTANTS Slabs,        \* cfg.slab_count
          MaxQueue      \* bound: datagrams queued in the kernel

ASSUME SocketAssumption == Slabs \in Nat \ {0} /\ MaxQueue \in Nat \ {0}

SlabIds == 0 .. (Slabs - 1)

new_socket == [kind |-> "udp", free |-> SlabIds, slab |-> {}, queue |-> <<>>,
               error |-> FALSE, ready |-> FALSE, parked |-> FALSE, drained |-> FALSE]

\* What one recv reports; an error comes before data.
recv_result(s) ==
    IF s.error THEN "error" ELSE IF s.queue = <<>> THEN "would_block" ELSE Head(s.queue)

\* The socket after that recv; the slab is the frame's, or dropped.
after_recv(s) ==
    [s EXCEPT !.slab = {},
              !.free = IF recv_result(s) = "fits" THEN @ ELSE @ \cup s.slab,
              !.error = FALSE,
              !.queue = IF s.error \/ @ = <<>> THEN @ ELSE Tail(@)]

acquire(s, slab) == [s EXCEPT !.free = @ \ {slab}, !.slab = {slab}, !.drained = FALSE]

\* VecSlab::drop, from any thread.
return_slabs(s, slabs) == [s EXCEPT !.free = @ \cup slabs]

\* Mutant: an empty pool with nothing pushed looks idle.
exhausted_Idle(s) == "would_block"

\* Pool empty, nothing pushed: the peek tells an idle socket from a starved one.
exhausted(s) ==
    IF s.error THEN "error" ELSE IF s.queue = <<>> THEN "would_block" ELSE "pool_exhausted"

\* A peek takes the error like a recv does.
after_peek(s) == [s EXCEPT !.error = FALSE]

\* from_socket and register: the pool moves along, queued data is reported at once.
converted(s, kind) ==
    [s EXCEPT !.kind = kind, !.ready = s.queue # <<>> \/ s.error, !.drained = TRUE]

parks(s) == [s EXCEPT !.parked = TRUE]
unparked(s) == [s EXCEPT !.parked = FALSE, !.drained = FALSE]

\* ReadySet::wait returns with the event, which is reported once, or with nothing: it
\* timed out or was interrupted.
waits(s) == {unparked([s EXCEPT !.ready = FALSE]), unparked(s)}

\* AsyncUdp::ready: the cached readiness is checked with a peek.  Nothing there clears
\* it and the loop waits for the next edge.
readiness_checked(s) ==
    CASE s.error -> unparked(after_peek(s))
      [] ~s.error /\ s.queue # <<>> -> unparked(s)
      [] OTHER -> [s EXCEPT !.ready = FALSE]

----------------------------------------------------------------------------
(* The kernel. *)

arrived(s, datagram) == [s EXCEPT !.queue = Append(@, datagram), !.ready = TRUE]
errored(s) == [s EXCEPT !.error = TRUE, !.ready = TRUE]
=============================================================================
