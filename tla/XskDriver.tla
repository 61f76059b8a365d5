-------------------------------- MODULE XskDriver --------------------------------
(***************************************************************************)
(* The AF_XDP driver: a record, and one operator per method or step that   *)
(* gives the record it leaves behind.                                      *)
(*                                                                         *)
(*   live    what open has acquired and not yet dropped                    *)
(*   fill    ring of addresses the kernel may write to                     *)
(*   rx      ring of descriptors the kernel has written                    *)
(*   free    slots owed to the fill ring                                   *)
(*   wakeup  the kernel's need-wakeup flag                                 *)
(***************************************************************************)
EXTENDS XskRing, Functions

CONSTANT FrameSize      \* bytes of one UMEM frame

ASSUME FrameSizeAssumption == FrameSize \in Nat \ {0}

XskSlots == 0 .. (Frames - 1)

\* In some order: that in which a Vec of slots is popped does not matter here.
Listed(S) == CHOOSE slots \in Bijection(1 .. Cardinality(S), S) : TRUE

new_xsk(pinned) ==
    [pinned |-> pinned, live |-> {}, fill |-> new_ring, rx |-> new_ring,
     free |-> XskSlots, wakeup |-> FALSE]

----------------------------------------------------------------------------
(* Receiving. *)

\* Mutant: slots on the free list stay there.
refill_FreedOnly(x, freed) ==
    LET owed == freed
        addrs == [i \in 1 .. Cardinality(owed) |-> Listed(owed)[i] * FrameSize]
    IN  [x EXCEPT !.fill = produce(@, addrs)]

\* Slots of dropped frames join the free list; the fill ring takes what fits.
refill(x, freed) ==
    LET owed == Listed(x.free \cup freed)
        addrs == [i \in DOMAIN owed |-> owed[i] * FrameSize]
        n == written(x.fill, addrs)
    IN  [x EXCEPT !.fill = produce(@, addrs),
                  !.free = {owed[i] : i \in (n + 1) .. Len(owed)}]

\* Where a descriptor's bytes sit in UMEM.
locate(desc) ==
    LET slot == desc.addr \div FrameSize
        offset == desc.addr % FrameSize
    IN  CASE slot \notin XskSlots -> [kind |-> "Foreign"]
          [] slot \in XskSlots /\ offset + desc.len <= FrameSize -> [kind |-> "Frame", slot |-> slot]
          [] OTHER -> [kind |-> "Truncated", slot |-> slot]

\* The descriptors of a run that are located as `kind`.
Located(run, kind) == {i \in DOMAIN run : locate(run[i]).kind = kind}

\* The frames a run yields, in order.
FramesOf(run) ==
    LET good == SelectSeq(run, LAMBDA desc : locate(desc).kind = "Frame")
    IN  [i \in DOMAIN good |-> [slot |-> locate(good[i]).slot, bytes |-> good[i].bytes]]

\* One round of Rings::poll_frames: the run leaves the ring, slots of frames that
\* ran past their end are owed to the kernel again.
collect(x, room) ==
    LET run == consumed(x.rx, room)
    IN  [x EXCEPT !.rx = consume(@, room),
                  !.free = @ \cup {locate(run[i]).slot : i \in Located(run, "Truncated")}]

needs_wakeup(x) == x.wakeup

\* The kick: taken, refused for now (both Ok), or a failure of the socket.
wake(x) == {[x |-> [x EXCEPT !.wakeup = FALSE], ok |-> TRUE], [x |-> x, ok |-> TRUE],
            [x |-> x, ok |-> FALSE]}

----------------------------------------------------------------------------
(* Opening and dropping. *)

\* The steps of open, in order; each may fail.  `map` creates the XSKMAP or opens the
\* pinned one, `program` loads and `link` attaches the built-in program.
open_order(x) ==
    <<"pool", "socket", "umem", "ring_sizes", "offsets", "fill_map", "rx_map", "rings",
      "bound", "map", "entry">> \o (IF x.pinned THEN <<>> ELSE <<"program", "link">>)

opened(x) == x.live = Range(open_order(x))

NextStep(x) == open_order(x)[Cardinality(x.live) + 1]

open_step(x) ==
    LET y == [x EXCEPT !.live = @ \cup {NextStep(x)}]
    IN  IF NextStep(x) = "rings" THEN refill(y, {}) ELSE y

\* Mutant: memory goes before the socket that uses it.
drop_order_PoolFirst == <<"link", "rings", "fill_map", "rx_map", "pool", "socket">>

\* Fields of the driver, in declared order.  When open fails its locals go in reverse
\* order, which differs only in the two mappings.
drop_order == <<"link", "rings", "fill_map", "rx_map", "socket", "pool">>

\* What dies with a resource: closing the socket releases the UMEM and the queue and
\* takes its entry out of the map; the link holds the program, and that the map.
Dying(what) ==
    CASE what = "socket" -> {"socket", "umem", "ring_sizes", "offsets", "bound", "entry"}
      [] what = "link" -> {"link", "program", "map"}
      [] OTHER -> {what}

\* The next resource to go.
drop_step(x) ==
    LET left == {i \in DOMAIN drop_order : drop_order[i] \in x.live}
    IN  [x EXCEPT !.live = @ \ Dying(drop_order[Min(left)])]

dropped_all(x) == Range(drop_order) \cap x.live = {}

----------------------------------------------------------------------------
(* The kernel.  It redirects while program and entry are there: the built-in program
   lives as long as its link, an external one is always attached. *)

Redirecting(x) ==
    /\ {"entry", "bound"} \subseteq x.live
    /\ x.pinned \/ "link" \in x.live

\* The program may reach the socket, bound or not.
Reachable(x) == "entry" \in x.live /\ (x.pinned \/ "link" \in x.live)

\* A frame may fill its chunk or, behind headroom, run past the end of it.
Landings == {[offset |-> 0, len |-> FrameSize], [offset |-> 1, len |-> FrameSize]}

CanLand(x) ==
    /\ Redirecting(x)
    /\ ~x.wakeup
    /\ ready_entries(x.fill) > 0
    /\ free_entries(x.rx) > 0

\* A frame lands in the chunk at the head of the fill ring.
land_frame(x, at, bytes) ==
    LET addr == Head(consumed(x.fill, 1))
    IN  [x EXCEPT !.fill = consume(@, 1),
                  !.rx = produce(@, <<[addr |-> addr + at.offset, len |-> at.len, bytes |-> bytes]>>)]

\* A zero-copy driver that found the fill ring empty waits to be kicked.
CanStall(x) == Redirecting(x) /\ ~x.wakeup /\ ready_entries(x.fill) = 0
stall(x) == [x EXCEPT !.wakeup = TRUE]

----------------------------------------------------------------------------
FillSlots(x) == {addr \div FrameSize : addr \in Published(x.fill)}
RxSlots(x) == {desc.addr \div FrameSize : desc \in Published(x.rx)}
=============================================================================
