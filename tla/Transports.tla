------------------------------- MODULE Transports -------------------------------
(***************************************************************************)
(* The receive transports: BypassTransport<D> over each driver D, UdpDecap *)
(* on top where D yields Ethernet frames, and the UDP sockets; the kernel  *)
(* or NIC below, and above a consumer that holds frames as long as it      *)
(* likes and drops them on any thread.                                     *)
(*                                                                         *)
(* The calling thread takes one step between any two looks at memory it    *)
(* shares with the kernel; a ring or queue is read as it stands when the   *)
(* call looks.  Frames pushed to the caller's batch are the consumer's.    *)
(***************************************************************************)
EXTENDS XskDriver, UringDriver, PmdDriver, UdpSocket, XdpProgram

CONSTANTS Backends,             \* the transports behaviours start from
          MaxRoom,              \* room of the caller's batch, at most
          DecapBurst,           \* UdpDecap: frames asked for at a time
          DstPort, DstIp,       \* what UdpDecap keeps
          WireFrames,           \* frames the filters are checked on
          Arrivals              \* those that arrive

ASSUME TransportAssumption ==
    /\ Backends \subseteq {"afxdp", "io_uring", "dpdk", "socket"}
    /\ MaxRoom \in Nat \ {0} /\ DecapBurst \in Nat \ {0}
    /\ Arrivals \subseteq WireFrames
    /\ WireFrames \subseteq FrameHeaders

VARIABLES backend,
          xsk, uring, pmd, sock,        \* the backend's record, None for the others
          freed,                        \* IndexPool: slots of dropped frames
          pending,                      \* UdpDecap: frames not yet delivered
          held,                         \* slots in the consumer's frames
          deferred,                     \* an error waits for the next call
          call                          \* where the calling thread is

vars == <<backend, xsk, uring, pmd, sock, freed, pending, held, deferred, call>>
backends == <<xsk, uring, pmd, sock>>

Idle == [pc |-> "idle", room |-> 0, pushed |-> FALSE, failed |-> FALSE]
At(pc) == call.pc = pc
GoTo(pc) == call' = [Idle EXCEPT !.pc = pc]

\* Drivers of layer L2 are read through UdpDecap.
L2 == backend \in {"afxdp", "dpdk"}

Init ==
    /\ backend \in Backends
    /\ xsk \in IF backend = "afxdp" THEN {new_xsk(pinned) : pinned \in BOOLEAN} ELSE {None}
    /\ \E forced \in {{}} \cup {{Paths[i]} : i \in DOMAIN Paths}, support \in Supports :
        uring \in IF backend = "io_uring"
                  THEN {new_uring(path) : path \in select(forced, support)} ELSE {None}
    /\ pmd = IF backend = "dpdk" THEN new_pmd ELSE None
    /\ sock = IF backend = "socket" THEN new_socket ELSE None
    /\ freed = {} /\ pending = <<>> /\ held = {}
    /\ deferred = FALSE
    /\ call = [Idle EXCEPT !.pc = IF backend \in {"dpdk", "socket"} THEN "idle" ELSE "opening"]

----------------------------------------------------------------------------
(* Buffers on their way up and back. *)

Frame(slot, bytes) == [slot |-> slot, bytes |-> bytes]
SlotsIn(frames) == {frames[i].slot : i \in DOMAIN frames}

\* Frames leave the driver: into UdpDecap's queue, or to the consumer.
Push(frames) ==
    IF L2 THEN pending' = pending \o frames /\ UNCHANGED held
    ELSE held' = held \cup SlotsIn(frames) /\ UNCHANGED pending

\* Frames are dropped: each pool takes its buffers back.
Release(slots) ==
    /\ freed' = IF backend \in {"afxdp", "io_uring"} THEN freed \cup slots ELSE freed
    /\ pmd' = IF backend = "dpdk" THEN free_mbufs(pmd, slots) ELSE pmd
    /\ sock' = IF backend = "socket" THEN return_slabs(sock, slots) ELSE sock

DropFrame(s) ==
    /\ s \in held
    /\ held' = held \ {s}
    /\ Release({s})
    /\ UNCHANGED <<backend, xsk, uring, pending, deferred, call>>

----------------------------------------------------------------------------
(* recv_burst. *)

RecvBurst(room) ==
    /\ At("idle")
    /\ backend = "socket" => ~sock.parked
    /\ call' = [Idle EXCEPT !.pc = IF L2 THEN "deliver" ELSE "inner", !.room = room]
    /\ UNCHANGED <<backend, backends, freed, pending, held, deferred>>

Accepts(frame) == parse_udp(frame.bytes, DstPort, DstIp).ok

\* UdpDecap::deliver: what the filter drops returns its buffer at once.  Nothing
\* delivered: the inner transport is read.
DecapDeliver ==
    LET n == popped(pending, call.room, DstPort, DstIp)
        good == SelectSeq(SubSeq(pending, 1, n), Accepts)
        slots == SlotsIn(SubSeq(pending, 1, n))
    IN  /\ At("deliver")
        /\ pending' = SubSeq(pending, n + 1, Len(pending))
        /\ held' = held \cup SlotsIn(good)
        /\ Release(slots \ SlotsIn(good))
        /\ call' = IF good # <<>> THEN Idle ELSE [call EXCEPT !.pc = "inner"]
        /\ UNCHANGED <<backend, xsk, uring, deferred>>

InnerRoom == IF L2 THEN DecapBurst ELSE call.room

\* IndexPool::drain_freed swaps the lists.
drain_freed ==
    /\ uring' = [uring EXCEPT !.back = freed]
    /\ freed' = uring.back

\* What a driver takes back at the start of poll_frames.
Recycle ==
    \/ /\ backend = "afxdp"
       /\ xsk' = refill(xsk, freed)
       /\ freed' = {}
       /\ UNCHANGED uring
    \/ backend = "io_uring" /\ drain_freed /\ UNCHANGED xsk
    \/ backend \in {"dpdk", "socket"} /\ UNCHANGED <<xsk, uring, freed>>

\* BypassTransport::poll_frames and recv::burst: an error left by the last call comes
\* first.
ReturnDeferred ==
    /\ At("inner") /\ deferred
    /\ deferred' = FALSE
    /\ call' = Idle
    /\ UNCHANGED <<backend, backends, freed, pending, held>>

PollFrames ==
    /\ At("inner") /\ ~deferred
    /\ Recycle
    /\ call' = [call EXCEPT !.pc = "collect"]
    /\ UNCHANGED <<backend, pmd, sock, pending, held, deferred>>

\* The driver's result becomes the caller's: an error met after frames were pushed waits
\* for the next call.  UdpDecap delivers what it was given.
Return(failed, pushed) ==
    /\ deferred' = (failed /\ pushed)
    /\ call' = IF L2 /\ pushed THEN [call EXCEPT !.pc = "deliver"] ELSE Idle

----------------------------------------------------------------------------
(* XskDriver::poll_frames, open and drop. *)

\* Mutant: only a frame ends the loop.
round_done_Frames(run) == FramesOf(run) # <<>>

\* A round that pushed a frame, or found the ring empty, is the last.
round_done(run) == run = <<>> \/ FramesOf(run) # <<>>

XskCollect ==
    LET run == consumed(xsk.rx, InnerRoom)
    IN  /\ backend = "afxdp" /\ At("collect")
        /\ xsk' = collect(xsk, InnerRoom)
        /\ Push(FramesOf(run))
        /\ \/ ~round_done(run) /\ UNCHANGED <<call, deferred>>
           \/ round_done(run) /\ FramesOf(run) # <<>> /\ Return(FALSE, TRUE)
           \/ round_done(run) /\ FramesOf(run) = <<>> /\ GoTo("wake") /\ UNCHANGED deferred
        /\ UNCHANGED <<backend, uring, pmd, sock, freed>>

XskWake ==
    /\ backend = "afxdp" /\ At("wake")
    /\ \E o \in (IF needs_wakeup(xsk) THEN wake(xsk) ELSE {[x |-> xsk, ok |-> TRUE]}) :
        xsk' = o.x /\ Return(~o.ok, FALSE)
    /\ UNCHANGED <<backend, uring, pmd, sock, freed, pending, held>>

XskOpenStep ==
    /\ backend = "afxdp" /\ At("opening")
    /\ xsk' = open_step(xsk)
    /\ IF opened(xsk') THEN GoTo("idle") ELSE UNCHANGED call
    /\ UNCHANGED <<backend, uring, pmd, sock, freed, pending, held, deferred>>

XskOpenFails ==
    /\ backend = "afxdp" /\ At("opening")
    /\ GoTo("closing")
    /\ UNCHANGED <<backend, backends, freed, pending, held, deferred>>

\* The driver's fields go one by one, UdpDecap's queue last.
XskDropStep ==
    /\ backend = "afxdp" /\ At("closing")
    /\ IF dropped_all(xsk)
       THEN /\ GoTo("gone")
            /\ Release(SlotsIn(pending))
            /\ pending' = <<>>
            /\ UNCHANGED xsk
       ELSE xsk' = drop_step(xsk) /\ UNCHANGED <<pmd, sock, freed, pending, call>>
    /\ UNCHANGED <<backend, uring, held, deferred>>

\* The built-in program passes on what it redirects, an external one anything.
Redirected == {f \in Arrivals : Verdict(f) = "redirect"}

XskLand ==
    /\ backend = "afxdp" /\ CanLand(xsk)
    /\ \E at \in Landings, f \in Arrivals :
        /\ xsk.pinned \/ f \in Redirected
        /\ xsk' = land_frame(xsk, at, f)
    /\ UNCHANGED <<backend, uring, pmd, sock, freed, pending, held, deferred, call>>

XskStall ==
    /\ backend = "afxdp" /\ CanStall(xsk)
    /\ xsk' = stall(xsk)
    /\ UNCHANGED <<backend, uring, pmd, sock, freed, pending, held, deferred, call>>

----------------------------------------------------------------------------
(* UringDriver::poll_frames, bind and drop. *)

\* bind hands over every slot, arms and submits with the steps of a poll.
UringBind ==
    /\ backend = "io_uring" /\ At("opening")
    /\ GoTo("bind")
    /\ UNCHANGED <<backend, backends, freed, pending, held, deferred>>

UringCollect ==
    LET cqes == seen(uring, InnerRoom)
    IN  /\ backend = "io_uring" /\ At("collect")
        /\ uring' = complete(uring, InnerRoom)
        /\ held' = held \cup SlotsOf(cqes, "Data")
        /\ call' = [Idle EXCEPT !.pc = "refill", !.pushed = SlotsOf(cqes, "Data") # {},
                                !.failed = complete_fails(uring, InnerRoom)]
        /\ UNCHANGED <<backend, xsk, pmd, sock, freed, pending, deferred>>

\* give_back, arm and submit_if_needed end here: the poll returns, a failed bind drops
\* the driver.  A recv error wins over a failed refill; a starved fleet with nothing
\* delivered is reported as an exhausted pool.
RefillDone(ok) ==
    IF At("bind")
    THEN GoTo(IF ok THEN "idle" ELSE "closing") /\ UNCHANGED deferred
    ELSE Return(call.failed \/ ~ok, call.pushed)

Refilling == backend = "io_uring" /\ call.pc \in {"refill", "bind"}

UringGiveBack ==
    /\ Refilling /\ uring.back # {}
    /\ \E o \in give_back(uring) :
        /\ uring' = o.u
        /\ IF o.ok THEN UNCHANGED <<call, deferred>> ELSE RefillDone(FALSE)
    /\ UNCHANGED <<backend, xsk, pmd, sock, freed, pending, held>>

UringArm ==
    /\ Refilling /\ uring.back = {} /\ wanted(uring) > 0
    /\ \E o \in arm(uring) :
        /\ uring' = o.u
        /\ IF o.ok THEN UNCHANGED <<call, deferred>> ELSE RefillDone(FALSE)
    /\ UNCHANGED <<backend, xsk, pmd, sock, freed, pending, held>>

UringSubmit ==
    /\ Refilling /\ uring.back = {} /\ wanted(uring) = 0
    /\ \E o \in (IF uring.sq = <<>> THEN {[u |-> uring, ok |-> TRUE]} ELSE enter(uring)) :
        uring' = o.u /\ RefillDone(o.ok)
    /\ UNCHANGED <<backend, xsk, pmd, sock, freed, pending, held>>

\* Drop: rounds of cancelling until none is armed, or until it gives up.
UringDrop ==
    /\ backend = "io_uring" /\ At("closing")
    /\ \/ uring' = release(uring, quiet(uring)) /\ GoTo("gone")
       \/ /\ ~quiet(uring)
          /\ \E o \in cancel_round(uring) :
                IF o.ok THEN uring' = o.u /\ UNCHANGED call
                ELSE uring' = release(o.u, FALSE) /\ GoTo("gone")
    /\ UNCHANGED <<backend, xsk, pmd, sock, freed, pending, held, deferred>>

UringArrival ==
    /\ backend = "io_uring" /\ ~At("gone") /\ ~uring.waiting
    /\ uring' = [uring EXCEPT !.waiting = TRUE]
    /\ UNCHANGED <<backend, xsk, pmd, sock, freed, pending, held, deferred, call>>

UringReceives ==
    /\ backend = "io_uring" /\ ~At("gone")
    /\ uring' \in receptions(uring)
    /\ UNCHANGED <<backend, xsk, pmd, sock, freed, pending, held, deferred, call>>

UringFailsRecv ==
    /\ backend = "io_uring" /\ ~At("gone")
    /\ uring' \in failures(uring)
    /\ UNCHANGED <<backend, xsk, pmd, sock, freed, pending, held, deferred, call>>

----------------------------------------------------------------------------
(* PmdDriver::poll_frames. *)

\* Bursts are taken until one delivers a frame or the queue is empty.
PmdCollect ==
    /\ backend = "dpdk" /\ At("collect")
    /\ \E burst \in rx_bursts(pmd, InnerRoom) :
        LET good == settle(burst).delivered
        IN  /\ pmd' = after_burst(pmd, burst)
            /\ Push([i \in DOMAIN good |-> Frame(good[i].mbuf, good[i].bytes)])
            /\ IF burst = <<>> \/ good # <<>> THEN Return(FALSE, good # <<>>)
               ELSE UNCHANGED <<call, deferred>>
    /\ UNCHANGED <<backend, xsk, uring, sock, freed>>

NicReceives ==
    /\ backend = "dpdk"
    /\ \E m \in pmd.ring, segs \in 1 .. 2, f \in Arrivals : pmd' = nic_received(pmd, m, segs, f)
    /\ UNCHANGED <<backend, xsk, uring, sock, freed, pending, held, deferred, call>>

----------------------------------------------------------------------------
(* recv::burst, and waiting for readiness. *)

SockReturn(result) ==
    /\ sock' = [after_recv(sock) EXCEPT !.drained = result = "would_block" /\ ~call.pushed]
    /\ Return(result = "error", call.pushed)

SockAcquire ==
    /\ backend = "socket" /\ At("collect")
    /\ \E slab \in sock.free : sock' = acquire(sock, slab)
    /\ call' = [call EXCEPT !.pc = "recv"]
    /\ UNCHANGED <<backend, xsk, uring, pmd, freed, pending, held, deferred>>

\* One datagram; a cut one is no frame, and the loop goes on.
SockRecv ==
    /\ backend = "socket" /\ At("recv")
    /\ \/ /\ recv_result(sock) \in {"error", "would_block"}
          /\ SockReturn(recv_result(sock))
          /\ UNCHANGED held
       \/ /\ recv_result(sock) = "cut"
          /\ sock' = after_recv(sock)
          /\ call' = [call EXCEPT !.pc = "collect"]
          /\ UNCHANGED <<held, deferred>>
       \/ /\ recv_result(sock) = "fits"
          /\ sock' = after_recv(sock)
          /\ held' = held \cup sock.slab
          /\ IF call.room = 1 THEN Return(FALSE, TRUE)
             ELSE /\ call' = [call EXCEPT !.pc = "collect", !.room = @ - 1, !.pushed = TRUE]
                  /\ UNCHANGED deferred
    /\ UNCHANGED <<backend, xsk, uring, pmd, freed, pending>>

\* No slab: what was pushed is returned, else a peek decides.
SockExhausted ==
    /\ backend = "socket" /\ At("collect") /\ sock.free = {}
    /\ IF call.pushed THEN Return(FALSE, TRUE) ELSE GoTo("peek") /\ UNCHANGED deferred
    /\ UNCHANGED <<backend, backends, freed, pending, held>>

SockPeek ==
    /\ backend = "socket" /\ At("peek")
    /\ sock' = [after_peek(sock) EXCEPT !.drained = exhausted(sock) = "would_block"]
    /\ Return(exhausted(sock) # "would_block", FALSE)
    /\ UNCHANGED <<backend, xsk, uring, pmd, freed, pending, held>>

\* The kernel and the caller between two calls.
SockStep(next) ==
    /\ sock' = next
    /\ UNCHANGED <<backend, xsk, uring, pmd, freed, pending, held, deferred, call>>

SockConvert ==
    /\ backend = "socket" /\ At("idle") /\ sock.kind = "udp"
    /\ \E kind \in {"mio", "tokio"} : SockStep(converted(sock, kind))

SockPark ==
    /\ backend = "socket" /\ At("idle") /\ sock.kind # "udp" /\ sock.drained /\ ~sock.parked
    /\ SockStep(parks(sock))

SockWait ==
    /\ backend = "socket" /\ sock.parked /\ sock.kind = "mio"
    /\ \E next \in waits(sock) : SockStep(next)

SockReady ==
    /\ backend = "socket" /\ sock.parked /\ sock.kind = "tokio" /\ sock.ready
    /\ SockStep(readiness_checked(sock))

SockArrival ==
    /\ backend = "socket" /\ Len(sock.queue) < MaxQueue
    /\ \E datagram \in {"fits", "cut"} : SockStep(arrived(sock, datagram))

SockError ==
    /\ backend = "socket" /\ ~sock.error
    /\ SockStep(errored(sock))

----------------------------------------------------------------------------
\* The owner drops the transport between two calls.
Close ==
    /\ backend \in {"afxdp", "io_uring"} /\ At("idle")
    /\ GoTo("closing")
    /\ UNCHANGED <<backend, backends, freed, pending, held, deferred>>

Next ==
    \/ \E room \in 1 .. MaxRoom : RecvBurst(room)
    \/ \E s \in held : DropFrame(s)
    \/ DecapDeliver \/ ReturnDeferred \/ PollFrames \/ Close
    \/ XskCollect \/ XskWake \/ XskOpenStep \/ XskOpenFails \/ XskDropStep
    \/ XskLand \/ XskStall
    \/ UringBind \/ UringCollect \/ UringGiveBack \/ UringArm \/ UringSubmit \/ UringDrop
    \/ UringArrival \/ UringReceives \/ UringFailsRecv
    \/ PmdCollect \/ NicReceives
    \/ SockAcquire \/ SockRecv \/ SockExhausted \/ SockPeek
    \/ SockConvert \/ SockPark \/ SockWait \/ SockReady \/ SockArrival \/ SockError

Spec == Init /\ [][Next]_vars

----------------------------------------------------------------------------
\* The calling thread runs: a call begun goes on, and the caller polls again.
Thread ==
    \/ \E room \in 1 .. MaxRoom : RecvBurst(room)
    \/ DecapDeliver \/ ReturnDeferred \/ PollFrames
    \/ XskCollect \/ XskWake \/ XskOpenStep \/ XskDropStep
    \/ UringBind \/ UringCollect \/ UringGiveBack \/ UringArm \/ UringSubmit \/ UringDrop
    \/ PmdCollect \/ SockAcquire \/ SockRecv \/ SockExhausted \/ SockPeek

\* A kernel that is busy or interrupted is so only for a while.
Submitted == (UringGiveBack \/ UringSubmit) /\ uring'.sq = <<>>

FairSpec == Spec /\ WF_vars(Thread) /\ SF_vars(Submitted)

----------------------------------------------------------------------------
(* Properties. *)

BufferIds == 0 .. (Max({Frames, UringSlots, Mbufs, Slabs}) - 1)

Kept(owner, spot, slots) == {<<s, owner, spot>> : s \in slots}

\* Where each buffer is; ids the backend does not use stay with it.
Whereabouts ==
    Kept("frame", "consumer", held) \cup Kept("frame", "decap", SlotsIn(pending))
        \cup Kept("driver", "freed", freed) \cup
    CASE backend = "afxdp" ->
            Kept("driver", "free", xsk.free) \cup Kept("kernel", "fill", FillSlots(xsk))
                \cup Kept("kernel", "rx", RxSlots(xsk))
                \cup Kept("driver", "unused", BufferIds \ XskSlots)
      [] backend = "io_uring" ->
            Kept("driver", "back", uring.back) \cup Kept("kernel", "group", uring.group)
                \cup Kept("kernel", "sq", QueuedSlots(uring))
                \cup Kept("kernel", "cq", CompletedSlots(uring)) \cup Kept("lost", "", uring.lost)
                \cup Kept("driver", "unused", BufferIds \ SlotIds)
      [] backend = "dpdk" ->
            Kept("driver", "mempool", pmd.mempool) \cup Kept("kernel", "ring", pmd.ring)
                \cup Kept("kernel", "done", Ids(pmd.done))
                \cup Kept("driver", "unused", BufferIds \ MbufIds)
      [] backend = "socket" ->
            Kept("driver", "pool", sock.free) \cup Kept("kernel", "recv", sock.slab)
                \cup Kept("driver", "unused", BufferIds \ SlabIds)

Ownership == INSTANCE SlotOwnership WITH Slots <- BufferIds, at <- Whereabouts

\* Whatever the backend, a buffer is in one place at a time and moves only the way the
\* unsafe contract of IndexPool::frame, mbuf ownership and VecSlab's guard allow.
OneOwner == Ownership!Spec

\* Frames received and not yet with the consumer, oldest first.
Received ==
    LET wanted_only(frames) == SelectSeq(frames, Accepts)
        slots(frames) == [i \in DOMAIN frames |-> frames[i].slot]
        single == SelectSeq(pmd.done, LAMBDA m : m.segs = 1)
        data == SelectSeq(uring.cq, LAMBDA cqe : IsKind(cqe, "Data"))
    IN  CASE call.pc \in {"closing", "gone"} -> <<>>
          [] backend = "afxdp" ->
                slots(wanted_only(pending \o FramesOf(consumed(xsk.rx, Frames))))
          [] backend = "dpdk" ->
                slots(wanted_only(pending \o [i \in DOMAIN single |->
                                                Frame(single[i].mbuf, single[i].bytes)]))
          [] backend = "io_uring" -> [i \in DOMAIN data |-> data[i].bid]
          [] backend = "socket" -> <<>>

Queue == INSTANCE FrameQueue WITH
            Slots <- BufferIds,
            queue <- Received,
            frames <- IF backend = "socket" THEN {} ELSE held,
            open <- call.pc \notin {"closing", "gone"}

\* A frame the driver received, and that UdpDecap accepts, reaches the consumer in
\* arrival order and exactly once, across full batches, filtered bursts, deferred errors
\* and failing refills.
InOrderOnce == Queue!Spec

\* A call that ends with nothing delivered and no error left no frame behind that was
\* there when it last looked: frames that are dropped, filtered out, or completions that
\* carry none, never make a transport look idle.
IdleMeansEmpty ==
    [][At("collect") /\ call'.pc \in {"idle", "wake", "refill"}
            /\ held' = held /\ ~call'.failed => Received = <<>>]_vars

\* A caller parked on a socket that has something to report is going to be woken: every
\* Ok(0) it parked on was true, and no edge is used up early.
ParkedIsWoken ==
    backend = "socket" /\ sock.parked /\ (sock.queue # <<>> \/ sock.error) => sock.ready

\* A buffer waits in the hands of a driver that is polled.
Resting(s) ==
    /\ call.pc \notin {"opening", "bind", "closing", "gone"}
    /\ \/ backend = "afxdp" /\ s \in freed \cup xsk.free
       \/ backend = "io_uring" /\ s \in freed \cup uring.back
       \/ backend = "dpdk" /\ s \in pmd.mempool

\* A call returns, unless the kernel keeps bringing frames that are all dropped or
\* filtered out: every loop of a call uses up what it loops over.
CallsReturn ==
    \/ []<>(call.pc \in {"idle", "gone"})
    \/ []<><<XskLand \/ NicReceives \/ SockArrival>>_vars

\* A buffer that is back with a driver goes out to receive again as long as the caller
\* polls, also when its frame was cut, its submission failed, or the ring was full.
BuffersReturn ==
    \A s \in BufferIds : Resting(s) ~> ~Resting(s)

\* Fleet::armed counts every recv the kernel still has, or has ended without the driver
\* having read so, whatever path is used and whichever push, enter or recv failed.
ArmedExact ==
    backend = "io_uring" /\ ~At("gone") => uring.armed = Outstanding(uring)

\* A starved fleet arms nothing, so some slot must still come back to reopen it.
StarvedReopens ==
    backend = "io_uring" /\ uring.starved /\ uring.lost = {} /\ At("idle") =>
        \/ Outstanding(uring) > 0
        \/ held \cup freed \cup uring.back # {}

\* The kernel never reaches memory that is gone: receive memory is freed with no recv
\* left, the pool outlives the registered UMEM, and a program finds only a bound socket
\* with memory behind it.
MemoryOutlivesKernel ==
    /\ backend = "io_uring" /\ uring.mem = "freed" => uring.requests = 0
    /\ backend = "afxdp" =>
        /\ "umem" \in xsk.live => "pool" \in xsk.live
        /\ Reachable(xsk) => {"bound", "umem"} \subseteq xsk.live

\* Frames UdpDecap accepts for some port and address, and the program does not redirect;
\* frames it reads past the end of.
Missed == {f \in WireFrames :
            Verdict(f) \notin {"redirect", "pass"} \/ (parse_udp(f, f.port, {}).ok /\ Verdict(f) = "pass")}

\* The built-in program redirects every frame UdpDecap accepts, whatever its port and
\* address, and reads no byte past the end of any frame: a socket that filters for itself
\* sees all its datagrams.
AcceptedRedirected == backend = "afxdp" /\ ~xsk.pinned => Missed = {}

\* Frames whose payload parse_udp places outside the frame or its IP packet.
Overrun == {f \in WireFrames :
                LET p == parse_udp(f, f.port, {f.ip})
                    l3 == IF f.ethertype = ETHERTYPE_VLAN THEN ETH_HDR + VLAN_TAG ELSE ETH_HDR
                IN  p.ok /\ ~(p.start <= p.end /\ p.end <= Min({f.len, l3 + f.total}))}

\* The payload of a delivered frame lies inside the frame and inside its IP packet, so
\* DecapFrame::as_ref never falls back to an empty slice.
PayloadInside == L2 => Overrun = {}
=============================================================================
