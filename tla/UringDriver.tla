------------------------------- MODULE UringDriver -------------------------------
(***************************************************************************)
(* The io_uring driver: a record, and one operator per method or step that *)
(* gives the record it leaves behind, or the set of [u, ok] it may leave   *)
(* where the kernel decides.                                               *)
(*                                                                         *)
(*   sq, cq    submission and completion queues                            *)
(*   requests  recvs the kernel holds                                      *)
(*   group     slots the kernel may receive into                           *)
(*   armed, starved     the Fleet                                          *)
(*   back      slots on their way to the kernel                            *)
(*   lost      slots of failed provides, and of completions seen at drop   *)
(*   waiting   a datagram is queued in the socket                          *)
(*   mem       pool region and buffer ring: "live", "freed" or "leaked"    *)
(***************************************************************************)
EXTENDS Integers, Sequences, FiniteSetsExt

CONSTANTS UringSlots,   \* cfg.slots
          Depth,        \* cfg.depth
          SqSize,       \* submission entries; the code's (depth + 2).next_power_of_two()
          CqSize,       \* bound: recvs complete while fewer completions are unread
          NoSlot        \* a completion without buffer id

ASSUME UringAssumption ==
    /\ UringSlots \in Nat \ {0}
    /\ Depth \in 1 .. UringSlots        \* IoUringConfig::validate
    /\ SqSize \in Nat /\ SqSize >= Depth + 2
    /\ CqSize \in Nat /\ CqSize >= UringSlots + Depth
    /\ NoSlot \notin 0 .. (UringSlots - 1)

SlotIds == 0 .. (UringSlots - 1)
SlotSize == 1
ENOBUFS == 105
ECANCELED == 125
ECONNREFUSED == 111
EINVAL == 22

Recv == [op |-> "recv", slots |-> {}]
Cancel == [op |-> "cancel", slots |-> {}]
Provide(run) == [op |-> "provide", slots |-> run]

RecvCqe(res, bid, more) == [ud |-> "recv", res |-> res, bid |-> bid, more |-> more, slots |-> {}]
ProvideFailed(run) ==
    [ud |-> "provide", res |-> -EINVAL, bid |-> NoSlot, more |-> FALSE, slots |-> run]

----------------------------------------------------------------------------
(* Choosing a path and binding. *)

Paths == <<"Legacy", "BufRing", "Multishot">>

\* probe: what the kernel has.  A multishot recv needs the buffer ring.
Supports == {s \in SUBSET {"Legacy", "BufRing", "Multishot"} :
                "Multishot" \in s => "BufRing" \in s}

\* The path asked for or, with none asked for, the best the kernel has; none: an error.
select(forced, support) ==
    IF forced # {}
    THEN forced \cap support
    ELSE {p \in support : \A i, j \in DOMAIN Paths :
                            Paths[i] = p /\ Paths[j] \in support => j <= i}

new_uring(path) ==
    [path |-> path, sq |-> <<>>, cq |-> <<>>, requests |-> 0, group |-> {}, armed |-> 0,
     starved |-> FALSE, back |-> SlotIds, lost |-> {}, waiting |-> FALSE, mem |-> "live"]

depth(u) == IF u.path = "Multishot" THEN 1 ELSE Depth

----------------------------------------------------------------------------
(* Completions. *)

classify(cqe) ==
    CASE cqe.res = -ENOBUFS -> "NoBuffers"
      [] cqe.res < 0 /\ cqe.res # -ENOBUFS -> "Failed"
      [] cqe.res = 0 /\ cqe.bid = NoSlot -> "Empty"
      [] cqe.res > 0 /\ cqe.bid = NoSlot -> "Failed"
      [] cqe.res >= 0 /\ cqe.bid # NoSlot /\ cqe.res > SlotSize -> "Truncated"
      [] OTHER -> "Data"

IsRecv(cqe) == cqe.ud = "recv"
IsKind(cqe, kind) == IsRecv(cqe) /\ classify(cqe) = kind

\* The request ended with this completion; only a multishot one can go on.
ended(u, cqe) ==
    IsRecv(cqe) /\ (classify(cqe) \in {"NoBuffers", "Failed"} \/ ~(u.path = "Multishot" /\ cqe.more))

\* Fleet::complete over a run of completions.
fleet_complete(u, cqes) ==
    [u EXCEPT !.armed = Max({@ - Cardinality({i \in DOMAIN cqes : ended(u, cqes[i])}), 0}),
              !.starved = @ \/ \E i \in DOMAIN cqes : IsKind(cqes[i], "NoBuffers")]

IsError(cqe) == IsKind(cqe, "Failed") \/ (cqe.ud = "provide" /\ cqe.res < 0)

SlotsOf(cqes, kind) == {cqes[i].bid : i \in {j \in DOMAIN cqes : IsKind(cqes[j], kind)}}
FailedSlots(cqes) == UNION {cqes[i].slots : i \in DOMAIN cqes}

\* Mutant: one completion per call.
seen_One(u, room) == SubSeq(u.cq, 1, Min({1, Len(u.cq)}))

\* The completions one call of complete goes through: up to the frame that fills the
\* batch, an error, or the end of the queue as it was when the call began.
seen(u, room) ==
    LET data(n) == Cardinality({i \in 1 .. n : IsKind(u.cq[i], "Data")})
        stops == {i \in DOMAIN u.cq : IsError(u.cq[i]) \/ data(i) = room}
    IN  SubSeq(u.cq, 1, Min(stops \cup {Len(u.cq)}))

\* Data becomes frames, truncated slots go back, slots of a failed provide are lost.
complete(u, room) ==
    LET cqes == seen(u, room)
    IN  [fleet_complete(u, cqes) EXCEPT
            !.cq = SubSeq(@, Len(cqes) + 1, Len(@)),
            !.back = @ \cup SlotsOf(cqes, "Truncated"),
            !.lost = @ \cup FailedSlots(cqes)]

\* complete returns an error.
complete_fails(u, room) ==
    LET cqes == seen(u, room)
    IN  cqes # <<>> /\ IsError(cqes[Len(cqes)])

----------------------------------------------------------------------------
(* Submitting. *)

\* The kernel takes the whole queue, in order; the provide at `failing`, if any, fails.
\* Cancels that enter together hit the same request.
submitted(u, failing) ==
    LET good == {i \in DOMAIN u.sq : u.sq[i].op = "provide"} \ failing
        count(op) == Cardinality({i \in DOMAIN u.sq : u.sq[i].op = op})
        held == u.requests + count("recv")
        cancelled == Min({count("cancel"), held, 1})
    IN  [u EXCEPT !.sq = <<>>,
                  !.group = @ \cup UNION {u.sq[i].slots : i \in good},
                  !.requests = held - cancelled,
                  !.cq = @ \o [i \in 1 .. Cardinality(failing) |-> ProvideFailed(u.sq[Min(failing)].slots)]
                           \o [i \in 1 .. cancelled |-> RecvCqe(-ECANCELED, NoSlot, FALSE)]]

\* Submitted; busy or interrupted, which leaves the entries queued; or an error.
enter(u) ==
    LET provides == {i \in DOMAIN u.sq : u.sq[i].op = "provide"}
    IN  {[u |-> submitted(u, f), ok |-> TRUE] : f \in {{}} \cup {{i} : i \in provides}}
            \cup {[u |-> u, ok |-> TRUE], [u |-> u, ok |-> FALSE]}

\* A full queue is submitted to make room; if there is none then, an error.
push(u, e) ==
    LET queued(v) == [v EXCEPT !.sq = Append(@, e)]
    IN  IF Len(u.sq) < SqSize
        THEN {[u |-> queued(u), ok |-> TRUE]}
        ELSE {IF o.ok /\ Len(o.u.sq) < SqSize THEN [u |-> queued(o.u), ok |-> TRUE]
              ELSE [u |-> o.u, ok |-> FALSE] : o \in enter(u)}

\* provide_runs: the first contiguous run.
first_run(S) == {s \in S : \A t \in Min(S) .. s : t \in S}

\* Fleet::refilled: any slot handed over reopens the fleet.
refilled(u) == [u EXCEPT !.starved = FALSE]

\* RingMem::push for every slot, then one publish.
publish(u) == [u EXCEPT !.group = @ \cup u.back, !.back = {}]

\* One step of give_back, for a non-empty `back`: the buffer ring takes every slot; the
\* legacy path provides one run.
give_back(u) ==
    IF u.path # "Legacy"
    THEN {[u |-> refilled(publish(u)), ok |-> TRUE]}
    ELSE LET run == first_run(u.back)
         IN  {IF o.ok
              THEN [u |-> refilled([o.u EXCEPT !.back = @ \ run]), ok |-> TRUE]
              ELSE o : o \in push(u, Provide(run))}

wanted(u) == IF u.starved THEN 0 ELSE Max({depth(u) - u.armed, 0})

\* Mutant: the request is not counted.
arm_Uncounted(u) == push(u, Recv)

\* One request of arm, while one is wanted.
arm(u) == {IF o.ok THEN [u |-> [o.u EXCEPT !.armed = @ + 1], ok |-> TRUE] ELSE o : o \in push(u, Recv)}

----------------------------------------------------------------------------
(* Dropping. *)

quiet(u) == u.armed = 0

\* What is read while cancelling is not delivered: its slots go with the pool.
discarded(u) ==
    [fleet_complete(u, u.cq) EXCEPT
        !.cq = <<>>,
        !.lost = @ \cup FailedSlots(u.cq) \cup SlotsOf(u.cq, "Data") \cup SlotsOf(u.cq, "Truncated")]

\* One round of cancel_recvs; ok is FALSE when it gives up, with nothing read.
cancel_round(u) ==
    {IF o.ok THEN [u |-> discarded(o.u), ok |-> TRUE] ELSE o :
        o \in UNION {IF p.ok THEN enter(p.u) ELSE {p} : p \in push(u, Cancel)}}

\* The ring is closed; the memory is freed only if every recv was seen to end.
release(u, is_quiet) == [u EXCEPT !.mem = IF is_quiet THEN "freed" ELSE "leaked"]

----------------------------------------------------------------------------
(* The kernel. *)

CanPost(u) == u.requests > 0 /\ Len(u.cq) < CqSize

Posted(u, cqe, ends) ==
    [u EXCEPT !.cq = Append(@, cqe), !.requests = IF ends THEN @ - 1 ELSE @]

\* A multishot request may end with any completion, the others do.
goes_on(u) == IF u.path = "Multishot" THEN BOOLEAN ELSE {FALSE}

\* A datagram goes to a request: it fits or is cut, or is empty and uses no slot.
filled(u, res, s, more) ==
    [Posted(u, RecvCqe(res, s, more), ~more) EXCEPT !.group = @ \ {s}, !.waiting = FALSE]
emptied(u, more) == [Posted(u, RecvCqe(0, NoSlot, more), ~more) EXCEPT !.waiting = FALSE]

receptions(u) ==
    IF ~CanPost(u) \/ ~u.waiting \/ u.group = {} THEN {}
    ELSE {filled(u, res, s, more) : res \in {1, SlotSize + 1}, s \in u.group, more \in goes_on(u)}
         \cup {emptied(u, more) : more \in goes_on(u)}

\* No buffer for the datagram, which stays queued; or the socket reports an error.
failures(u) ==
    IF ~CanPost(u) THEN {}
    ELSE {Posted(u, RecvCqe(-ECONNREFUSED, NoSlot, FALSE), TRUE)}
         \cup (IF u.waiting /\ u.group = {}
               THEN {Posted(u, RecvCqe(-ENOBUFS, NoSlot, FALSE), TRUE)} ELSE {})

----------------------------------------------------------------------------
QueuedSlots(u) == UNION {u.sq[i].slots : i \in DOMAIN u.sq}
CompletedSlots(u) == FailedSlots(u.cq) \cup SlotsOf(u.cq, "Data") \cup SlotsOf(u.cq, "Truncated")

\* Recvs that are queued, held by the kernel, or ended and not yet read about.
Outstanding(u) ==
    Cardinality({i \in DOMAIN u.sq : u.sq[i].op = "recv"}) + u.requests
        + Cardinality({i \in DOMAIN u.cq : ended(u, u.cq[i])})
=============================================================================
