------------------------------ MODULE SoupBinClient ------------------------------
(***************************************************************************)
(* SoupBinClient: a session driven by its caller over a stream, against a  *)
(* server that keeps a numbered log.  Three callers are modelled:          *)
(*   sync     loops poll, parking on edge-triggered readiness and          *)
(*            next_deadline whenever poll returns None                     *)
(*   managed  connect, then loops recv_managed                             *)
(*   manual   connect, then recv and tick_heartbeat in any order           *)
(* and each may send unsequenced data, log out, or drop the client and     *)
(* connect again.                                                          *)
(*                                                                         *)
(* pc is where the caller is:                                              *)
(*   down      no connection                                               *)
(*   idle      between calls                                               *)
(*   dispatch  inside a receive loop, at the next buffered packet          *)
(*   parked    sync: poll returned None and the caller waits               *)
(*   wait      async: inside await_more_bytes                              *)
(*   write     async: inside send_all                                      *)
(* A sync call takes one `now`, so time does not pass inside it.           *)
(***************************************************************************)
EXTENDS SoupBinSession, FiniteSets

CONSTANTS Variants,         \* [driver, compressed] combinations
          FirstRequested,   \* requested_sequence_number of the first connection
          TrustsSequence,   \* reconnect with next_expected_sequence() whatever it is
          Noise,            \* other packets the server may send, once a connection
          MaxLog, MaxSends, MaxNet, MaxConnects     \* bounds

ASSUME ClientAssumption ==
    /\ Variants \subseteq [driver : {"sync", "managed", "manual"}, compressed : BOOLEAN]
    /\ FirstRequested \in 1 .. (MaxLog + 1)
    /\ TrustsSequence \in BOOLEAN
    /\ Noise \subseteq {"Debug", "Odd", "Unknown", Oversize}
    /\ {MaxLog, MaxSends, MaxNet, MaxConnects} \subseteq Nat

VARIABLES variant,          \* which caller, and whether the stream is compressed
          session, pc,
          sent, after,      \* send_all: bytes already written, where the call goes on
          net, peer, edge,  \* socket: unread units, other end, readiness not yet seen
          wire, got,        \* server: bytes of an unfinished packet, packets
          queued,           \* history: packets queued, heartbeats left out
          server,           \* answered the login, streaming, next to send, made noise
          silence,          \* age of the last bytes to reach the socket
          delivered, numbers    \* history: messages handed out, and their numbers

stream  == <<net, peer, edge, server, silence>>
sending == <<sent, after>>
upward  == <<wire, got, queued>>
history == <<delivered, numbers>>
vars    == <<variant, session, pc, sent, after, net, peer, edge, wire, got, queued, server,
             silence, delivered, numbers>>

IsSync == variant.driver = "sync"
Up == pc # "down"

Init ==
    /\ variant \in Variants
    /\ session = new(FirstRequested)
    /\ pc = "down"
    /\ sent = 0 /\ after = "idle"
    /\ net = <<>> /\ peer = "closed" /\ edge = FALSE
    /\ wire = <<>> /\ got = <<>> /\ queued = <<>>
    /\ server = [answered |-> FALSE, streaming |-> FALSE, next |-> 0, noisy |-> FALSE,
                 connects |-> 0]
    /\ silence = 0
    /\ delivered = <<>> /\ numbers = <<>>

----------------------------------------------------------------------------
(* The wire upward.  Whole packets are the server's, heartbeats leave no trace. *)

Reach(bytes, before, packets) ==
    LET total == before \o bytes
        whole == Len(total) \div 2
        pairs == [i \in 1 .. whole |-> <<total[2 * i - 1], total[2 * i]>>]
    IN  /\ wire' = SubSeq(total, 2 * whole + 1, Len(total))
        /\ got' = packets \o SelectSeq(pairs, LAMBDA p : p # Bytes(ClientHeartbeat))

\* Bytes written to a peer that is gone are lost.
Write(bytes) == IF peer = "open" THEN Reach(bytes, wire, got) ELSE UNCHANGED <<wire, got>>

\* The call returns an error.  That of connect takes the client with it, and leaves
\* the caller with the sequence it had asked for.
Fails(s) ==
    IF ~IsSync /\ session.state = "Authenticating"
    THEN session' = new(session.requested) /\ pc' = "down"
    ELSE session' = s /\ pc' = "idle"

----------------------------------------------------------------------------
(* Connecting. *)

\* The sequence a caller asks for: the config of the last attempt until a login told
\* it better.  An async caller whose connect failed has no client to ask.
Resume ==
    IF session.next_expected_sequence = 0 /\ ~(TrustsSequence /\ IsSync /\ server.connects > 0)
    THEN session.requested
    ELSE session.next_expected_sequence

Fresh == queue_login(new(Resume))

\* start and connect over a new transport, the old client dropped.
Connect ==
    /\ pc \in {"down", "idle", "parked"}
    /\ server.connects < MaxConnects
    /\ queued' = <<LoginRequest(Resume)>>
    /\ IF IsSync
       THEN \E n \in 0 .. Len(Fresh.out) :
                /\ session' = flush(Fresh, n)
                /\ Reach(SubSeq(Fresh.out, 1, n), <<>>, <<>>)
                /\ pc' = "idle"
                /\ UNCHANGED sending
       ELSE /\ session' = Fresh
            /\ Reach(<<>>, <<>>, <<>>)
            /\ pc' = "write" /\ after' = "dispatch" /\ sent' = 0
    /\ net' = <<>> /\ peer' = "open" /\ edge' = FALSE
    /\ server' = [answered |-> FALSE, streaming |-> FALSE, next |-> 0, noisy |-> FALSE,
                  connects |-> server.connects + 1]
    /\ silence' = 0
    /\ UNCHANGED <<variant, history>>

----------------------------------------------------------------------------
(* Synchronous calls. *)

\* ReadySet wakes the parked caller on an edge, on writable readiness with bytes
\* queued, or at next_deadline.
Wakes == edge \/ session.out # <<>> \/ deadline_reached(session)

Callable == pc = "idle" \/ (pc = "parked" /\ Wakes)

\* poll: flush, then by state.  A due heartbeat goes out before anything is received;
\* a closed session has nothing more to do.
Poll(n, m) ==
    /\ IsSync /\ Callable
    /\ LET s == flush(session, n)
           beat == queue_heartbeat(s)
           due == s.state = "Streaming" /\ heartbeat_due(s)
           first == SubSeq(session.out, 1, n)
       IN  /\ IF due
              THEN /\ m <= Len(beat.out)
                   /\ session' = flush(beat, m)
                   /\ Write(first \o SubSeq(beat.out, 1, m))
              ELSE /\ m = 0
                   /\ session' = s
                   /\ Write(first)
           /\ pc' = IF due \/ s.state = "Closed" THEN "idle" ELSE "dispatch"
    /\ edge' = IF pc = "parked" THEN FALSE ELSE edge
    /\ UNCHANGED <<variant, sending, net, peer, queued, server, silence, history>>

\* try_send fails on a server that has closed: poll returns the error before it
\* receives, and what is queued stays queued, a heartbeat included.
PollFails ==
    /\ IsSync /\ Callable /\ peer = "closed"
    /\ \/ session.out # <<>> /\ session' = session
       \/ session.state = "Streaming" /\ heartbeat_due(session)
          /\ session' = queue_heartbeat(session)
    /\ pc' = "idle"
    /\ edge' = IF pc = "parked" THEN FALSE ELSE edge
    /\ UNCHANGED <<variant, sending, net, peer, upward, server, silence, history>>

Unsequenced == Cardinality({i \in DOMAIN queued : queued[i].ty = "UnsequencedData"})

queue_unsequenced ==
    /\ IsSync /\ pc \in {"idle", "parked"}
    /\ session.state # "Closed"
    /\ Unsequenced < MaxSends
    /\ LET packet == UnsequencedData(Unsequenced + 1)
       IN  session' = queue(session, packet) /\ queued' = Append(queued, packet)
    /\ UNCHANGED <<variant, pc, sending, stream, wire, got, history>>

queue_logout ==
    /\ IsSync /\ pc \in {"idle", "parked"}
    /\ session.state # "Closed"
    /\ session' = close_logout(queue(session, LogoutRequest))
    /\ queued' = Append(queued, LogoutRequest)
    /\ UNCHANGED <<variant, pc, sending, stream, wire, got, history>>

----------------------------------------------------------------------------
(* Asynchronous calls. *)

BeginWrite(s, next) == session' = s /\ pc' = "write" /\ sent' = 0 /\ after' = next

\* write_out: send_all writes bit by bit, and only its end clears the buffer.
WriteOut(n) ==
    /\ pc = "write"
    /\ n \in 1 .. (Len(session.out) - sent)
    /\ Write(SubSeq(session.out, sent + 1, sent + n))
    /\ IF sent + n < Len(session.out)
       THEN sent' = sent + n /\ UNCHANGED <<session, pc, after>>
       ELSE /\ sent' = 0 /\ after' = "idle"
            /\ IF after = "logout"
               THEN session' = close_logout(sent_all(session)) /\ pc' = "idle"
               ELSE session' = sent_all(session) /\ pc' = after
    /\ UNCHANGED <<variant, stream, queued, history>>

\* send_all fails on a server that has closed; what was queued stays queued.
WriteFails ==
    /\ pc = "write" /\ peer = "closed"
    /\ Fails(session)
    /\ sent' = 0 /\ after' = "idle"
    /\ UNCHANGED <<variant, stream, upward, history>>

\* recv and recv_managed.
Recv ==
    /\ ~IsSync /\ pc = "idle"
    /\ session.state # "Closed"
    /\ pc' = "dispatch"
    /\ UNCHANGED <<variant, session, sending, stream, upward, history>>

send_unsequenced ==
    /\ ~IsSync /\ pc = "idle"
    /\ session.state # "Closed"
    /\ Unsequenced < MaxSends
    /\ LET packet == UnsequencedData(Unsequenced + 1)
       IN  BeginWrite(queue(session, packet), "idle") /\ queued' = Append(queued, packet)
    /\ UNCHANGED <<variant, stream, wire, got, history>>

LoggingOut == \E i \in DOMAIN queued : queued[i] = LogoutRequest

\* A caller does not try again a logout that failed.
logout ==
    /\ ~IsSync /\ pc = "idle"
    /\ session.state # "Closed"
    /\ ~LoggingOut
    /\ BeginWrite(queue(session, LogoutRequest), "logout")
    /\ queued' = Append(queued, LogoutRequest)
    /\ UNCHANGED <<variant, stream, wire, got, history>>

\* tick_heartbeat, going on at `next`; a timeout is returned to the caller.
HeartbeatCheck(next) ==
    \/ /\ silent(session)
       /\ session' = heartbeat_timed_out(session)
       /\ pc' = "idle"
       /\ UNCHANGED sending
    \/ /\ ~silent(session) /\ heartbeat_due(session)
       /\ BeginWrite(queue_heartbeat(session), next)
    \/ /\ ~silent(session) /\ ~heartbeat_due(session)
       /\ pc' = next
       /\ UNCHANGED <<session, sending>>

tick_heartbeat ==
    /\ variant.driver = "manual" /\ pc = "idle"
    /\ session.state # "Closed"
    /\ HeartbeatCheck("idle")
    /\ UNCHANGED <<variant, stream, upward, history>>

----------------------------------------------------------------------------
(* The receive loop of poll, login, recv and recv_managed. *)

\* take_packet fails; the packet stays, so every later call fails the same way.
Unreadable ==
    /\ pc = "dispatch"
    /\ unreadable(session)
    /\ Fails(session)
    /\ UNCHANGED <<variant, sending, stream, upward, history>>

Dispatching(state) ==
    /\ pc = "dispatch"
    /\ session.state = state
    /\ has_packet(session)
    /\ UNCHANGED <<variant, sending, stream, upward>>

dispatch_login ==
    /\ Dispatching("Authenticating")
    /\ \/ front(session).ty = "LoginAccepted"
          /\ session' = login_accepted(session) /\ pc' = "idle"
       \/ front(session).ty = "LoginRejected"
          /\ Fails(login_rejected(session))
       \/ front(session).ty \in {"Debug", "ServerHeartbeat"}
          /\ session' = skip_packet(session) /\ pc' = pc
       \/ front(session).ty \in {"Odd", "SequencedData", "EndOfSession"}
          /\ Fails(skip_packet(session))
    /\ UNCHANGED history

dispatch_stream ==
    /\ Dispatching("Streaming")
    /\ \/ /\ front(session).ty = "SequencedData"
          /\ session' = sequenced_data(session) /\ pc' = "idle"
          /\ delivered' = Append(delivered, front(session).val)
          /\ numbers' = Append(numbers, session.next_expected_sequence)
       \/ /\ front(session).ty = "EndOfSession"
          /\ session' = end_of_session(session) /\ pc' = "idle"
          /\ UNCHANGED history
       \/ /\ front(session).ty = "Debug"
          /\ session' = skip_packet(session) /\ pc' = pc
          /\ UNCHANGED history
       \/ /\ front(session).ty \in {"ServerHeartbeat", "Odd", "LoginAccepted", "LoginRejected"}
          /\ session' = skip_packet(session) /\ pc' = "idle"
          /\ UNCHANGED history

\* No whole packet is buffered.
Starved == pc = "dispatch" /\ ~has_packet(session) /\ ~unreadable(session)

\* login() looks at the clock before it waits or inflates.
LoginOver == ~IsSync /\ session.state = "Authenticating" /\ session.login_left = 0

\* ingest with input staged: one inflate step, no socket read.
Inflate ==
    /\ Starved /\ ~LoginOver
    /\ staged(session)
    /\ session' = feed(session)
    /\ UNCHANGED <<variant, pc, sending, stream, upward, history>>

\* ingest reads n units; the async driver first waits for readiness.
Land(n) ==
    /\ IF IsSync THEN Starved ELSE pc = "wait"
    /\ ~staged(session)
    /\ n \in 1 .. Min({Len(net), Capacity})
    /\ session' = land(session, SubSeq(net, 1, n), variant.compressed)
    /\ net' = SubSeq(net, n + 1, Len(net))
    /\ pc' = "dispatch"
    /\ UNCHANGED <<variant, sending, peer, edge, upward, server, silence, history>>

\* Everything is read and the server has closed.
PeerClosed ==
    /\ IF IsSync THEN Starved ELSE pc = "wait"
    /\ ~staged(session)
    /\ net = <<>> /\ peer = "closed"
    /\ Fails(session)
    /\ UNCHANGED <<variant, sending, stream, upward, history>>

\* Mutant: a login without an answer is never given up.
Drained_Patient ==
    /\ IsSync /\ Starved
    /\ ~staged(session)
    /\ net = <<>> /\ peer = "open"
    /\ IF session.state = "Streaming" /\ silent(session)
       THEN session' = heartbeat_timed_out(session) /\ pc' = "idle"
       ELSE session' = session /\ pc' = "parked"
    /\ UNCHANGED <<variant, sending, stream, upward, history>>

\* poll found the socket drained: look at the deadline, else return None.
Drained ==
    /\ IsSync /\ Starved
    /\ ~staged(session)
    /\ net = <<>> /\ peer = "open"
    /\ IF session.state = "Authenticating"
       THEN IF session.login_left = 0
            THEN session' = login_timed_out(session) /\ pc' = "idle"
            ELSE session' = session /\ pc' = "parked"
       ELSE IF silent(session)
            THEN session' = heartbeat_timed_out(session) /\ pc' = "idle"
            ELSE session' = session /\ pc' = "parked"
    /\ UNCHANGED <<variant, sending, stream, upward, history>>

\* The async driver has nothing to work on.
AwaitMoreBytes ==
    /\ ~IsSync /\ Starved /\ ~LoginOver
    /\ ~staged(session)
    /\ pc' = "wait"
    /\ UNCHANGED <<variant, session, sending, stream, upward, history>>

Readable == net # <<>> \/ peer = "closed"

\* connect gives up at the login deadline, in the loop or while waiting.
LoginTimesOut ==
    /\ ~IsSync
    /\ session.state = "Authenticating" /\ session.login_left = 0
    /\ Starved \/ (pc = "wait" /\ ~Readable)
    /\ Fails(login_timed_out(session))
    /\ UNCHANGED <<variant, sending, stream, upward, history>>

\* recv_managed: the deadline wins the select only when nothing is readable.
DeadlineWins ==
    /\ variant.driver = "managed" /\ pc = "wait"
    /\ session.state = "Streaming"
    /\ ~Readable
    /\ deadline_reached(session)
    /\ HeartbeatCheck("dispatch")
    /\ UNCHANGED <<variant, stream, upward, history>>

\* The caller drops the future while it waits; dropping connect drops the client.
Cancel ==
    /\ pc = "wait"
    /\ Fails(session)
    /\ UNCHANGED <<variant, sending, stream, upward, history>>

----------------------------------------------------------------------------
(* The server and the clock. *)

Encoded(packet) == IF variant.compressed THEN Deflated(packet) ELSE Bytes(packet)

\* A closed session reads neither socket nor clock; after the server has closed only
\* heartbeats nobody sees depend on the clock.
Live == Up /\ peer = "open" /\ session.state # "Closed"

\* Bytes reach the socket.
Arrive(packet) ==
    /\ Live
    /\ Len(net) + Len(Encoded(packet)) <= MaxNet * Len(Encoded(packet))
    /\ net' = net \o Encoded(packet)
    /\ edge' = IsSync
    /\ silence' = 0
    /\ UNCHANGED <<variant, session, pc, sending, peer, upward, history>>

LoggedIn == got # <<>> /\ got[1][1].of.ty = "LoginRequest"

\* The server starts at the sequence asked for; for 0 at its newest message, which
\* may be any.
ServerAccepts(first) ==
    /\ LoggedIn /\ ~server.answered
    /\ got[1][1].of.val \in {0, first}
    /\ server' = [server EXCEPT !.answered = TRUE, !.streaming = TRUE, !.next = first]
    /\ Arrive(Packet("LoginAccepted", first))

ServerRejects ==
    /\ LoggedIn /\ ~server.answered
    /\ server' = [server EXCEPT !.answered = TRUE]
    /\ Arrive(Packet("LoginRejected", 0))

ServerData ==
    /\ server.streaming /\ server.next <= MaxLog
    /\ server' = [server EXCEPT !.next = @ + 1]
    /\ Arrive(Packet("SequencedData", server.next))

\* A server sends a heartbeat when it has been quiet for a while.
ServerHeartbeat ==
    /\ ~server.answered \/ server.streaming
    /\ silence > 0
    /\ Arrive(Packet("ServerHeartbeat", 0))
    /\ UNCHANGED server

ServerEnds ==
    /\ server.streaming
    /\ server' = [server EXCEPT !.streaming = FALSE]
    /\ Arrive(Packet("EndOfSession", 0))

ServerNoise(ty) ==
    /\ ~server.noisy
    /\ ~server.answered \/ server.streaming
    /\ server' = [server EXCEPT !.noisy = TRUE]
    /\ Arrive(Packet(ty, 0))

\* The server closes; a reset also takes what was not read yet.
ServerCloses ==
    /\ Live
    /\ peer' = "closed"
    /\ net' \in {net, <<>>}
    /\ edge' = IsSync
    /\ wire' = <<>> /\ got' = <<>>
    /\ UNCHANGED <<variant, session, pc, sending, queued, server, silence, history>>

Tick ==
    /\ Live /\ pc # "dispatch"
    /\ session' = aged(session)
    /\ silence' = Min({silence + 1, HeartbeatTimeout + 1})
    /\ UNCHANGED <<variant, pc, sending, net, peer, edge, upward, server, history>>

Polls == \E n \in 0 .. Len(session.out), m \in 0 .. 2 : Poll(n, m)
Writes == \E n \in 1 .. Len(session.out) : WriteOut(n)
Lands == \E n \in 1 .. Len(net) : Land(n)

Next ==
    \/ Connect
    \/ Polls
    \/ PollFails
    \/ queue_unsequenced
    \/ queue_logout
    \/ WriteFails
    \/ Writes
    \/ Recv
    \/ send_unsequenced
    \/ logout
    \/ tick_heartbeat
    \/ Unreadable
    \/ dispatch_login
    \/ dispatch_stream
    \/ Inflate
    \/ Lands
    \/ PeerClosed
    \/ Drained
    \/ AwaitMoreBytes
    \/ LoginTimesOut
    \/ DeadlineWins
    \/ Cancel
    \/ \E first \in 1 .. (MaxLog + 1) : ServerAccepts(first)
    \/ ServerRejects
    \/ ServerData
    \/ ServerHeartbeat
    \/ ServerEnds
    \/ \E ty \in Noise : ServerNoise(ty)
    \/ ServerCloses
    \/ Tick

Spec == Init /\ [][Next]_vars

\* The caller keeps calling and parks no longer than its deadline, the code keeps
\* running and time passes.  A poll loop is not always slower than the heartbeat
\* interval: each such poll would send a heartbeat and receive nothing.  A readable
\* socket, or a deadline, wins against a caller that drops its future again and
\* again.  Only the async driver needs its writes to get through.
Fairness ==
    /\ WF_vars(Polls) /\ SF_vars(Polls /\ ~heartbeat_due(session))
    /\ WF_vars(Recv) /\ WF_vars(tick_heartbeat) /\ WF_vars(Writes)
    /\ WF_vars(Unreadable \/ dispatch_login \/ dispatch_stream \/ Inflate \/ AwaitMoreBytes)
    /\ SF_vars(Lands \/ PeerClosed)
    /\ WF_vars(Drained)
    /\ SF_vars(LoginTimesOut \/ DeadlineWins)
    /\ SF_vars(Tick)

FairSpec == Spec /\ Fairness

----------------------------------------------------------------------------
(* Properties. *)

\* config.rs: "on reconnect set it to `next_expected_sequence()` to resume where
\* dropped socket left off".  Over any number of connections the caller sees an
\* ordered feed: every message of the log once, in order, from the first asked for.
Feed == INSTANCE OrderedFeed WITH Start <- FirstRequested
ResumesInOrder == Feed!Spec

\* The number a message is handed out with, which the client counts and the packet
\* does not carry, is its place in the server's log.
NumberedAsSent == numbers = delivered

Unsent == SubSeq(session.out, sent + 1, Len(session.out))
NoBeats(packets) == SelectSeq(packets, LAMBDA p : p # ClientHeartbeat)

\* session.rs: "front is resume point of partial write, so both drivers share it and
\* wire order holds".  What is on its way up is packets in a row, so a heartbeat never
\* lands inside another packet; with what the server has they are the packets queued,
\* whole and in order; only a session that was cut short leaves one unfinished.
WireOrder ==
    LET above == wire \o Unsent
        received == [i \in DOMAIN got |-> got[i][1].of]
        packets == [i \in 1 .. ((Len(above) + 1) \div 2) |-> above[2 * i - 1].of]
        all == received \o NoBeats(packets)
    IN  Up /\ peer = "open" =>
            /\ got = [i \in DOMAIN got |-> Bytes(received[i])]
            /\ IF session.state = "Closed" /\ session.out = <<>>
               THEN /\ above = SubSeq(Flat(packets), 1, Len(above))
                    /\ all = SubSeq(queued, 1, Len(all))
               ELSE above = Flat(packets) /\ all = queued

\* session.rs: "`Ok(None)`: nothing happened, socket drained, so parked caller may
\* wait".  A caller that waits has nothing buffered, staged or held by the inflater,
\* and what reached the socket since has raised an edge.
NoLostWakeup ==
    /\ pc \in {"parked", "wait"} /\ session.state # "Closed" => Worked(session)
    /\ pc = "parked" /\ session.state # "Closed" /\ Readable => edge

\* event.rs: "Server silent past `heartbeat_timeout`; session closed."  poll and
\* recv_managed report a heartbeat timeout only when no byte has reached the socket
\* for that long, however late they are called.
TimedOut ==
    /\ session.state = "Streaming" /\ session'.state = "Closed"
    /\ session'.decode_buf = session.decode_buf
    /\ queued' = queued /\ pc \in {"dispatch", "wait"}
TimeoutMeansSilence == [][TimedOut => silence > HeartbeatTimeout]_vars

Over == session.state = "Closed" \/ peer = "closed" \/ ~Up \/ server.noisy
Streams == session.state = "Streaming" /\ Up

\* A login is answered, refused or timed out.
LoginResolves ==
    (session.state = "Authenticating" /\ Up) ~> (session.state # "Authenticating" \/ Over)

\* A message that reached the socket is handed out, unless the session ends or the
\* server has sent something unreadable before it.
EventuallyDelivered ==
    \A q \in 1 .. MaxLog :
        (Streams /\ server.next = q + 1)
            ~> (q \in Range(delivered) \/ Over \/ server.next <= q)

\* session.rs: "before receive, so busy feed never starves client heartbeats".  A
\* poll loop never stays silent past the interval, whatever the server sends.
HeartbeatsFlow ==
    (IsSync /\ Streams /\ session.since_send > HeartbeatInterval)
        ~> (session.since_send <= HeartbeatInterval \/ session.out # <<>> \/ Over)

\* A server gone quiet is noticed by poll, even with a full send buffer, and by
\* recv_managed.
SilenceNoticed ==
    (variant.driver # "manual" /\ Streams /\ silence > HeartbeatTimeout)
        ~> (silence <= HeartbeatTimeout \/ Over)

=============================================================================
