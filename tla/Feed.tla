-------------------------------- MODULE Feed --------------------------------
(***************************************************************************)
(* The EDDN feed as a process of its own: a subscriber that dials the relay *)
(* again and again, a bounded channel of operations, a writer that applies *)
(* batches and gives one up after MaxAttempts, and the supervisor that     *)
(* starts the process again.  What a batch does to the tables is the       *)
(* subject of GalaxyStore; here it succeeds or fails.                      *)
(***************************************************************************)
EXTENDS Naturals, Sequences

CONSTANTS
    Capacity,    \* eddn_queue_capacity
    MaxBatch,
    MaxAttempts,
    MaxQueue,    \* frames the socket holds for the subscriber
    PerFrame,    \* how many operations a frame may give
    MaxHeard,    \* operations decoded (a bound)
    MaxFaults    \* failures of the relay, the socket and the process (a bound)

ASSUME FeedAssumption ==
    /\ {Capacity, MaxBatch, MaxAttempts, MaxQueue} \subseteq Nat \ {0}
    /\ PerFrame \subseteq Nat /\ {MaxHeard, MaxFaults} \subseteq Nat

VARIABLES
    socket,   \* "none", "live", "wedged" (established and silent), "closed"
    queue,    \* the operations in each frame not received
    sub,      \* "connect", "hung", "recv", "send", "backoff"
    parked,   \* operations of the frame in hand not yet in the channel
    channel,
    writer,   \* "idle", "collect", "apply", "backoff"
    batch,
    attempts,
    up,       \* the process runs
    heard,    \* history: operations decoded so far, numbered in this order
    fate,     \* history: what became of each operation
    faults

subscriber == <<socket, queue, sub, parked>>
writing == <<writer, batch, attempts>>
vars == <<subscriber, channel, writing, up, heard, fate, faults>>

Init ==
    /\ socket = "none" /\ queue = <<>> /\ sub = "connect" /\ parked = <<>>
    /\ channel = <<>>
    /\ writer = "idle" /\ batch = <<>> /\ attempts = 0
    /\ up = TRUE /\ heard = 0 /\ fate = <<>> /\ faults = 0

Settle(ops, as) == fate' = fate \o [i \in DOMAIN ops |-> [op |-> ops[i], as |-> as]]
Fault == faults < MaxFaults /\ faults' = faults + 1
----------------------------------------------------------------------------
(* The relay and the connection.                                           *)

\* A frame for a connection that cannot take it is gone: EDDN has no replay.
Publish(frame) ==
    /\ socket = "live" /\ Len(queue) < MaxQueue
    /\ heard < MaxHeard
    /\ queue' = Append(queue, frame)
    /\ UNCHANGED <<socket, sub, parked, channel, writing, up, heard, fate, faults>>

\* The connection is closed, or stays established and is never heard again.
Breaks(how) ==
    /\ socket = "live" /\ Fault
    /\ socket' = how
    /\ UNCHANGED <<queue, sub, parked, channel, writing, up, heard, fate>>
----------------------------------------------------------------------------
(* The subscriber.                                                         *)

Dialled ==
    /\ socket' = "live" /\ queue' = <<>> /\ sub' = "recv"
    /\ UNCHANGED <<parked, channel, writing, up, heard, fate, faults>>

Dial == up /\ sub = "connect" /\ Dialled

DialFails ==
    /\ up /\ sub \in {"connect", "hung"} /\ Fault
    /\ sub' = "backoff"
    /\ UNCHANGED <<socket, queue, parked, channel, writing, up, heard, fate>>

\* The relay accepts and says no more: neither the connect nor the subscription
\* has a limit of its own, and the idle limit is that of the receive alone.
DialHangs ==
    /\ up /\ sub = "connect" /\ Fault
    /\ sub' = "hung"
    /\ UNCHANGED <<socket, queue, parked, channel, writing, up, heard, fate>>

\* The relay may answer such a dial after all; nothing says that it will.
LateAnswer == up /\ sub = "hung" /\ Dialled

Redial == socket' = "none" /\ queue' = <<>> /\ sub' = "backoff"

Backoff ==
    /\ up /\ sub = "backoff"
    /\ sub' = "connect"
    /\ UNCHANGED <<socket, queue, parked, channel, writing, up, heard, fate, faults>>

\* Mutant: the receive waits without a limit.
IdleLimit_Never == FALSE

\* Two minutes of silence: the relay said nothing, or the socket is wedged.
IdleLimit == socket = "wedged" \/ (socket = "live" /\ queue = <<>>)

Idle ==
    /\ up /\ sub = "recv" /\ IdleLimit
    /\ Redial
    /\ UNCHANGED <<parked, channel, writing, up, heard, fate, faults>>

RecvFails ==
    /\ up /\ sub = "recv" /\ socket = "closed"
    /\ Redial
    /\ UNCHANGED <<parked, channel, writing, up, heard, fate, faults>>

\* A frame that does not decode is skipped like one without operations.
Recv ==
    /\ up /\ sub = "recv" /\ socket = "live" /\ queue # <<>>
    /\ queue' = Tail(queue)
    /\ heard' = heard + Head(queue)
    /\ parked' = [i \in 1..Head(queue) |-> heard + i]
    /\ sub' = "send"
    /\ UNCHANGED <<socket, channel, writing, up, fate, faults>>

\* Mutant: a full channel drops the operation.
Send_Try ==
    /\ up /\ sub = "send" /\ parked # <<>>
    /\ channel' = IF Len(channel) < Capacity THEN Append(channel, Head(parked)) ELSE channel
    /\ parked' = Tail(parked)
    /\ UNCHANGED <<socket, queue, sub, writing, up, heard, fate, faults>>

\* A full channel parks the subscriber.
Send ==
    /\ up /\ sub = "send" /\ parked # <<>>
    /\ Len(channel) < Capacity
    /\ channel' = Append(channel, Head(parked)) /\ parked' = Tail(parked)
    /\ UNCHANGED <<socket, queue, sub, writing, up, heard, fate, faults>>

Sent ==
    /\ up /\ sub = "send" /\ parked = <<>>
    /\ sub' = "recv"
    /\ UNCHANGED <<socket, queue, parked, channel, writing, up, heard, fate, faults>>
----------------------------------------------------------------------------
(* The writer.                                                             *)

Take ==
    /\ channel # <<>>
    /\ batch' = Append(batch, Head(channel)) /\ channel' = Tail(channel)

First ==
    /\ up /\ writer = "idle" /\ Take
    /\ writer' = "collect"
    /\ UNCHANGED <<subscriber, attempts, up, heard, fate, faults>>

More ==
    /\ up /\ writer = "collect" /\ Len(batch) < MaxBatch /\ Take
    /\ UNCHANGED <<subscriber, writer, attempts, up, heard, fate, faults>>

\* The batch is full, or a quarter of a second is over.
Collected ==
    /\ up /\ writer = "collect"
    /\ writer' = "apply" /\ attempts' = 0
    /\ UNCHANGED <<subscriber, channel, batch, up, heard, fate, faults>>

Done(as) == Settle(batch, as) /\ batch' = <<>> /\ writer' = "idle"

Applies ==
    /\ up /\ writer = "apply"
    /\ Done("applied")
    /\ UNCHANGED <<subscriber, channel, attempts, up, heard, faults>>

\* The same batch is tried again, and given up at the last attempt.
ApplyFails ==
    /\ up /\ writer = "apply"
    /\ attempts' = attempts + 1
    /\ IF attempts + 1 >= MaxAttempts THEN Done("dropped")
       ELSE writer' = "backoff" /\ UNCHANGED <<batch, fate>>
    /\ UNCHANGED <<subscriber, channel, up, heard, faults>>

Retry ==
    /\ up /\ writer = "backoff"
    /\ writer' = "apply"
    /\ UNCHANGED <<subscriber, channel, batch, attempts, up, heard, fate, faults>>
----------------------------------------------------------------------------
(* The process: it ends when one of its tasks does, for instance when the   *)
(* subscription is refused, or from outside; what it held is gone.         *)

Ends ==
    /\ up /\ Fault
    /\ up' = FALSE
    /\ socket' = "none" /\ queue' = <<>> /\ sub' = "connect" /\ parked' = <<>>
    /\ channel' = <<>>
    /\ writer' = "idle" /\ batch' = <<>> /\ attempts' = 0
    /\ Settle(batch \o channel \o parked, "lost")
    /\ UNCHANGED heard

Restart ==
    /\ ~up /\ up' = TRUE
    /\ UNCHANGED <<subscriber, channel, writing, heard, fate, faults>>
----------------------------------------------------------------------------
Subscriber == Dial \/ Backoff \/ Idle \/ RecvFails \/ Recv \/ Send \/ Sent
Writer == First \/ More \/ Collected \/ Applies \/ ApplyFails \/ Retry
Environment ==
    \/ \E frame \in PerFrame : Publish(frame)
    \/ \E how \in {"wedged", "closed"} : Breaks(how)
    \/ DialFails \/ DialHangs \/ LateAnswer \/ Ends \/ Restart

Next == Subscriber \/ Writer \/ Environment

Spec == Init /\ [][Next]_vars

\* The runtime polls the two tasks, their timers fire, and systemd restarts the
\* process.  Nothing is promised of the relay: a dial that it neither completes
\* nor refuses hangs (DialHangs), and it owes no LateAnswer.  A batch may always
\* fail.
LiveSpec == Spec /\ WF_vars(Subscriber) /\ WF_vars(Writer) /\ WF_vars(Restart)
----------------------------------------------------------------------------
Ops(s) == [i \in DOMAIN s |-> s[i].op]

\* Between relay and store nothing is dropped, doubled or reordered but by a
\* batch given up or the end of the process: ChannelSink parks rather than
\* drops, the writer retries the very batch that failed.
NothingLost ==
    Ops(fate) \o batch \o channel \o parked = [i \in 1..heard |-> i]

\* No batch and no dead socket holds up the feed for good: every operation
\* decoded is settled, and again and again there is a connection, unless the
\* dial itself hangs, which no limit of the subscriber ends.  run_writer and
\* RECV_IDLE_RECONNECT are there because both have happened.
KeepsFlowing ==
    /\ \A i \in 1..MaxHeard : heard >= i ~> Len(fate) >= i
    /\ []<>(socket = "live" \/ sub = "hung")

\* What the loop's comment says, that it reconnects on its own, without the
\* exception: not so when a dial hangs.
AlwaysReconnects == []<>(socket = "live")
=============================================================================
