----------------------------- MODULE FrameStream -----------------------------
(***************************************************************************)
(* The stream of one chat: what its agent writes, through the hub of the   *)
(* instance (instance/hub.rs, hub/forward.rs, hub/resync.rs), its          *)
(* transport and its connections, into the documents of the server         *)
(* (channel/relay_event_handler.rs, relay_buffer_sync.rs, relay_events.rs, *)
(* relay_disconnect.rs, state/aggregator_judge.rs).                        *)
(*                                                                         *)
(* The hub is one task: it forwards one frame, or handles one event of the *)
(* transport, at a time.  The resync is a second task, the transport a     *)
(* third, and the server runs one loop per connection.                     *)
(***************************************************************************)
EXTENDS FrameBuffer, Integers, SequencesExt

CONSTANTS Scripts,    \* bound: the frames the agent may write, by kind
          MaxConns,   \* bound: connections of the instance
          MaxWork,    \* bound: frames and connections, a connection weighs two frames
          DiskFaults  \* whether the disk segment may fail

\* An event, an event too large for a batch, a permission request, the response to an
\* RPC, an OAuth notification.
Kinds == {"event", "bulk", "request", "response", "sensitive"}
EventKinds == {"event", "bulk"}

ASSUME StreamAssumption ==
    /\ Scripts \subseteq Seq(Kinds) /\ Scripts # {}
    /\ MaxConns \in Nat \ {0} /\ MaxWork \in Nat
    /\ DiskFaults \in BOOLEAN

Conns == 1..MaxConns

NoFrame == [seq |-> 0, online |-> FALSE]
NoSync  == [at |-> "none", batch |-> <<>>]
NoJob   == [live |-> FALSE, rest |-> <<>>, expected |-> 0, delivered |-> 0, rejected |-> 0]
NoGap   == -1  \* chats[].gap is null in the registry document

VARIABLES
    kinds,     \* the frames the agent wrote: the kind of each
    alive,     \* the process of the agent (ChatEntry.acp)
    fwd,       \* the frame in forward_child_output and what it read of the chat
    buf,       \* Buffer
    buffered,  \* ChatEntry.buffered
    auth,      \* authenticated of the hub
    sync,      \* the resync task and the batch it holds
    link,      \* the transport: its connection and its send queue
    hubq,      \* events of the transport the hub has not handled
    wire,      \* what was written to each connection and not read
    loop,      \* the loop of each connection in the server
    job,       \* what each loop is handling
    current,   \* the connection of the instance
    stream,    \* StreamState of the chat
    gap,       \* chats[].gap
    chat,      \* ChatEntry.state
    table,     \* pending_permissions
    shown,     \* permissions that are pending in the document
    observed,  \* history: frames the stream took, in order
    written,   \* history: frames written to a connection
    skipped    \* history: oversize_gaps and sensitive_ephemeral_gaps

hub    == <<kinds, alive, fwd, buf, buffered, auth>>
net    == <<sync, link, hubq, wire>>
server == <<loop, job, current, stream, gap, chat, table, shown, observed>>
vars   == <<hub, net, server, written, skipped>>

Made == 1..Len(kinds)

isEvent == [f \in Made |-> kinds[f] \in EventKinds]
isBulk  == [f \in Made |-> kinds[f] = "bulk"]

TypeOK ==
    /\ \E script \in Scripts : IsPrefix(kinds, script)
    /\ alive \in BOOLEAN /\ buffered \in BOOLEAN /\ auth \in BOOLEAN
    /\ fwd \in [seq : 0..Len(kinds), online : BOOLEAN]
    /\ Held(buf) \subseteq Made
    /\ sync.at \in {"none", "run", "sleep", "send", "written"} /\ Elems(sync.batch) \subseteq Made
    /\ link \in [conn : 0..MaxConns, queue : {"down", "unset", "open"}]
    /\ hubq \in Seq({"Authenticated", "Disconnected"})
    /\ loop \in [Conns -> {"none", "made", "up", "fenced", "cleanup", "over", "replaced"}]
    /\ current \in 0..MaxConns
    /\ chat \in {"Accepting", "Gap", "Ended"}
    /\ table \subseteq Made /\ shown \subseteq Made
    /\ observed \in Seq(Made) /\ written \subseteq Made /\ skipped \subseteq Made

\* A chat exists only on an instance that is connected.
Init ==
    /\ kinds = <<>> /\ alive = TRUE /\ fwd = NoFrame
    /\ buf = EmptyBuffer /\ buffered = FALSE /\ auth = TRUE
    /\ sync = NoSync /\ link = [conn |-> 1, queue |-> "open"]
    /\ hubq = <<>> /\ wire = [k \in Conns |-> <<>>]
    /\ loop = [k \in Conns |-> IF k = 1 THEN "up" ELSE "none"]
    /\ job = [k \in Conns |-> NoJob]
    /\ current = 1 /\ stream = [last |-> 0, missing |-> 0] /\ gap = NoGap
    /\ chat = "Accepting" /\ table = {} /\ shown = {}
    /\ observed = <<>> /\ written = {} /\ skipped = {}

-----------------------------------------------------------------------------
(* The hub: frames of the agent.                                           *)
HubIdle == fwd = NoFrame

NextSeq == Len(kinds) + 1

\* forward_child_output takes a sequence number and reads the flag of the chat.
TakeFrame(kind) ==
    /\ HubIdle /\ alive
    /\ NextSeq + 2 * link.conn <= MaxWork
    /\ \E script \in Scripts : IsPrefix(Append(kinds, kind), script)
    /\ kinds' = Append(kinds, kind)
    /\ fwd' = [seq |-> NextSeq, online |-> auth /\ ~buffered]
    /\ UNCHANGED <<alive, buf, buffered, auth, net, server, written, skipped>>

\* A frame over the size limit uses up its number, and so does a sensitive frame that
\* cannot be sent now.
SkipFrame ==
    /\ ~HubIdle
    /\ fwd' = NoFrame /\ skipped' = skipped \cup {fwd.seq}
    /\ UNCHANGED <<kinds, alive, buf, buffered, auth, net, server, written>>

\* send_acked_bytes returns Ok.
SendFrame ==
    /\ ~HubIdle /\ fwd.online /\ link.queue = "open"
    /\ wire' = [wire EXCEPT ![link.conn] =
                    Append(@, [live |-> TRUE, frames |-> <<fwd.seq>>])]
    /\ written' = written \cup {fwd.seq}
    /\ fwd' = NoFrame
    /\ UNCHANGED <<kinds, alive, buf, buffered, auth, sync, link, hubq, server, skipped>>

\* Offline, behind a backlog, or the send failed.
BufferFrame ==
    /\ ~HubIdle /\ (fwd.online => link.queue # "open")
    /\ kinds[fwd.seq] # "sensitive"
    /\ \E diskOk \in (IF DiskFaults THEN BOOLEAN ELSE {TRUE}) :
          buf' = Push(buf, fwd.seq, isEvent, diskOk)
    /\ fwd' = NoFrame
    /\ UNCHANGED <<kinds, alive, buffered, auth, net, server, written, skipped>>

\* ChildOutput::Exit: the buffer goes with the process, process_exit is sent only online.
Exit ==
    /\ HubIdle /\ alive
    /\ alive' = FALSE
    /\ buf' = EmptyBuffer
    /\ wire' = IF auth /\ link.queue = "open"
               THEN [wire EXCEPT ![link.conn] = Append(@, [live |-> TRUE, frames |-> <<>>])]
               ELSE wire
    /\ UNCHANGED <<kinds, fwd, buffered, auth, sync, link, hubq, server, written, skipped>>

-----------------------------------------------------------------------------
(* The hub: events of the transport.                                       *)
RollbackAll == buf' = Rollback(buf, isEvent)

\* The resync task is aborted and its batch put back before the next one starts.
OnAuthenticated ==
    /\ HubIdle /\ hubq # <<>> /\ Head(hubq) = "Authenticated"
    /\ hubq' = Tail(hubq)
    /\ auth' = TRUE /\ sync' = [NoSync EXCEPT !.at = "run"] /\ RollbackAll
    /\ UNCHANGED <<kinds, alive, fwd, buffered, link, wire, server, written, skipped>>

OnDisconnected ==
    /\ HubIdle /\ hubq # <<>> /\ Head(hubq) = "Disconnected"
    /\ hubq' = Tail(hubq)
    /\ auth' = FALSE /\ sync' = NoSync /\ RollbackAll
    /\ buffered' = IF alive THEN TRUE ELSE buffered   \* mark_all_buffered
    /\ UNCHANGED <<kinds, alive, fwd, link, wire, server, written, skipped>>

-----------------------------------------------------------------------------
(* resync_loop.                                                            *)
\* Mutant: a chat without pending frames is not made live.
CaughtUpLive == ~buffered

CaughtUp == buffered => ~has_pending(buf)

\* Nothing pending, or the chat is live already: the loop ends.
SyncDone ==
    /\ sync.at = "run" /\ CaughtUp
    /\ buffered' = FALSE /\ sync' = NoSync
    /\ UNCHANGED <<kinds, alive, fwd, buf, auth, link, hubq, wire, server, written, skipped>>

\* What drain_batch may make of the buffer: a read of the disk segment may fail.
Batches == {Drain(buf, isBulk, reads) :
               reads \in (IF DiskFaults THEN 0..Len(buf.disk) ELSE {Len(buf.disk)})}

SyncDrain ==
    /\ sync.at = "run" /\ buffered /\ has_pending(buf)
    /\ \E b \in Batches :
          /\ b.inFlight # <<>>
          /\ buf' = b /\ sync' = [at |-> "send", batch |-> b.inFlight]
    /\ UNCHANGED <<kinds, alive, fwd, buffered, auth, link, hubq, wire, server, written, skipped>>

\* Frames are pending and none is drained: the loop sleeps and tries again.
SyncIdle ==
    /\ sync.at = "run" /\ buffered /\ has_pending(buf)
    /\ \E b \in Batches : b.inFlight = <<>>
    /\ sync' = [sync EXCEPT !.at = "sleep"]
    /\ UNCHANGED <<hub, link, hubq, wire, server, written, skipped>>

SyncWake ==
    /\ sync.at = "sleep"
    /\ sync' = [sync EXCEPT !.at = "run"]
    /\ UNCHANGED <<hub, link, hubq, wire, server, written, skipped>>

\* send_acked writes the batch; its acknowledgement is read in a later step.
SyncWrite ==
    /\ sync.at = "send" /\ link.queue = "open"
    /\ wire' = [wire EXCEPT ![link.conn] =
                    Append(@, [live |-> FALSE, frames |-> sync.batch])]
    /\ written' = written \cup Elems(sync.batch)
    /\ sync' = [sync EXCEPT !.at = "written"]
    /\ UNCHANGED <<hub, link, hubq, server, skipped>>

SyncCommit ==
    /\ sync.at = "written"
    /\ buf' = Commit(buf) /\ sync' = [NoSync EXCEPT !.at = "run"]
    /\ UNCHANGED <<kinds, alive, fwd, buffered, auth, link, hubq, wire, server, written, skipped>>

\* send_acked fails, also when the queue of the new connection is not set yet.
SyncFail ==
    /\ sync.at = "send" /\ link.queue # "open"
    /\ RollbackAll /\ sync' = NoSync
    /\ UNCHANGED <<kinds, alive, fwd, buffered, auth, link, hubq, wire, server, written, skipped>>

-----------------------------------------------------------------------------
(* The transport (transport/conn.rs, transport/frame_loop.rs).             *)
\* The connection breaks: of what was written, the server reads a first part.
Break ==
    /\ link.queue # "down"
    /\ link' = [link EXCEPT !.queue = "down"]
    /\ hubq' = Append(hubq, "Disconnected")
    /\ \E n \in 0..Len(wire[link.conn]) :
          wire' = [wire EXCEPT ![link.conn] = SubSeq(@, 1, n)]
    /\ UNCHANGED <<hub, sync, server, written, skipped>>

\* handshake: the event is sent before frame_loop sets the send queue.
Connect ==
    /\ link.queue = "down" /\ link.conn < MaxConns
    /\ Len(kinds) + 2 * (link.conn + 1) <= MaxWork
    /\ link' = [conn |-> link.conn + 1, queue |-> "unset"]
    /\ hubq' = Append(hubq, "Authenticated")
    /\ loop' = [loop EXCEPT ![link.conn + 1] = "made"]
    /\ UNCHANGED <<hub, sync, wire, written, skipped, job, current, stream, gap, chat, table,
                   shown, observed>>

SetQueue ==
    /\ link.queue = "unset"
    /\ link' = [link EXCEPT !.queue = "open"]
    /\ UNCHANGED <<hub, sync, hubq, wire, server, written, skipped>>

-----------------------------------------------------------------------------
(* The server: the loop of a connection.                                   *)
chatState == <<stream, gap, chat, table, shown, observed>>

\* on_instance_connection_hello: the loop of the connection before is told to stop.
Register(k) ==
    /\ loop[k] = "made" /\ (k > 1 => loop[k - 1] \notin {"none", "made"})
    /\ current' = k
    /\ loop' = [j \in Conns |-> IF j = k THEN "up"
                                ELSE IF j = current /\ loop[j] = "up" THEN "fenced"
                                ELSE loop[j]]
    /\ UNCHANGED <<hub, net, job, chatState, written, skipped>>

Reading(k) == loop[k] \in {"up", "fenced"} /\ job[k] = NoJob

\* A frame of the connection; select! also lets a loop that was told to stop take one.
ReadFrame(k) ==
    /\ Reading(k) /\ wire[k] # <<>>
    /\ LET m == Head(wire[k]) IN
       /\ m.frames # <<>>
       /\ job' = [job EXCEPT ![k] = [live |-> m.live, rest |-> m.frames,
                                     expected |-> Head(m.frames),
                                     delivered |-> 0, rejected |-> 0]]
    /\ wire' = [wire EXCEPT ![k] = Tail(@)]
    /\ UNCHANGED <<hub, sync, link, hubq, loop, current, chatState, written, skipped>>

\* judge_stream and report_gap: what the stream and the marker are after frame f.
Judged(f) ==
    CASE f > stream.last + 1 ->
           [last |-> f, missing |-> stream.missing + (f - stream.last - 1),
            gap |-> stream.missing + (f - stream.last - 1)]
      [] f = stream.last + 1 /\ stream.missing > 0 -> [last |-> f, missing |-> 0, gap |-> NoGap]
      [] OTHER -> [last |-> f, missing |-> stream.missing, gap |-> gap]

\* Mutant: a frame may be the last one again.
InOrderOrSame(f) == f >= stream.last

InOrder(f) == f > stream.last

Observe(f) ==
    /\ stream' = [last |-> Judged(f).last, missing |-> Judged(f).missing]
    /\ observed' = Append(observed, f)

\* Mutant: a resumed chat has no gap, whatever is missing.
ResumedClears(missing) == NoGap

\* The gap after recover_from_gap (ResumeAfterGap, then report_gap).
Resumed(missing) == IF missing > 0 THEN missing ELSE NoGap

\* recover_from_gap, after a frame left the stream with "missing" and the marker at g.
Recover(missing, g, yes) ==
    /\ gap'  = IF yes /\ chat = "Gap" THEN Resumed(missing) ELSE g
    /\ chat' = IF yes /\ chat = "Gap" THEN "Accepting" ELSE chat

\* Mutant: a replayed request is projected before the stream is asked.
AppliedAnyOrder(f) == chat # "Ended" /\ kinds[f] \in EventKinds \cup {"request"}

\* submit, register_permission_request or observe_non_projected_frame of frame f: an event
\* or a request of a chat that ended only moves the stream on.
Applied(f) == InOrder(f) /\ chat # "Ended" /\ kinds[f] \in EventKinds \cup {"request"}

Project(f) ==
    /\ table' = IF kinds[f] = "request" THEN table \cup {f} ELSE table
    /\ shown' = IF kinds[f] = "request" /\ Applied(f) THEN shown \cup {f} ELSE shown
    /\ IF InOrder(f) THEN Observe(f) ELSE UNCHANGED <<stream, observed>>

\* on_instance_event.
LiveFrame(k) ==
    /\ job[k].live
    /\ LET f == Head(job[k].rest)
           j == IF InOrder(f) THEN Judged(f)
                ELSE [missing |-> stream.missing, gap |-> gap]
       IN  /\ Project(f)
           /\ Recover(j.missing, j.gap, Applied(f))
    /\ job' = [job EXCEPT ![k] = NoJob]
    /\ UNCHANGED <<hub, net, loop, current, written, skipped>>

\* One frame of on_buffer_sync.  A frame that is not the one after the last is rejected,
\* and so is every frame after it; a frame the stream refuses counts as delivered unless
\* it is the response to an RPC.
BatchFrame(k) ==
    /\ ~job[k].live /\ job[k].rest # <<>>
    /\ LET f == Head(job[k].rest)
           fits == f = job[k].expected
           counts == fits /\ (kinds[f] = "response" => InOrder(f))
           j == IF InOrder(f) THEN Judged(f) ELSE [missing |-> stream.missing, gap |-> gap]
       IN  /\ IF fits
              THEN Project(f) /\ gap' = j.gap
              ELSE UNCHANGED <<stream, observed, gap, table, shown>>
           /\ job' = [job EXCEPT ![k] =
                  [live      |-> FALSE,
                   rest      |-> Tail(job[k].rest),
                   expected  |-> IF fits THEN f + 1 ELSE job[k].expected,
                   delivered |-> job[k].delivered + (IF counts THEN 1 ELSE 0),
                   rejected  |-> job[k].rejected + (IF counts THEN 0 ELSE 1)]]
    /\ UNCHANGED <<hub, net, loop, current, chat, written, skipped>>

\* The end of on_buffer_sync.
BatchEnd(k) ==
    /\ job[k] # NoJob /\ ~job[k].live /\ job[k].rest = <<>>
    /\ Recover(stream.missing, gap, job[k].rejected = 0 /\ job[k].delivered > 0)
    /\ job' = [job EXCEPT ![k] = NoJob]
    /\ UNCHANGED <<hub, net, loop, current, stream, table, shown, observed, written, skipped>>

\* on_process_exit.
ReadExit(k) ==
    /\ Reading(k) /\ wire[k] # <<>> /\ Head(wire[k]).frames = <<>>
    /\ wire' = [wire EXCEPT ![k] = Tail(@)]
    /\ chat' = "Ended" /\ table' = {}
    /\ UNCHANGED <<hub, sync, link, hubq, loop, job, current, stream, gap, shown, observed,
                   written, skipped>>

\* The loop ends: it was told to stop, or its connection broke and all of it was read.
CloseLoop(k) ==
    /\ Reading(k)
    /\ \/ loop[k] = "fenced"
       \/ /\ wire[k] = <<>>
          /\ link.conn # k \/ link.queue = "down"
    /\ loop' = [loop EXCEPT ![k] = IF current = k THEN "cleanup" ELSE "replaced"]
    /\ current' = IF current = k THEN 0 ELSE current
    /\ UNCHANGED <<hub, net, job, chatState, written, skipped>>

\* on_instance_disconnect, which does not ask whether a new connection came meanwhile.
Cleanup(k) ==
    /\ loop[k] = "cleanup"
    /\ loop' = [loop EXCEPT ![k] = "over"]
    /\ IF chat = "Ended" THEN UNCHANGED <<table, shown, gap, chat>>
       ELSE table' = {} /\ shown' = {} /\ gap' = 0 /\ chat' = "Gap"
    /\ UNCHANGED <<hub, net, job, current, stream, observed, written, skipped>>

\* External: a user answers a permission (channel/permission_resolution.rs).
Answer(f) ==
    /\ f \in table \cap shown
    /\ table' = table \ {f} /\ shown' = shown \ {f}
    /\ UNCHANGED <<hub, net, loop, job, current, stream, gap, chat, observed, written, skipped>>

Hub == \/ \E kind \in Kinds : TakeFrame(kind)
       \/ SkipFrame \/ SendFrame \/ BufferFrame \/ Exit
       \/ OnAuthenticated \/ OnDisconnected

Sync == SyncDone \/ SyncDrain \/ SyncIdle \/ SyncWake \/ SyncWrite \/ SyncCommit \/ SyncFail

Server(k) == \/ Register(k) \/ ReadFrame(k) \/ LiveFrame(k) \/ BatchFrame(k) \/ BatchEnd(k)
             \/ ReadExit(k) \/ CloseLoop(k) \/ Cleanup(k)

Next == \/ Hub \/ Sync
        \/ Break \/ Connect \/ SetQueue
        \/ \E k \in Conns : Server(k)
        \/ \E f \in Made : Answer(f)

Spec == Init /\ [][Next]_vars

\* A step of the code that is ready is taken in the end.  The agent, the users and the
\* network owe nothing.
FairSpec ==
    /\ Spec
    /\ WF_vars(SkipFrame \/ SendFrame \/ BufferFrame)
    /\ WF_vars(OnAuthenticated) /\ WF_vars(OnDisconnected)
    /\ WF_vars(Sync) /\ WF_vars(SetQueue)
    /\ \A k \in Conns : WF_vars(Server(k))

-----------------------------------------------------------------------------
(* Properties.                                                             *)
\* The stream is an ordered one: every frame the server takes is one the agent wrote, comes
\* after those it took before and is taken once, however often a batch is sent again and
\* whichever of two loops reads it.
Abstract == INSTANCE OrderedStream WITH made <- Len(kinds), taken <- observed
InOrderOnce == Abstract!Spec

\* While its agent runs, the instance can account for every frame: it is being forwarded,
\* is in the buffer once, was written to a connection, or one of the counters of dropped
\* frames has it.
FramesAccountedFor ==
    /\ total_frames(buf) = Cardinality(Held(buf))
    /\ alive => Made = ({fwd.seq} \ {0}) \cup Held(buf) \cup buf.counted \cup written \cup skipped

\* The buffer keeps within both of its budgets, also when a batch comes back to a segment
\* that was filled again meanwhile.
WithinBudget == Len(buf.mem) <= MemLimit /\ total_frames(buf) <= TotalLimit

\* A batch that left the segments has a resync task that will commit it or put it back;
\* an abort of the task orphans none.
NoOrphanBatch == buf.inFlight # <<>> => sync.at \in {"send", "written"}

\* The buffer loses nothing silently and outgrows nothing, in any order of sends, resyncs,
\* aborts and failures of the disk.
BufferInv == TypeOK /\ FramesAccountedFor /\ WithinBudget /\ NoOrphanBatch

\* Frames that the stream misses are shown as a gap, in the marker of the registry too,
\* and a reconnection does not clear the marker while they are missing.
MissingIsShown == stream.missing > 0 => gap # NoGap

\* A chat whose instance lost its connections one after the other does not look usable,
\* though the cleanup of one may run after frames of the next.  (A loop that was replaced
\* goes on reading, and a frame of its can clear the gap of an instance that is gone.)
OfflineShowsGap ==
    current = 0 /\ (\A k \in Conns : loop[k] \in {"none", "over"}) => chat \in {"Gap", "Ended"}

\* A chat that misses frames or has no instance does not look whole.
GapIsShown == MissingIsShown /\ OfflineShowsGap

\* A request that is sent again never becomes pending again in the document.
ShownOnce == [][shown' \ shown \subseteq Elems(observed') \ Elems(observed)]_vars

\* The resync got nothing out of the buffer: the frame it has to send next is larger than
\* a batch may be, or the segment on the disk cannot be read.
Blocked ==
    /\ sync.at = "sleep"
    /\ \/ buf.mem # <<>> /\ isBulk[Head(buf.mem)]
       \/ buf.mem = <<>> /\ buf.disk # <<>> /\ (isBulk[Head(buf.disk)] \/ DiskFaults)

\* With an agent that pauses, a resync ends (it drains the buffer, fails or is aborted)
\* unless it is blocked: one that goes on for ever is blocked again and again.
ResyncEnds == sync.at # "none" ~> (sync.at = "none" \/ Blocked)

=============================================================================
