---------------------------- MODULE ClientChannel ----------------------------
(***************************************************************************)
(* From the documents to the clients: the mirror and its feed              *)
(* (hub_sink.rs), the fan-out with its backpressure (broadcaster.rs), the  *)
(* loop of a client connection (gateway_client_loop.rs, chat_channel.rs)   *)
(* and the terminal answers of commands (command_outcome_broker_terminal). *)
(*                                                                         *)
(* Everything a client gets passes its one bounded queue, `outq`.  Others  *)
(* fill it: the fan-out and the ephemeral frames without waiting, the      *)
(* executor and the task that closes a connection waiting for a place.     *)
(* Only the connection's own loop empties it, and that loop puts its       *)
(* replies there as well.  What a handler of the loop still has to do is   *)
(* its `work`, a list of steps between awaits; the loop selects its next   *)
(* event when there is none.                                               *)
(*                                                                         *)
(* A write to the socket that blocks is a Receive that has not happened.   *)
(* Tokio gives a freed place to whoever waits longest; here anyone may     *)
(* take it.  Connection ids are not used again.                            *)
(***************************************************************************)
EXTENDS Naturals, Sequences, SequencesExt, FiniteSets, FiniteSetsExt

CONSTANTS Conns, Docs, Prompts,
          None,
          OutCap,        \* places in the queue of a connection (256)
          Soft, Hard,    \* thresholds of the backlog; an update weighs one
          PendingLimit,  \* actions kept before ready (64)
          Budgets        \* bounds of a run: who takes part, the updates, and
                         \* what clients and the world do; one is chosen

ASSUME ClientChannelAssumption ==
    /\ OutCap \in Nat \ {0} /\ PendingLimit \in Nat
    /\ IsFiniteSet(Docs) /\ None \notin Conns /\ None \notin Prompts
    /\ Soft \in Nat \ {0} /\ Hard \in Nat /\ Soft <= Hard
    /\ Budgets \subseteq [conns : SUBSET Conns, docs : SUBSET Docs, updates : Nat, events : Nat]

VARIABLES
    mirror,   \* the updates of each document so far, numbered from one
    feed,     \* the unbounded channel from the sink to the fan-out
    fan,      \* the update that the fan-out task delivers
    sub,      \* the broadcaster's entry of each connection
    outq,     \* the queue of each connection
    at,       \* the loop of each connection
    work,     \* the rest of the handler it is in
    chan,     \* ChatChannel
    closing,  \* tasks that wait to close a connection
    prompt,   \* what became of each prompt, and who waits for its answer
    execq,    \* accepted prompts, in order
    publish,  \* the terminal answer that the executor delivers
    client,   \* the other end of each connection
    budget, updates, events,  \* the bounds, and what is spent of them
    gap,      \* history: updates fanned out between snapshot and subscription
    acts      \* history: prompts that each client sent, and that were begun

docs == <<mirror, feed, updates, budget>>
loops == <<at, work, chan>>
commands == <<prompt, execq, publish>>
history == <<gap, acts>>
vars == <<docs, fan, sub, outq, loops, closing, commands, client, events, history>>

(* Frames.  All that is neither an update, an answer nor the signal to     *)
(* close is a note.                                                        *)
Update(d, ups) == [kind |-> "update", doc |-> d, ups |-> ups]
Snapshot(d, ups) == [kind |-> "snapshot", doc |-> d, ups |-> ups]
Answer(p) == [kind |-> "answer", prompt |-> p]
Note == [kind |-> "note"]
Close == [kind |-> "close"]

(* Steps of a handler. *)
Send(m) == [op |-> "send", frame |-> m]
ReadDoc(d) == [op |-> "snapshot", doc |-> d]   \* then send it, and subscribe
Attach(d) == [op |-> "subscribe", doc |-> d]
Flush == [op |-> "flush"]
Act(p) == [op |-> "act", prompt |-> p]
End == [op |-> "end"]

NoFan == [doc |-> None, ups |-> {}, left |-> {}, conn |-> None, act |-> "none"]
NoSub == [docs |-> {}, pending |-> <<>>, bytes |-> 0, tx |-> FALSE]
NoPublish == [prompt |-> None, to |-> <<>>]
NewChannel == [first |-> TRUE, seen |-> FALSE, v2 |-> FALSE, ready |-> FALSE, pending |-> <<>>]

\* The updates in the frames, each with its place: as many as the frames hold together.
Weight(frames) == Cardinality(UNION {{i} \X frames[i].ups : i \in DOMAIN frames})

TypeOK ==
    /\ budget \in Budgets /\ updates \in 0..budget.updates /\ events \in 0..budget.events
    /\ mirror \in [Docs -> 0..updates]
    /\ fan.left \subseteq Conns /\ fan.act \in {"none", "direct", "merge", "close"}
    /\ \A c \in Conns :
          /\ sub[c].docs \subseteq Docs /\ sub[c].tx \in BOOLEAN
          /\ at[c] \in {"open", "finish", "gone"} /\ closing[c] \in Nat
          /\ chan[c].pending \in Seq(Prompts) /\ Len(chan[c].pending) <= PendingLimit
    /\ prompt \in [Prompts -> [status : {"new", "queued", "done"}, waiting : Seq(Conns)]]
    /\ execq \in Seq(Prompts)

Init ==
    /\ mirror = [d \in Docs |-> 0] /\ feed = <<>> /\ updates = 0
    /\ budget \in Budgets
    /\ fan = NoFan
    /\ sub = [c \in Conns |-> NoSub]
    /\ outq = [c \in Conns |-> <<>>]
    /\ at = [c \in Conns |-> "open"]
    /\ work = [c \in Conns |-> <<>>]
    /\ chan = [c \in Conns |-> NewChannel]
    /\ closing = [c \in Conns |-> 0]
    /\ prompt = [p \in Prompts |-> [status |-> "new", waiting |-> <<>>]]
    /\ execq = <<>> /\ publish = NoPublish
    /\ client = [c \in Conns |-> [here |-> TRUE, saw |-> [d \in Docs |-> {}], last |-> [d \in Docs |-> {}]]]
    /\ events = 0
    /\ gap = [c \in Conns |-> [d \in Docs |-> {}]]
    /\ acts = [c \in Conns |-> [sent |-> <<>>, begun |-> <<>>, v2 |-> FALSE]]

Event == events < budget.events /\ events' = events + 1
EventAt(c) == c \in budget.conns /\ Event
Room(c) == Len(outq[c]) < OutCap

-----------------------------------------------------------------------------
(* The sink and the fan-out. *)

\* persist_update: mirror and feed under one lock.
Persist(d) ==
    /\ d \in budget.docs /\ updates < budget.updates
    /\ updates' = updates + 1
    /\ mirror' = [mirror EXCEPT ![d] = @ + 1]
    /\ feed' = Append(feed, Update(d, {mirror[d] + 1}))
    /\ UNCHANGED <<budget, fan, sub, outq, loops, closing, commands, client, events, history>>

\* fan_out: who is subscribed is read once.
TakeUpdate ==
    /\ fan.left = {} /\ fan.act = "none" /\ feed # <<>>
    /\ LET u == Head(feed)
           targets == {c \in Conns : u.doc \in sub[c].docs}
       IN  /\ fan' = [NoFan EXCEPT !.doc = u.doc, !.ups = u.ups, !.left = targets]
           /\ gap' = [c \in Conns |-> IF c \in targets THEN gap[c]
                                      ELSE [gap[c] EXCEPT ![u.doc] = @ \cup u.ups]]
    /\ feed' = Tail(feed)
    /\ UNCHANGED <<mirror, updates, budget, sub, outq, loops, closing, commands, client, events, acts>>

\* Mutant: a backlog over both thresholds is merged.
MergesAlways(pending, bytes) ==
    IF Len(pending) = 1 \/ bytes >= Soft
    THEN IF bytes > Soft THEN "merge" ELSE IF bytes > Hard THEN "close" ELSE "direct"
    ELSE "none"
\* deliver, up to the decision.
Decide(pending, bytes) ==
    IF Len(pending) = 1 \/ bytes >= Soft
    THEN IF bytes > Hard THEN "close" ELSE IF bytes > Soft THEN "merge" ELSE "direct"
    ELSE "none"

Deliver(c) ==
    /\ fan.act = "none" /\ c \in fan.left
    /\ LET pending == Append(sub[c].pending, Update(fan.doc, fan.ups))
           bytes == sub[c].bytes + Cardinality(fan.ups)
       IN  IF sub[c].tx
           THEN /\ sub' = [sub EXCEPT ![c].pending = pending, ![c].bytes = bytes]
                /\ fan' = [fan EXCEPT !.left = @ \ {c}, !.conn = c, !.act = Decide(pending, bytes)]
           ELSE fan' = [fan EXCEPT !.left = @ \ {c}] /\ UNCHANGED sub
    /\ UNCHANGED <<docs, outq, loops, closing, commands, client, events, history>>

\* Mutant: the frame that met the full queue is not put back.
LosesRefused(c, frames) ==
    LET n == Min({Len(frames), OutCap - Len(outq[c])})
        kept == SubSeq(frames, n + 2, Len(frames))
    IN  /\ outq' = [outq EXCEPT ![c] = @ \o SubSeq(frames, 1, n)]
        /\ sub' = [sub EXCEPT ![c].pending = kept, ![c].bytes = Weight(kept)]
\* What the queue has room for goes out, the rest is kept in its order.
TrySend(c, frames) ==
    LET n == Min({Len(frames), OutCap - Len(outq[c])})
        kept == SubSeq(frames, n + 1, Len(frames))
    IN  /\ outq' = [outq EXCEPT ![c] = @ \o SubSeq(frames, 1, n)]
        /\ sub' = [sub EXCEPT ![c].pending = kept, ![c].bytes = Weight(kept)]

Flushed(c, act) ==
    /\ fan.act = act /\ fan.conn = c
    /\ fan' = [fan EXCEPT !.act = "none", !.conn = None]
    /\ UNCHANGED <<docs, loops, commands, client, events, history>>

FlushDirect(c) ==
    /\ Flushed(c, "direct")
    /\ IF sub[c].tx THEN TrySend(c, sub[c].pending) ELSE UNCHANGED <<sub, outq>>
    /\ UNCHANGED closing

\* One frame for each document, in the order of a hash map.
Merged(frames, d) ==
    Update(d, UNION {frames[i].ups : i \in {j \in DOMAIN frames : frames[j].doc = d}})

FlushMerged(c) ==
    /\ Flushed(c, "merge")
    /\ IF sub[c].tx
       THEN LET frames == sub[c].pending
                touched == {frames[i].doc : i \in DOMAIN frames}
            IN  \E order \in SetToSeqs(touched) :
                    TrySend(c, [i \in DOMAIN order |-> Merged(frames, order[i])])
       ELSE UNCHANGED <<sub, outq>>
    /\ UNCHANGED closing

\* close_conn: the entry goes, a task of its own waits for a place.
CloseConn(c) ==
    /\ Flushed(c, "close")
    /\ sub' = [sub EXCEPT ![c] = NoSub]
    /\ closing' = [closing EXCEPT ![c] = @ + IF sub[c].tx THEN 1 ELSE 0]
    /\ UNCHANGED outq

SignalClose(c) ==
    /\ closing[c] > 0
    /\ \/ at[c] = "gone" /\ UNCHANGED outq
       \/ at[c] # "gone" /\ Room(c) /\ outq' = [outq EXCEPT ![c] = Append(@, Close)]
    /\ closing' = [closing EXCEPT ![c] = @ - 1]
    /\ UNCHANGED <<docs, fan, sub, loops, commands, client, events, history>>

\* fan_out_ephemeral_chat: who has no room misses it.
Ephemeral(d) ==
    /\ Event /\ d \in budget.docs
    /\ outq' = [c \in Conns |-> IF d \in sub[c].docs /\ Room(c) THEN Append(outq[c], Note)
                                ELSE outq[c]]
    /\ UNCHANGED <<docs, fan, sub, loops, closing, commands, client, history>>

-----------------------------------------------------------------------------
(* The loop of a connection selects an event. *)

Selecting(c) == at[c] = "open" /\ work[c] = <<>>

\* A handler begins: what it has to do, and what it changes at once.
Handle(c, steps, channel) ==
    /\ EventAt(c) /\ Selecting(c) /\ client[c].here
    /\ work' = [work EXCEPT ![c] = steps]
    /\ chan' = [chan EXCEPT ![c] = channel]
    /\ UNCHANGED <<docs, fan, sub, outq, at, closing, commands, client, gap>>

\* Mutant: every subscription negotiates.
SubscribeNegotiates(c, wanted, v2) ==
    LET first == ~chan[c].seen
        open == [i \in DOMAIN wanted |-> ReadDoc(wanted[i])]
        greet == IF first THEN <<Send(Note), Flush>> ELSE <<>>
    IN  /\ ToSet(wanted) \subseteq budget.docs
        /\ Handle(c, open \o greet, [chan[c] EXCEPT !.first = FALSE, !.seen = TRUE, !.v2 = v2])
        /\ acts' = [acts EXCEPT ![c].v2 = IF first THEN v2 ELSE @]
\* ysync.subscribe: for each document a snapshot, then the subscription; the
\* first one negotiates and makes the connection ready.
Subscribe(c, wanted, v2) ==
    LET first == ~chan[c].seen
        open == [i \in DOMAIN wanted |-> ReadDoc(wanted[i])]
        greet == IF first THEN <<Send(Note), Flush>> ELSE <<>>
    IN  /\ ToSet(wanted) \subseteq budget.docs
        /\ Handle(c, open \o greet,
                  [chan[c] EXCEPT !.first = FALSE, !.seen = TRUE,
                                  !.v2 = IF first THEN v2 ELSE @])
        /\ acts' = [acts EXCEPT ![c].v2 = IF first THEN v2 ELSE @]

\* A first frame that is neither a subscription nor an action ends the connection.
Unsubscribe(c, d) ==
    /\ d \in budget.docs
    /\ EventAt(c) /\ Selecting(c) /\ client[c].here
    /\ chan' = [chan EXCEPT ![c].first = FALSE]
    /\ IF chan[c].first
       THEN at' = [at EXCEPT ![c] = "finish"] /\ UNCHANGED sub
       ELSE sub' = [sub EXCEPT ![c].docs = @ \ {d}] /\ UNCHANGED at
    /\ UNCHANGED <<docs, fan, outq, work, closing, commands, client, history>>

\* An action waits until the connection is ready, if there is room for it.
Action(c, p) ==
    LET wait == ~chan[c].ready
        full == Len(chan[c].pending) >= PendingLimit
        steps == IF ~wait THEN <<Act(p)>> ELSE IF full THEN <<Send(Note)>> ELSE <<>>
        kept == IF wait /\ ~full THEN Append(chan[c].pending, p) ELSE chan[c].pending
    IN  /\ Handle(c, steps, [chan[c] EXCEPT !.first = FALSE, !.pending = kept])
        /\ acts' = IF wait /\ full THEN acts
                   ELSE [acts EXCEPT ![c].sent = Append(@, p)]

\* Any frame that is answered with one frame, at once or after a query of the
\* instance, and the tick: the identity may have been revoked; otherwise a
\* keep-alive, after which the pong may be overdue.
Reply(c) == Handle(c, <<Send(Note)>>, chan[c]) /\ UNCHANGED acts
Tick(c) ==
    /\ \E steps \in {<<End>>, <<Send(Note)>>, <<Send(Note), End>>} : Handle(c, steps, chan[c])
    /\ UNCHANGED acts

\* The client goes away, and the loop reads an error.
Leave(c) ==
    /\ EventAt(c) /\ client[c].here
    /\ client' = [client EXCEPT ![c].here = FALSE]
    /\ UNCHANGED <<docs, fan, sub, outq, loops, closing, commands, history>>

ReadError(c) ==
    /\ Selecting(c) /\ ~client[c].here
    /\ at' = [at EXCEPT ![c] = "finish"]
    /\ UNCHANGED <<docs, fan, sub, outq, work, chan, closing, commands, client, events, history>>

\* out_rx.recv: the frame goes over the socket, or the socket fails.
Receive(c) ==
    /\ Selecting(c) /\ outq[c] # <<>>
    /\ outq' = [outq EXCEPT ![c] = Tail(@)]
    /\ LET f == Head(outq[c])
       IN  IF f.kind = "close" \/ ~client[c].here
           THEN at' = [at EXCEPT ![c] = "finish"] /\ UNCHANGED client
           ELSE /\ client' = IF f.kind \notin {"update", "snapshot"} THEN client
                             ELSE [client EXCEPT ![c].saw[f.doc] = @ \cup f.ups,
                                                 ![c].last[f.doc] = IF f.kind = "update"
                                                                    THEN f.ups ELSE @]
                /\ UNCHANGED at
    /\ UNCHANGED <<docs, fan, sub, work, chan, closing, commands, events, history>>

\* Mutant: the connection ends when its queue is empty.
FinishDrained(c) ==
    /\ at[c] = "finish" /\ outq[c] = <<>>
    /\ at' = [at EXCEPT ![c] = "gone"]
    /\ sub' = [sub EXCEPT ![c] = NoSub]
    /\ UNCHANGED <<docs, fan, outq, work, chan, closing, commands, client, events, history>>
\* finish_connection, after which the receiver is dropped.
Finish(c) ==
    /\ at[c] = "finish"
    /\ at' = [at EXCEPT ![c] = "gone"]
    /\ work' = [work EXCEPT ![c] = <<>>]
    /\ outq' = [outq EXCEPT ![c] = <<>>]
    /\ sub' = [sub EXCEPT ![c] = NoSub]
    /\ UNCHANGED <<docs, fan, chan, closing, commands, client, events, history>>

-----------------------------------------------------------------------------
(* The steps of a handler. *)

Step(c, op) == at[c] = "open" /\ work[c] # <<>> /\ Head(work[c]).op = op
Then(c, steps) == work' = [work EXCEPT ![c] = steps \o Tail(@)]

\* out_tx.send: waits for a place that only this loop can make.
WorkSend(c) ==
    /\ Step(c, "send") /\ Room(c)
    /\ outq' = [outq EXCEPT ![c] = Append(@, Head(work[c]).frame)]
    /\ Then(c, <<>>)
    /\ UNCHANGED <<docs, fan, sub, at, chan, closing, commands, client, events, history>>

WorkSnapshot(c) ==
    /\ Step(c, "snapshot")
    /\ LET d == Head(work[c]).doc
       IN  /\ Then(c, <<Send(Snapshot(d, 1..mirror[d])), Attach(d)>>)
           /\ gap' = [gap EXCEPT ![c][d] = {}]
    /\ UNCHANGED <<docs, fan, sub, outq, at, chan, closing, commands, client, events, acts>>

WorkSubscribe(c) ==
    /\ Step(c, "subscribe")
    /\ sub' = [sub EXCEPT ![c].docs = @ \cup {Head(work[c]).doc}, ![c].tx = TRUE]
    /\ Then(c, <<>>)
    /\ UNCHANGED <<docs, fan, outq, at, chan, closing, commands, client, events, history>>

\* mark_ready: the actions kept so far are dispatched one after the other.
WorkFlush(c) ==
    /\ Step(c, "flush")
    /\ Then(c, [i \in DOMAIN chan[c].pending |-> Act(chan[c].pending[i])])
    /\ chan' = [chan EXCEPT ![c].ready = TRUE, ![c].pending = <<>>]
    /\ UNCHANGED <<docs, fan, sub, outq, at, closing, commands, client, events, history>>

WorkEnd(c) ==
    /\ \/ Step(c, "end")
       \/ Step(c, "act") /\ ~chan[c].v2  \* an old tab may not prompt
    /\ at' = [at EXCEPT ![c] = "finish"]
    /\ UNCHANGED <<docs, fan, sub, outq, work, chan, closing, commands, client, events, history>>

\* submit: a new prompt is queued, one under way gets an observer, and one
\* that is done its answer.
WorkAct(c) ==
    /\ Step(c, "act") /\ chan[c].v2
    /\ LET p == Head(work[c]).prompt
       IN  /\ IF prompt[p].status = "done"
              THEN UNCHANGED <<prompt, execq>>
              ELSE /\ prompt' = [prompt EXCEPT ![p].status = "queued",
                                    ![p].waiting = IF Contains(@, c) THEN @ ELSE Append(@, c)]
                   /\ execq' = IF prompt[p].status = "new" THEN Append(execq, p) ELSE execq
           /\ acts' = [acts EXCEPT ![c].begun = Append(@, p)]
    /\ Then(c, <<Send(Note)>>)
    /\ UNCHANGED <<docs, fan, sub, outq, at, chan, closing, publish, client, events, gap>>

-----------------------------------------------------------------------------
(* The executor of the chat: the prompt is over, its outcome recorded, and *)
(* publish_terminal sends it to one after the other.                       *)

Conclude ==
    /\ publish = NoPublish /\ execq # <<>>
    /\ LET p == Head(execq)
       IN  /\ publish' = [prompt |-> p, to |-> prompt[p].waiting]
           /\ prompt' = [prompt EXCEPT ![p] = [status |-> "done", waiting |-> <<>>]]
    /\ execq' = Tail(execq)
    /\ UNCHANGED <<docs, fan, sub, outq, loops, closing, client, events, history>>

\* The receiver of a connection that is gone refuses the frame.
Publish ==
    /\ publish.to # <<>>
    /\ LET c == Head(publish.to)
       IN  \/ at[c] = "gone" /\ UNCHANGED outq
           \/ at[c] # "gone" /\ Room(c)
              /\ outq' = [outq EXCEPT ![c] = Append(@, Answer(publish.prompt))]
    /\ publish' = [publish EXCEPT !.to = Tail(@)]
    /\ UNCHANGED <<docs, fan, sub, loops, closing, prompt, execq, client, events, history>>

\* Only now does the executor finish the execution.
Published ==
    /\ publish # NoPublish /\ publish.to = <<>>
    /\ publish' = NoPublish
    /\ UNCHANGED <<docs, fan, sub, outq, loops, closing, prompt, execq, client, events, history>>

-----------------------------------------------------------------------------
FanOutTask == TakeUpdate \/ \E c \in Conns : Deliver(c) \/ FlushDirect(c) \/ FlushMerged(c) \/ CloseConn(c)
Executor == Conclude \/ Publish \/ Published
Work(c) ==
    \/ WorkSend(c) \/ WorkSnapshot(c) \/ WorkSubscribe(c)
    \/ WorkFlush(c) \/ WorkEnd(c) \/ WorkAct(c)
Loop(c) == Work(c) \/ Receive(c) \/ ReadError(c) \/ Finish(c)

FromClient(c) ==
    \/ \E wanted \in UNION {SetToSeqs(s) : s \in SUBSET Docs}, v2 \in BOOLEAN : Subscribe(c, wanted, v2)
    \/ \E d \in Docs : Unsubscribe(c, d)
    \/ \E p \in Prompts : Action(c, p)
    \/ Reply(c) \/ Leave(c)

Next ==
    \/ \E d \in Docs : Persist(d) \/ Ephemeral(d)
    \/ FanOutTask \/ Executor
    \/ \E c \in Conns : Loop(c) \/ FromClient(c) \/ Tick(c) \/ SignalClose(c)

Spec == Init /\ [][Next]_vars

\* Every task of the server goes on while it can; clients read what they get.
FairSpec ==
    /\ Spec
    /\ WF_vars(FanOutTask) /\ WF_vars(Executor)
    /\ \A c \in Conns : WF_vars(Loop(c)) /\ WF_vars(SignalClose(c))

-----------------------------------------------------------------------------
(* Properties. *)

Frames(seq, d) == {seq[i] : i \in {j \in DOMAIN seq : seq[j].kind \in {"update", "snapshot"} /\ seq[j].doc = d}}
Sends(c) == {work[c][i].frame : i \in {j \in DOMAIN work[c] : work[c][j].op = "send"}}
Contents(frames) == UNION {f.ups : f \in frames}

\* The updates of d that client c has, or that are on their way to it.
Held(c, d) ==
    client[c].saw[d]
        \cup Contents(Frames(outq[c] \o sub[c].pending, d))
        \cup Contents({f \in Sends(c) : f.kind = "snapshot" /\ f.doc = d})
        \cup IF c \in fan.left /\ fan.doc = d THEN fan.ups ELSE {}

\* What was written and is no longer in the feed.
FannedOut(d) == (1..mirror[d]) \ Contents(Frames(feed, d))

\* The increments of d that client c still gets are newer than the last one it has, and
\* each is newer than those before it.
InOrder(c, d) ==
    LET s == outq[c] \o sub[c].pending
        rest == {i \in DOMAIN s : s[i].kind = "update" /\ s[i].doc = d}
    IN  \A i \in rest : \A n \in s[i].ups :
            /\ \A m \in client[c].last[d] : m < n
            /\ \A j \in rest : j < i => \A m \in s[j].ups : m < n

\* Backpressure loses nothing and keeps the order: of every document that an
\* open connection is subscribed to, the client has or will get each update
\* that was fanned out, except those between its snapshot and its
\* subscription; and increments reach it in the order they were written
\* (broadcaster.rs:267, hub_sink.rs:3).  A connection that is being closed
\* for its backlog has lost it.
ViewsAreWhole ==
    \A c \in Conns, d \in Docs : at[c] = "open" /\ closing[c] = 0 /\ ~Contains(outq[c], Close) =>
        /\ d \in sub[c].docs /\ client[c].here => FannedOut(d) \subseteq Held(c, d) \cup gap[c][d]
        /\ InOrder(c, d)

\* The backlog of a connection is what its count says and within the hard
\* threshold whenever the fan-out is done with it, its queue is bounded, and
\* nothing is kept for a connection that is gone (broadcaster.rs:220).
BacklogIsBounded(c) ==
    /\ sub[c].bytes = Weight(sub[c].pending)
    /\ fan.conn # c => sub[c].bytes <= Hard
    /\ Len(outq[c]) <= OutCap
    /\ at[c] = "gone" => sub[c] = NoSub /\ outq[c] = <<>>

\* Prompts run in the order the client sent them, each once, not before the
\* connection is ready, and only if the first subscription negotiated them:
\* an old tab never prompts (chat_channel.rs:246).
ReadyClientsAct(c) ==
    /\ IsPrefix(acts[c].begun, acts[c].sent)
    /\ acts[c].begun # <<>> => chan[c].ready /\ acts[c].v2

\* What each connection keeps of what goes out, and of what comes in.
ChannelInv == TypeOK /\ \A c \in Conns : BacklogIsBounded(c) /\ ReadyClientsAct(c)

\* A loop that waits for a place in the queue that it alone empties.
WaitsForItself(c) == Step(c, "send") /\ ~Room(c)

\* With clients that read, the executor gets rid of every answer unless a
\* loop waits for itself (command_outcome_broker_terminal.rs:68).
HeldByOwnQueueOnly ==
    publish # NoPublish ~> publish = NoPublish \/ \E c \in Conns : WaitsForItself(c)

\* What the architecture promises: a slow consumer cannot hold the agent
\* (architecture.md:1052).
AnswersGoOut == publish # NoPublish ~> publish = NoPublish

=============================================================================
