# Verification of the peri-studio server

peri-studio lets browsers work with coding agents that run on other machines. A server keeps
the state; an instance on each machine hosts the agent processes; clients talk to the server
over one WebSocket, instances over another. This directory holds TLA+ models of the server's
command path, of the stream that comes back and of its way to the clients, of the life of chats and terminals
across lost connections, the TLC configurations that check them and TLAPS proofs about seven of them.

The part chosen first is the path of a command that must not be executed twice: a prompt, a
cancel, the answer to a permission request, a form or a question. It crosses a record store, a
queue, a document that all clients see, a connection that may be lost at any moment and an agent
that may never answer. Every rule of docs/architecture.md about retries, `delivery_unknown` and
observers is about it. The second part is what a reconnection has to repair: frames that were
buffered, processes one side has forgotten, terminals whose route is gone.

## The system

| part | state | operations | hard about it |
|---|---|---|---|
| command outbox (`server/src/persist/outbox*.rs`) | one record per commandId: status, no-redelivery barrier, dispatch stamp, recovery material, attempts, last error | 20 `mark_*`/`set_*` methods, 9 restart passes | long legal call sequences; which error may be retried |
| queued submission (`channel/queued_submission.rs`, `queued_actions.rs`) | gate, a channel of 64 per chat, reserve counter, deferred queue of the executor | submit, take, put aside, finish | a prompt holds the executor for minutes, a cancel must get through; balance of the reserve |
| prompt delivery (`channel/prompt_delivery*.rs`) | turn id, outbox record, entry and turn in the documents, rpc oneshot | intent, barrier, forward, wait, terminal, commit, the failure paths | outcome unknown at every await; two stores without a transaction |
| turn cancellation (`channel/turn_cancellation.rs`) | the active turn, outbox record | intent, marking, forward, terminal | races the agent's answer and the disconnect handler |
| chat turn registry (`control/chat_turns.rs`) | the active turn of each chat | set, clear, read | cleared by three tasks |
| disconnect and exit (`channel/relay_disconnect.rs`) | none | interrupt the turn, expire permissions, clear the tables | each step after an await |
| outcome broker (`channel/command_outcome_broker*.rs`) | observers per command, terminal fallbacks, overflow flag | adjudicate, attach, publish | a resubmission at any moment; limits |
| permission resolution (`channel/permission_resolution*.rs`, `relay_permission.rs`, `state/permission.rs`) | table of requests and their claims, the document's requests, recovery material | decide, claim, compare-and-set, barrier, answer | several clients decide at once; the answer must go out once |
| instance registry and routing (`control/instance_registry.rs`, `instance_commands.rs`) | connection, online flag, pending acknowledgements by key | hello, send, ack, timeout, sweep, disconnect | late acknowledgements, replaced connections, reused keys |
| documents (`state/*`) | Automerge documents of a chat and a session, one writer each | about 40 commands | writes that are applied but not persisted |
| elicitation and question answers (`channel/elicitation_response*.rs`, `question_response.rs`, `relay_question.rs`, `state/elicitation.rs`, `state/question.rs`) | tables of forms and questions with their claims, their status in the document, a timer per question | as permission resolution; expiry | a timer and a lost connection race the answer; recovery material, claim and barrier in three stores |
| chat reconciliation (`control/chat_reconcile.rs`, `chat_orphan_kill.rs`, `chat_registry.rs`, `channel/instance_recovery.rs`) | chat registry, bindings, pending kills and closes, the recovery lane and its barrier | heartbeat snapshot, kill with retries | the two sides disagree after a reconnect; a snapshot is old when it is applied |
| runtime creation and closure (`channel/runtime_*.rs`) | creations under way, bindings | spawn, bind, clean up, close | clean-up after each step that may fail |
| instance buffer and resync (`instance/src/buffer`, `hub.rs`, `hub/forward.rs`, `hub/resync.rs`, `transport*`), aggregator (`state/aggregator*.rs`) | memory and disk segment, batch in flight, the sequence the server expects, gap marks | push, drain, commit, roll back, replay, judge | duplicated and reordered frames; three tasks share the buffer |
| terminal service (`control/terminal_service*.rs`, `instance/src/terminal_host*.rs`) | routes, counts of the quotas, PTYs | open, input, output, close, exit, sweep, shutdown | each side may lose the other; eight paths remove a route |
| client channels (`channel/broadcaster.rs`, `gateway_client_loop.rs`, `chat_channel.rs`, `control/hub_sink.rs`) | mirror of the documents, subscriptions with a backlog each, one bounded queue per connection, the handshake | snapshot, subscribe, fan out, merge, close; reply, tick, act | a client that does not read; a loop that fills the queue it empties |
| metadata store, machine service, resources, web client | see PROJECT.json | | |

How they interact: a client's frame reaches `queued_submission`, which under a per-command gate
asks the broker whether the outbox already has the command; if not it reserves a place, inserts
the record and queues the command. The executor of the chat runs commands one at a time through
prompt delivery, cancellation or permission resolution. Those move the record, write the
documents through their single writer, and send frames through `send_command`, which waits for
the instance's acknowledgement. Notifications of the agent come back through the relay and write
the same documents; the loop of an instance connection calls the disconnect handler when it ends.
The terminal answer goes to the submitting client and to the observers in the broker.

What makes each part correct is listed with its module below. The hazards, each with its line and
the properties that watch it, are in PROJECT.json.

## Modules

    OutboxRecord        one record, what each method accepts and leaves      (operators)
      OutboxStore       the store and its restart passes                     (specification)
        OutboxStore_proofs
      PromptTurn        prompts and cancels of a chat, with TurnProjection   (specification)
        PromptTurn_proofs
      PermissionResolution  permission decisions of a chat                   (specification)
        PermissionResolution_proofs
      InteractiveAnswers    answers to forms and questions of a chat         (specification)
        InteractiveAnswers_proofs
    CommandPromise      what a client may rely on about a command            (abstract specification)
    TurnProjection      what the documents say about turns                   (operators)
    AckRouting          acknowledgements of one instance                     (specification)
    FrameBuffer         the buffer of an instance for one chat               (operators)
      FrameStream       frames from the agent to the documents               (specification)
        FrameStream_proofs
    OrderedStream       frames are taken in order and once                   (abstract specification)
    ChatLifecycle       chats, bindings, recovery, creation and closure      (specification)
      ChatLifecycle_proofs
    TerminalService     routes of terminals and their PTYs                   (specification)
      TerminalService_proofs
    ClientChannel       from the documents and the executor to the clients   (specification)
    Connections_proofs  about AckRouting and ClientChannel
    MC*                 instances for TLC

OutboxRecord is shared by the four specifications that move records, so every one of them runs
against the same table of transitions, and the three that model callers use the store's methods
only through `CanM`/`M`. PromptTurn, PermissionResolution and InteractiveAnswers take for granted that a forward that
returns Ok was taken and one that returns offline or rejected was not. AckRouting is where that is
checked and proved, and where its one exception is shown.

### OutboxRecord and OutboxStore

`CanM(r)` holds iff method M returns Ok on record r, `M(r)` is the record it leaves. Time stamps are
set or not set, payload digests and recovery material are model values, a removed record is a
value with status `absent`. `Move` is `transition()`, `AllowedTransition` its table. OutboxStore has
one action per method, and for a restart `LoseExecutors`, one action per pass in any order, and
`ServeAgain`.

The callers are free: a method may be called on any record at any time. Three disciplines are
assumed because the methods do not check them and the callers do: prompt methods are called on
prompts (`PromptCall`), `mark_intent_durable` on other types (`PlainCall`), and `clear_for_retry`
only on records without a barrier (`RetireUnsent`).

The store keeps its index in memory (outbox.rs:3), so after a real restart the index is empty, and
the server calls one pass only (`reconcile_prompt_delivery_after_restart`, from prompt_recovery.rs:124).
The passes meet populated stores in the repository's tests. They are modelled as what the store
promises when records do survive. One of those promises fails: for a dispatched prompt with exact terminal
evidence the prompt pass calls `mark_completed`, for which `allowed_transition` has no edge, and startup
would stop. The model shows it as `ReconcilePromptRefused` and mode `refused`. The comment at queued_submission.rs:48, by which the index is
rebuilt across a restart, does not describe the code any more.

Correct means: records are typed, a barrier stands only where a frame may be under way and the stamp
tells sent from unsent (`RecordsAreSound`); the barrier is lowered only on proof (`BarrierFailsClosed`);
completed and failed are final, `delivery_unknown` is left by a verdict only (`OutcomeStands`); when the server serves again nothing claims an executor that is gone
(`ConvergedBeforeServing`).

### TurnProjection and PromptTurn

TurnProjection gives the document commands that touch a turn as operators from document to
document; the guards (terminal guard, `judge_turn_guard`, entry states) are the code's. accepting and
running are one status since no guard tells them apart; awaitingPermission is one of its own, because the
answer to a request ends the turn in it when it is a refusal (`StatusIf`).

PromptTurn has one chat. An action is what runs between two awaits where another task can come in
between. `prompt` is the future of `PromptDelivery`, `cancel` that of `exec_cancel`; a nested cancel and the
prompt never interleave since the executor is one task, but both interleave with the disconnect
handler (`DiscRead`, `DiscInterrupt`, `DiscClear`), the exit handler (`ProcessExit`, `ExitClear`), the wire and
the agent. `agent[t]` is where the frame of attempt t got to; a frame `on the wire` when the forward
times out may still be delivered. The documents' write may fail to persist after it was applied
(`faults`). `backlog` and `verdict` are history.

The agent can also report the end of a turn on its own (`AgentEndsTurn`: prompt_complete, turn_cancelled, session_error).
The aggregator takes such a report for the active turn, and also for one that is shown as interrupted
(`Calibrates`): the server had to guess that end, and architecture.md:913 has it calibrated once. What is completed, failed or
cancelled is not replaced. A report names its turn, and the translator does not tell the agent
the turn's id (translator.rs:94), so a report is one of an agent that has heard of the turn. A permission that
is refused or expires while the turn waits for it shows the turn as cancelled while agent and executor still work on
it (`PermissionAnswered`); the turn then has its end, and what the executor finds later does not replace it.

Left out: `session_update` with an active turn of its own (acp_channel_map.rs:310), the replay of a loaded
session (a turn that `EndLoadReplay` ends), images and attachments, the text of errors, other commands in the queue, a resubmission
with another payload. A submit that is answered at once (duplicate, queue full, RATE_LIMITED) changes
none of this state and is no action.

Correct means: one execution of a command reaches the agent (`KeepsPromise`, of which `AtMostOnce` is a part), answers are true and
outlive the connection (`AnswersAreTrue`), no command leaves a turn behind
(`OneTurnAtATime`), a turn ends once, but for the calibration of an interruption, and a committed cancel stopped the one it found (`TurnsEnd`), the queue's accounting survives the deferred queue and a cancel never overtakes
a dispatch (`QueueInv`), commands are served in order (`ServedInOrder`), and both the client and the input
box are released (`NobodyWaits`).

### PermissionResolution

One chat, several commands that decide on its requests, several clients. `Disposition` is
`adjudicate_existing`, the actions `Submit*` what the gate makes of it. `exec` is the one execution at a
time; its program counter follows `permission_resolution.rs`: option check, claim in the table,
compare-and-set in the document, barrier, forward, and the three outcomes. `observers`, `fallbacks`
and `overflow` are `OutcomeState` with its limits as constants. A request without an entry in the
table is a legacy one. A request is registered once; a replayed frame that registers it again is in
FrameStream. A submit whose answer is known (replayed or blocked) changes nothing and is no action.

Correct means: at most one answer reaches the agent (`OneAnswerToAgent`), and it is the one every
client sees (`SentAsDecided`; together `AgentHearsDecision`); answers are true, retryable means that a retry is executed, and the tables keep
their limits (`AnswersInv`); every execution ends with an answer (`EveryExecutionAnswered`).

### CommandPromise

The three models of commands are about different code and have one purpose, which CommandPromise states without any
of the mechanisms. Its state is, for each command, how often it was accepted for execution, and for each execution
where its frame is and what the client was answered. A command is accepted (`Accept`) or sent (`Send`) only while no
execution of it was sent; an execution gets one answer, a true one (`True`), and does nothing afterwards.
PromptTurn, PermissionResolution and InteractiveAnswers implement it (`KeepsPromise`): `tries` is their own,
`answer` is `verdict`, and `frame` is `FrameOf`, which forgets how far a frame got. The rest (queue, records,
barriers, claims, documents, registry, connections) is what it takes to keep the promise. `Send` may answer at once, since a forward
that times out is answered unknown in the same step. `Accept` does not ask that the executions before have
been answered: a record may be removed before the last write of the prompt it belongs to. It does not ask for their answers
either: an answer to a question that was told unknown without having been sent leaves a live record, and after that
was removed the command may be executed again. What it does ask, that the agent has not heard of the command, is what the code has to
guarantee.

### AckRouting

One instance. A call is one `send_command`, `slot` the map `pending_acks`, `reply` the oneshot; `loop[k]` is
the life of connection k: `cut` is broken but with frames the server has not read. `Hello` replaces the
connection and drops all registrations; the end of an old loop runs `on_disconnect`. `SweepOffline`
keeps the connection, as the code does.

`Serial` are the keys whose caller waits for one call to end before it makes the next, and makes the
next one only after proof of non-delivery: the command ids of cancels and the `hub-n` ids of prompts.
Kills and spawns reuse their key after a timeout too. They are idempotent on the instance and do
not fall under this assumption. Answers to permission requests use the agent's own request id, which
is nobody's to keep unique.

### FrameBuffer, OrderedStream and FrameStream

FrameBuffer is the buffer of one chat as operators: `Push`, `Drain`, `Commit`, `Rollback` and the
eviction are the methods of the same names. FrameStream puts it between an agent and the documents.
The hub of the instance is one task and handles one frame or one event of the transport at a time; `fwd`
is the frame in its hands, with what it read of the chat before the send. The resync is a second
task (`sync`), the transport a third (`link`, `hubq`), and the server runs one loop per connection
(`loop`, `job`), of which a replaced one may still read. `stream`, `gap`, `chat`, `table` and `shown` are what
the aggregator, the registry document, the relay and the session document keep about the frames.

Left out: the ring of sent frames (nothing reads it), the watermark file, new epochs after a restart
of the daemon, the budget shared with other chats. Of the sizes of frames one is told apart: a `bulk` event is larger than a
batch may be (512 KB) but not larger than a frame may be (1 MB). `Drain` stops at it, and at a read of the disk
that fails; when nothing was drained the resync sleeps and tries again (`SyncIdle`, `SyncWake`). For the budgets every frame weighs
one. A push over the total budget evicts from memory, which is never empty then with `MemLimit` at least one, so the eviction
from the disk, which gives up when the disk cannot be read, is not reached.

Correct means: frames are taken in order and once, which is `OrderedStream`, and FrameStream implements
it (`InOrderOnce`); no frame disappears without being counted, the budget holds when a batch comes back to a
segment that was filled meanwhile, and an abort orphans no batch (`BufferInv`); what is missing is shown,
and so is an instance that is gone (`GapIsShown`); a replayed request does not become pending again (`ShownOnce`); a resync ends unless it is blocked, that is, it sleeps because the
frame to be sent next fits no batch or the disk cannot be read (`ResyncEnds`). It may be blocked for good
(see "Where code and documents disagree").

### ChatLifecycle

`reg` is the chat registry with its bindings and marks, `lane` the recovery lane of the instance
(`latest`, `in_flight`, the barrier and the worker between its awaits), `killer` the kill tasks, `create` and
`closer` the command under way, `proc` the processes on the instance, `down` and `up` what is on its way
between the two. A heartbeat is a snapshot that was taken when the frame was made and is compared when the
lane gets to it. A run begins either with a server that was restarted and has an empty registry beside
a living process, or with a chat that runs.

The steps of a hello (gateway_instance_loop.rs:89 to :154) are one action, `Connect`.

Left out: discovery runtimes, switch_session, reuse of an active turn, gaps over two epochs, failing
writes of outbox and documents, other instances (what they do to a chat of this one is
`killed_elsewhere` and `recovered_elsewhere`). The order of the list in a heartbeat is ignored, and a heartbeat
without news is not sent. Kill tasks of one chat that wait are one.

Correct means: a create that failed has left no process (`FailedMeansDead`); a session has one live runtime,
the binding points to it, and nothing can be resumed while the barrier stands (`RegistryInv`); a process is killed for a reason
(`KillsAreDeserved`) and one that nobody wants dies (`OrphansDie`); the recovery barrier opens for the
connection that is registered (`BarrierNeedsCurrent`) and in the end (`BarrierOpens`). Chats that a user
asked to close are not in `OneLiveRuntime`, a part of `RegistryInv`, since `request_close_offline` leaves a
final state again (chat_registry.rs:381).

### InteractiveAnswers

The two kinds of request that an agent makes besides permissions: official forms
(elicitations), and the questions of the private extension. They share table, executor and outbox with
PermissionResolution's scheme but not its order of steps: a form is claimed and shown as `responding`
before the barrier, and resolved after the answer is acknowledged; a question is resolved in the
document first and sent without a barrier. A question has a timer, which gives it up and tells the agent so; a
form has none. `exec` is the execution at work, `reg` what the relay registers, `timer` and `expiry` the timer
and its answer, `cleanup` the two handlers of a lost connection and of an exit between their awaits. The loop of one connection takes one frame after the
other, but nothing orders the loops of two: a replaced connection's may be in the midst of a registration (`stale`) while
the next one exits or breaks, and the clean-up of one may empty the table between the insert of a form and its
`RegisterElicitation` in the other. Two requests are not registered at once.
`lost` has the requests that the relay lets go of while it registers them: by such a clean-up, or by a write that
fails, after which a question is shown as pending with no entry and no timer (relay_events.rs:88).

Left out: observers and the limit of fallbacks (in PermissionResolution, same broker), failing writes
of the outbox, a restart of the server, a question asked again under its id, bindings that do not match.

Correct means: one answer reaches the agent, or the expiry, never both (`OneAnswer`); what is sent is what
is shown, what is shown as resolved was taken, and what looks pending can be answered (`ShownIsTrue`);
answers are true and a retryable one can be repeated (`AnswersAreTrue`; this and the former are `ClientsSeeTruth`); every execution
and every question ends (`NothingHangs`). A form that the instance sends twice is excluded from `OneAnswer`
and from the last part of `ShownIsTrue`, because registering it again resets its claim (relay_permission.rs:130).
What is in `lost` is excluded from that last part and from `NothingHangs`: it stays pending and cannot be answered.

### TerminalService

`route`, `owner` and the two counts are `TerminalInner`; the handlers run one at a time under `lifecycle_lock`. The
registry part (`conn`, `online`, `serving`, `greeting`, `cleaning`) is what AckRouting has, as far as terminals
hang on it: `cleaning` are the calls of `on_instance_disconnect` under way. `pty` and `events` are the host of the
instance, `inbox` what its daemon's loop has not handled, in the order in which it will. Output that does not
fit the queue of events is lost and so is a frame for a browser that does not read; both are
`Mishap`s with a bound.

Left out: a second instance; mismatched ids (each open draws fresh ones, so one number is both);
`completed_requests`, which only answers an open that is sent again; refusals that change nothing; inputs
and resizes that succeed (those that fail are in `PtyEnds` and `HandleInput`).

Correct means: no PTY runs that its user cannot reach (`EveryPtyAccounted`); the quotas count what is
there and hold with the opens under way (`QuotaInv`); a route over an old connection is
about to go (`StaleRouteIsCleaned`); a browser sees the output whole and learns of the end
(`StreamInv`); routes and PTYs come to agree (`RoutesAndPtysAgree`).

### ClientChannel

Everything a client gets passes the queue of its connection, `outq`. The fan-out (`fan`, one task, between its
locks) and the ephemeral frames put into it what fits; the executor (`publish`) and the task that closes a
connection (`closing`) wait for a place; the loop of the connection empties it and puts its own replies there.
`work` is what a handler of that loop still has to do, one element for each stretch between awaits. `sub` is
the broadcaster's entry with its backlog, `chan` the handshake, `feed` the channel from the mirror to the fan-out.
An update weighs one, and a frame as much as the updates it holds (`Weight`). `client` is the other end: what it has seen of each document. `gap` and `acts` are history.

Left out: authentication, roles and sizes of frames; what a query or an upload does (it is one reply); a merge
that fails; documents that a client may not see; forms of an action other than a prompt, which differ in what
they negotiate only.

Correct means: a view has or will get each update that was fanned out, in order (`ViewsAreWhole`); backlog and queue
are bounded, nothing is kept for a connection that is gone, and prompts run once, in order, after
the handshake, and only if it negotiated them (`ChannelInv`); an answer is held up by nothing but a loop
that waits for itself (`HeldByOwnQueueOnly`).

## Runs

| run | instance | states | shows |
|---|---|---|---|
| outbox_store | 1 command of any type, 2 digests, 1 piece of evidence, 2 attempts | 527,000 | records, outcomes, barriers, restarts |
| prompt_turn | a prompt and a cancel, each executed twice, with 1 failed write and 1 lost connection; a prompt and 2 cancels for 2 places; 2 prompts and a cancel for 3; an agent that reports ends and asks for permissions, with 1 lost connection; 2 ways the agent ends; fair | 831,000 | turns and answers, queue accounting and order; implements CommandPromise; everyone is answered, the input box is released |
| permission_answers | 1 command executed 3 times, or 2 for one request executed twice and once; a 2nd request, 1 failed write, 1 lost connection; fair | 615,000 | one answer, the one decided; answers true, retryable means retryable, limits kept, every execution ends; implements CommandPromise |
| ack_routing | 3 calls, 2 of them with one key, 2 connections | 194,000 | Ok means taken, offline and rejected mean not taken |
| ack_collision | 2 calls of one foreign key, 1 connection | violation | one answer takes the acknowledgement of another |
| frame_stream | up to 3 frames and 3 connections, one too large for a batch, a disk that fails; fair | 562,000 | order, budget, accounting, gaps, end of a resync; implements OrderedStream |
| chat_lifecycle | 2 chats, 2 sessions (1 stored), 2 events out of closes, losses, late frames, crashes, refusals; fair | 500,000 | reasons of kills, bindings, the recovery barrier, orphans |
| interactive_answers | 2 commands for 1 form or question, each executed twice; 1 failed write, 1 lost connection, 1 replay; fair | 671,000 | one answer, true and as shown; no execution hangs and no registered question; implements CommandPromise |
| question_committed_again | the same, 1 plan | violation | the record of an answered question stays live |
| terminal_service | up to 3 terminals, 2 connections and 2 mishaps in four scenarios; fair | 633,000 | no orphaned PTY, quotas, whole streams, agreement |
| client_channel | 1 or 2 clients, 1 or 2 documents, up to 3 updates and 4 events in three scenarios; fair | 246,000 | whole views, bounded backlogs, the handshake; answers are held by their own loop only |
| client_waits_for_itself | the same | violation | a loop waits for a place in the queue that only it empties |

Deadlock is not checked in any run: with the bounds used up and every command answered the system
rests, and that is its normal end. That it does not stop earlier is what the liveness properties show.

### Bounds

- `MaxAttempts` (OutboxStore) caps `attempt_count`, which no guard reads.
- `MaxTries` caps the executions of one command. Two are the least at which a second execution can
  meet what the first left, and after the second the record is in one of the states it was in before.
  permission_answers has three for one command, for a resumption that meets another.
- `MaxFaults`, `MaxDrops`, `MaxReplays` cap failing writes, lost connections and repeated requests. One drop
  lets the disconnect handler run beside everything else, and a reconnect follow.
- `Plans` (PromptTurn) and `Scenarios` (PermissionResolution) are alternatives, one of which a run chooses at its
  start, so that resubmissions with faults, many commands at once and the agent's own reports do not multiply. The places of the queue are 64 in
  the code. What matters is that it can be full, and that commands are put aside one after another: three
  commands for two and for three places give both.
- `PerCommand`, `Global`, `MaxFallbacks` are 8, 256 and 1024. They are 1 here so that they
  are reached.
- `MaxConns` (AckRouting) 2 has an old and a new connection at once; the proof has no bound.
- One command in outbox_store: no method reads two records. The proof has any number.
- One request that is decided (a second one comes and prunes the table): requests meet only there.
- `MemLimit` 1, `TotalLimit` 2, `BatchLimit` 2 (FrameStream): the segment overflows at the second frame and the
  budget at the third, and a batch takes from both segments. `MaxWork` 7 lets frames and connections share
  one budget, a connection weighs two frames: three frames with two connections, one with three.
  One script has a frame that is too large for a batch, in front of another.
- `MaxEvents` 2 (ChatLifecycle) is one budget for all that users and the world do: each pair of
  a close, a loss, a late frame, a crash and a refusal. `KillAttempts` 2 for five: one repeated kill and the last.
  `MaxReports` 1: a heartbeat is late by as much as the lane is busy.
- `MCBudgets` (TerminalService) are four scenarios, one of which a run chooses at its start: two
  terminals and a lost connection; two and a mishap; one with more output, a lost connection and two mishaps;
  three under a quota of two. The quotas are 4 and 16 in the code, the queue of events 512. An instance with
  two terminals, a chunk, two connections and a mishap all at once (6,600,000 states) keeps the
  invariants too; it takes too long for every day.

- `OutCap` 2, `Soft` 1, `Hard` 2, `PendingLimit` 1 (ClientChannel) are 256 frames, 64 KB, 128 KB and 64 in the code. A backlog
  can be sent, be merged over two documents and overflow; a queue can be full of the loop's own replies.

### Fairness

Weak fairness of the server's and the daemon's own tasks and of nothing else. Tokio polls a ready
task. Each await in the executor is bounded: a forward by `cmd_timeout`, the wait of a prompt by the
inactivity timeout, the wait for a legacy answer by its own. So the executor always has an enabled step
while it works (`CancelTimedOut`, `StopWaiting`, `ForwardUnknown` stand for the time-outs), and weak fairness asks
no more than that one is taken. PromptTurn has one condition for the executor and the handlers
together (`ServerWorks`): while one of them has work, some step is taken. That is weaker than one
condition for each and is enough, because each of them runs out of steps. FrameStream asks it of the hub's
handling, the resync and each loop of the server; ChatLifecycle of the server and of the instance, which
also sends heartbeats while it is connected; InteractiveAnswers of the executor and of the relay with its timers;
TerminalService of the loops of the server, with the sweep's timer, and of the daemon; ClientChannel of the fan-out,
of the executor, of each connection's loop and of the tasks that close one. Nothing is asked of
the network or of the agent, and of clients only in ClientChannel: a step of a loop there may be a write to the
socket, which goes on if the client reads (the code has no time limit for it). The liveness results of the other
modules hold for clients that read, since `publish_terminal` waits for each of them (command_outcome_broker_terminal.rs:68).

### Where code and documents disagree

PROJECT.json lists three findings with the lines they concern and a run that shows each.

- ack_collision: a permission answer is reported committed because it took the acknowledgement of an
  answer of another chat whose agent used the same request id.
- question_committed_again: the record of an answered question is not completed, since the outbox
  refuses the step and the error is dropped. Sent again, the command is accepted and never answered.
- client_waits_for_itself: the loop of a client connection is the only reader of its queue and waits for a place in
  it when it replies. With a full queue it waits for good, and an executor that has an answer for that client
  waits with it, which holds up the chat for everyone (architecture.md:1052).

More were met while modelling and are worked around in the properties, as their comments say:

- A frame between 512 KB and 1 MB at the head of a chat's buffer is larger than a batch, and the resync tries
  it again every 20 ms for ever (resync.rs:61; buffer.rs:305): nothing behind it is sent. So it does, on purpose,
  while the disk cannot be read (buffer.rs:341). `ResyncEnds` without its exception `Blocked` is violated.
- A question whose write fails is shown as pending, and nothing ends it: `submit` returns before the question enters
  the relay's table and gets its timer (relay_events.rs:88; architecture.md:784). With the server's own sink a
  write fails only for a document that is not known (hub_sink.rs:214). `NothingHangs` and `ClientsSeeTruth` except it.
- After an option was refused the record stays live, and the same command sent again observes an execution
  that is over; a duplicate strands observers likewise (permission_resolution.rs:149, queued_actions.rs:267;
  architecture.md:71).
- The handler of a lost connection removes the registration of a prompt that started over the next
  one, which then ends as DELIVERY_UNKNOWN (relay_disconnect.rs:52).
- With two resubmissions queued between recovery material and barrier, the second is executed after the first
  committed and fails (command_outcome_broker_recovery.rs:71; architecture.md:395).
- The turn of a prompt whose delivery is unknown ends, on purpose (prompt_delivery_finalize.rs:450), where
  architecture.md:893 says this must never happen.
- A prompt is registered after its forward was acknowledged, so a connection that breaks in between
  leaves a running turn that the disconnect handler does not interrupt (architecture.md:966 says all
  are); it ends with the outcome of its forward.
- `clear_for_retry` itself would accept a record behind the barrier.
- A session can be bound away from a chat that lives (chat_binding.rs:90; comment at :58).
- A closed chat can leave its final state (chat_registry.rs:381).
- The condition ChatGap is one flag for all chats, cleared by the first that recovers
  (doc_manager_persist.rs:386; architecture.md:1493).
- A resync that fails because the queue of the new connection is not set yet is not started again until the
  next connection, and its chat stays buffered (transport/conn.rs:183); so is a frame that was put
  into the buffer after the resync had found it empty (hub/forward.rs:172; architecture.md:1107).
- A form that is replayed after a reconnect resets its claim (relay_permission.rs:130; architecture.md:772).
- The clean-up of an earlier connection may empty the table of forms while the loop of the next one is between the
  insert and the document: the form is then shown as pending and cannot be answered (relay_disconnect.rs:67, relay_permission.rs:130).
- A permission that is refused shows its turn as cancelled while the agent still works on it (doc_manager_apply_command.rs:191).
- The clean-up after a connection does not ask whether a new one has come: it ends terminals of the new
  connection (terminal_service_instance.rs:322, gateway_instance_loop.rs:335 against its comment).

- An update that is fanned out between the snapshot of a document and its subscription reaches the client neither way
  (gateway_client_loop.rs:421, hub_sink.rs:3); `ViewsAreWhole` allows for it (`gap`).
- A backlog of two frames or more below the soft threshold waits for more bytes: the next frame alone
  does not send it (broadcaster.rs:231 against its comment at :249).
- A write to a client's socket has no time limit, and while it blocks the tick that would end the connection with 4501
  does not run (gateway_client_loop.rs:344; the instance side has 10 s, architecture.md:1118).

## Proofs

OutboxStore_proofs, for any set of commands, digests and evidence and any number of attempts, from
`NoneIsNothing` and `AttemptsAssumption` only. The argument is made on single records. `Sound(r)` says a record
is typed, its barrier is where one may be and its stamp fits its status; `StepSound(r, s)` adds what a step
may never do. `RecordStep` proves `StepSound` for all store calls, `PassStep` and `PromptPassStep` for the passes.
The inductive invariant `IInv` is `TypeOK /\ BarrierShape /\ DispatchStamp /\ PassesDone`: the last says that a pass
that has run left no live record of its type, without which `ConvergedBeforeServing` is not inductive, and
the second is needed there too, since a pass skips records it believes to have no barrier. Proved are
the two invariants of the run and its two action properties.

Connections_proofs has the proofs about both kinds of connections; AckRouting prefixes names that ClientChannel has too.
About AckRouting, for any set of calls and keys and any number of connections, from `AckAssumption`.
`DeliveryTheorem` also assumes `SerialKeys`, that every key is serial; ack_collision shows that
it fails without. The inductive invariant `AckInv` adds to the types: one call of a key at a time has a
frame whose fate is open (`OneBusyCall`), a registration belongs to a call that waits (`SlotIsWaiting`), and
only the call's own acknowledgement fills its oneshot (`OwnAnswer`). The step that matters is `OnAck`: lemma
`OwnSlot` shows that a late acknowledgement finds its own call or nobody. `ConnectionTheorem` needs no
assumption on keys.

About ClientChannel, for any connections and prompts, any finite set of documents, any capacity of the queue, any two thresholds and any
budgets, from `ClientChannelAssumption`. Proved are `ViewsAreWhole` and `ChannelInv`. The inductive
invariant `ClientInv` has five parts, each with its `Init` and `Next` lemma. `Types` gives frames, steps and queues their shape.
`FanInv` is about the fan-out and the broadcaster's entries: a connection that the fan-out still has to
deliver to has an entry as long as it is open, who has no entry has no backlog, and only the one that is about to be closed
is over the threshold. The count of a backlog is its weight after a cut as well as after a frame was added (`WeightAppend`, `WeightCut`).
`ActsInv` says that what a client sent is what was begun, then what its handler has to begin (`ToBegin`), then what is kept for after the
handshake, and that a handler is never asked to do anything between two prompts (`Shaped`). `FeedOrder` compares, for each
document, what the client has last, what its queue, its backlog, the fan-out and the feed hold:
each holds increments older than the next, and none newer than the mirror. `Whole` is `ViewsAreWhole` with
one strengthening: it also holds for who is about to subscribe and has the snapshot already, in its handler's
hands, in the queue or seen. Without that the step that subscribes cannot be justified. What was on its way is never lost by a step
(`Reaches`) but by the two that are excepted: a fan-out to who is not subscribed goes to `gap`, and a backlog that is too heavy is closed.
The lemmas on frames are shared: what a sequence holds of a document, and in which order, after an append, a `Tail`, a
cut and a merge (`Appended`, `Taken`, `CutFrames`, `MergedFrames`).

TerminalService_proofs, for any browsers, principals, quotas and bounds, from `TerminalAssumption`. Proved are
`QuotaInv`, `StaleRouteIsCleaned`, `StreamInv` and `EveryPtyAccounted`. The counts are kept by hand on eight paths that remove a
route, and each proof step shows that one of them takes out as many as it subtracts (`CountInv`: types,
owners of routes, balance and quotas together, since admission reads the counts). `StaleRouteIsCleaned`
is not inductive: after a connection ended, the instance is not served but its routes are there until
the clean-up runs, and a second end does not ask for another. `UnservedIsCleaned` says that while
the instance is not served there are no routes or a clean-up is due.
The other two rest on `TInv`. `Shape` ties what a browser has seen to its route and to the route's
`next_output_seq`, and `Caught` says that who missed a frame has lost the terminal. `Lines` says that a route over
the daemon's connection hangs on the registered one and none on a connection that still greets, so a close
goes where the PTY is and a hello loses no PTY. `OpensFirst` and `Handled` say that the daemon handles an open once and
before whatever closes it. With these, `Accounted` says of an open in the inbox what `EveryPtyAccounted` says of a PTY: it is
followed there by what ends it, or its user still reaches it. The invariant is stronger than what first was
stated: the proof showed that the close which answers a late announcement is a second safeguard, never the only
one, so the property no longer counts it.

PermissionResolution_proofs, for any commands, requests, clients and asks, any limits of the broker and any
number of executions, document faults and disconnects, from `NoneIsNothing` and `PermissionAssumption` (the
recovery material is the request it answers, and `None` is neither a command nor an answer). Proved are `OneAnswerToAgent`, `SentAsDecided` and `AnswersInv`.
None is inductive. For the first two, a command is `Entitled` to a request once it holds the recovery material, has decided
or has sent. `OneEntitled` says that no two commands are entitled to one request, for two reasons that need
each other. The claim in the table of the relay keeps a second command from the material only while the
entitled one has the claim or the request has left the table (`EntitledClaims`). The compare-and-set in the document
keeps a second one from deciding, also without material, because whoever has the claim is about to decide, has
decided, or finds the chat closed (`ClaimDecides`). `Shown` makes a late registration harmless: the table is filled before
the document shows the request, and nobody can have claimed it by then. `SentIsFinal` then has the outbox let an
entitled command send once (`OneSent`). The steps that end an execution share one lemma (`Ends`), those
that go on another (`Moves`), those of the environment a third (`Background`); `Claims` and `Decides` are the two
that make a command entitled. `AnswersInv` is about what the clients hear, and needs an invariant of its own, `AInv`.
The attempts of a command are executed in the order in which they were enqueued (`InOrder`), so the last one has its answer only
when none is left that could touch the record. `Settled` says what a record may be between two executions, and
`Truthful` and `Retried` tie the answers given to it. The hard case is the command with a fallback that holds recovery
material: a retryable answer to it would be a lie, as nobody executes it again. `Forsaken` says that this never happens, since the
request was decided otherwise, can no longer be claimed, or the record is final (`Shut`).

PromptTurn_proofs, for any commands, any places in the queue and any number of executions, failed writes and lost
connections. Proved are all safety properties of the run, and `AtMostOnce`. The executions of a command are numbered,
and the inductive invariant sorts them: those ahead have left no trace, one waits in the
queue or runs, those behind were answered. Two executions of a command cannot both reach the agent because
the record's barrier lets only a proof of non-delivery start the next. That a turn keeps the end it was shown with is shown for each
command on the documents; `AgentEndsTurn` is the one step that replaces an end, and `Calibrates` lets it replace
interrupted only. The exception that
makes the argument long is a cancel that withdraws a prompt before it was sent (`Withdrawn`): the one
attempt that is executed but not the current one. The queue needs an invariant of its own, `ReserveBalance`: the reserve counts what the channel
and the deferred queue hold, and the command in the executor's hands.

InteractiveAnswers_proofs, for any commands, asks, limits and faults, from the assumption that `None` is no command, ask or
verdict. Proved are `OneAnswer`, `AnswersAreTrue` and `ShownIsTrue`. Executions are numbered here too. Whatever was sent was decided by
the document before (`Agreed`). For a form the claim belongs to the command that decided (`Owned`), unless the form was
replayed; then it is the final status in the outbox that lets this command send once. A question chooses one winner, and
who holds recovery material has decided. What is shown as pending is in the table, in the midst of its registration, due to be
expired, or in `lost`; as the clean-ups may run at any moment of a registration, the invariant follows
each of its two steps. `NothingHangs`, liveness, stays with TLC.

ChatLifecycle_proofs, for any chats and sessions, any number of connections and any bounds on faults, frames and kill
attempts, from `LifecycleAssumption` (a chat is not one of the names that stand for other callers). Proved are `RegistryInv`, `FailedMeansDead`, `KillsAreDeserved` and
`BarrierNeedsCurrent`. A kill is decided long before it is executed, so the invariant is about what is on its way: `HuntInv` and `LineInv` say that each
kill that is planned, repeated, recorded or sent is for a chat that is `Hunted`, and lemma `HuntedStays` that a
reason for a kill outlasts every step (`Lasts`). `FramesOf` follows the frames of a create: one at a time awaits an answer,
nothing of the create can be executed after the kill that ends it, and a create that has not sent its spawn has no process. `BindingInv` says that
a chat's session leads back to it, and what a create under way may assume of a session between reading the
holder and taking it. `BarrierInv` carries what the snapshot found from the comparison to the end of the barrier.

FrameStream_proofs, for any script of the agent, any number of connections and any limits of the buffer, from
`StreamAssumption` and `BufferAssumption`. Proved are `BufferInv`, `GapIsShown`, `ShownOnce` and the refinement of
OrderedStream, `InOrderOnce`. The lemmas about the buffer come first: what each of its operations holds, counts and
drops, wherever a batch stops (`PushSound`, `DrainSound`, `CommitSound`, `RollbackSound`). The hard one is that eviction takes as many frames as it is
asked to (`EvictedCount`); it rests on ranks in a set of positions, where `RankOnto` finds a
member of every rank by taking the least position that is far enough. The inductive invariant adds that the batch in flight is the one
the resync task holds and that it was written before it is committed (`BatchInv`), without which a commit could
forget frames nobody sent; that a loop which handles a frame still runs (`LoopInv`), without which a
late frame could clear the gap of an instance that is gone; and that the stream's last
frame is the last and the greatest of those it took (`ChatInv`), which is what the two steps that take a frame need to
be steps of OrderedStream.

The refinement of CommandPromise is proved in the three modules about commands (`PromptsKeepPromise`,
`DecisionsKeepPromise`, `AnswersKeepPromise`), from no further assumption. Each takes the inductive invariant from before and
shows of each action that it is one step of the abstract specification or a stutter. Most are stutters. The work is in three
places. A submit is an `Accept` only if a record that may be executed again means that no execution was sent, whatever
became of those before. The step that sends is a `Send` only if it sends for the first time. An answer is an `Answer` only if the
execution had none and what it says is true of the frame. PromptTurn's invariant says all that already. The other two need `RaisedInv` too: the barrier stands while an answer is on its
way (and a question leaves no recovery material behind), so nothing resumes what the agent has heard of. PermissionResolution
takes it together with both of its invariants, `IInv` and `AInv`.

Every safety property that a passing run checks is proved. Only model-checked is liveness
(`NobodyWaits`, `EveryExecutionAnswered`, `ResyncEnds`, `BarrierOpens`, `OrphansDie`, `NothingHangs`,
`RoutesAndPtysAgree`, `HeldByOwnQueueOnly`): under fairness it is out of the proof system's reach.

## Not modelled

PROJECT.json gives the reason for each part. In short: I/O without a protocol of its own (resources,
voice, launcher, authentication, presentation), pure translation (protocol, wire types), and the
parts of the plan below. Timestamps, texts and payloads are abstracted everywhere. Each model of
commands has one chat in one life of the server; what a restart does to records is OutboxStore's, what it
does to chats ChatLifecycle's.

## Plan

Done are the command path, the answers to agents, the stream of frames and its way to the clients, the life of
chats and the terminals. Left, in this order:

1. Shutdown of document writers; more than one form of action in ClientChannel.
2. Machine service: processes over ssh, desired and actual state.
3. Metadata commands: transactions with idempotence keys; resource uploads and mutations.
