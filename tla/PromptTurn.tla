----------------------------- MODULE PromptTurn -----------------------------
(***************************************************************************)
(* The life of prompts and cancels on one chat, from the client's submit   *)
(* to the terminal answer: the bounded queue and its executor              *)
(* (queued_submission.rs), prompt delivery (prompt_delivery*.rs), turn     *)
(* cancellation (turn_cancellation.rs), the registry of active turns       *)
(* (chat_turns.rs), the handlers of an instance disconnect and of a        *)
(* process exit (relay_disconnect.rs), all sharing the chat's documents    *)
(* (TurnProjection) and its outbox (OutboxRecord).                         *)
(*                                                                         *)
(* One action is what runs between two awaits at which another task can    *)
(* interfere.  The executor is one task: while it awaits exec_cancel the   *)
(* future of the prompt is not polled, so a nested cancel and the prompt   *)
(* never interleave, but both interleave with the handlers, the instance   *)
(* and the agent.  An attempt <<c, n>> is the n-th execution of command c; *)
(* it also serves as the turn id that submit draws for a prompt.           *)
(***************************************************************************)
EXTENDS OutboxRecord, Sequences, SequencesExt

CONSTANTS Prompts, Cancels,  \* command ids, by type
          Stops,             \* what the agent answers to session/prompt, or reports as
                             \* the end of a turn
          MaxTries,          \* bound: executions of one command
          Plans              \* bounds of a run: the places of the queue (DocManager's
                             \* chat_queue), the executions of each command, the
                             \* document writes that fail to persist, the losses of
                             \* the instance connection, and what the agent reports on
                             \* its own besides output; one is chosen

Commands == Prompts \cup Cancels
Attempts == Commands \X (1..MaxTries)

ASSUME PromptTurnAssumption ==
    /\ Prompts \cap Cancels = {} /\ None \notin Attempts
    /\ Fingerprints # {}
    /\ MaxTries \in Nat \ {0}
    /\ Plans \subseteq [places : Nat \ {0}, tries : [Commands -> 0..MaxTries],
                        faults : Nat, drops : Nat,
                        reports : SUBSET {"end", "permission"}]
    /\ Stops \subseteq {"completed", "failed", "cancelled", "error"}

IsPrompt(t) == t[1] \in Prompts

INSTANCE TurnProjection WITH Turns <- Attempts, NoTurn <- None

VARIABLES
    plan,      \* the bounds
    outbox,    \* the record of every command
    tries,     \* how often each command was accepted as new
    queue,     \* the executor's channel rx
    deferred,  \* what the executor took from rx and put aside
    inflight,  \* DocManager's reserve counter
    prompt,    \* the prompt being delivered
    cancel,    \* the cancel being executed, alone or inside the wait of a prompt
    loop,      \* what executor_loop does besides polling the prompt
    active,    \* ChatRegistry.active_turns of this chat
    response,  \* the oneshot of the registered rpc
    doc, faults,     \* the documents, and the failed writes so far
    agent,     \* where the frame of each attempt got to
    link, drops,     \* the instance connection, and its losses so far
    disc,      \* on_instance_disconnect
    exit,      \* on_process_exit
    verdict,   \* the terminal answer of each attempt
    backlog    \* history: accepted commands that have not started, in order

intake == <<plan, tries, queue, deferred, backlog>>
docs == <<doc, faults>>
world == <<agent, link, drops, disc, exit>>
vars == <<outbox, intake, inflight, prompt, cancel, loop, active, response, docs, world, verdict>>

PromptPcs == {"idle", "register", "failing", "undeliver", "prepare", "forward", "dispatched",
              "wait", "adjudge", "terminal", "entry", "existing", "close",
              "unknown", "downgrade", "giveup"}
CancelPcs == {"idle", "intent", "mark", "forward", "settle", "close", "blurred"}
NoPrompt == [turn |-> None, pc |-> "idle", note |-> None]
NoCancel == [turn |-> None, pc |-> "idle", target |-> None]

TypeOK ==
    /\ plan \in Plans
    /\ outbox \in [Commands -> Record]
    /\ tries \in [Commands -> 0..MaxTries]
    /\ queue \in Seq(Attempts) /\ deferred \in Seq(Attempts) /\ backlog \in Seq(Attempts)
    /\ inflight \in 0..plan.places
    /\ prompt \in [turn : Attempts \cup {None}, pc : PromptPcs, note : Codes \cup Stops \cup {None}]
    /\ cancel \in [turn : Attempts \cup {None}, pc : CancelPcs, target : Attempts \cup {None}]
    /\ loop \in {"off", "signalled", "reading", "awaiting"}
    /\ active \in Attempts \cup {None}
    /\ response \in Stops \cup {"none"}
    /\ doc \in Doc /\ faults \in 0..plan.faults
    /\ agent \in [Attempts -> {"away", "wire", "running", "answered"}]
    /\ link \in {"up", "down"} /\ drops \in 0..plan.drops
    /\ disc \in [pc : {"idle", "read", "interrupt", "clear"}, turn : Attempts \cup {None}]
    /\ exit \in {"alive", "marked", "gone"}
    /\ verdict \in [Attempts -> {"none", "committed", "retryable", "failed", "unknown"}]

Init ==
    /\ plan \in Plans
    /\ outbox = [c \in Commands |-> Absent]
    /\ tries = [c \in Commands |-> 0]
    /\ queue = <<>> /\ deferred = <<>> /\ backlog = <<>>
    /\ inflight = 0
    /\ prompt = NoPrompt /\ cancel = NoCancel /\ loop = "off"
    /\ active = None /\ response = "none"
    /\ doc = EmptyDoc /\ faults = 0
    /\ agent = [t \in Attempts |-> "away"]
    /\ link = "up" /\ drops = 0
    /\ disc = [pc |-> "idle", turn |-> None]
    /\ exit = "alive"
    /\ verdict = [t \in Attempts |-> "none"]

-----------------------------------------------------------------------------
(* Submission.  Deduplication, reservation, insertion and enqueueing are   *)
(* one critical section (the gate).  A submit of a command whose record is *)
(* present only answers or attaches an observer, and one that finds the    *)
(* queue full only answers: neither changes anything kept here.            *)

\* The record submit hands to the executor.
AcceptedRecord(c) ==
    IF c \in Prompts
    THEN SetPromptPayloadFingerprint(MarkAccepted(Insert("prompt")),
                                     CHOOSE fp \in Fingerprints : TRUE)
    ELSE MarkAccepted(Insert("cancel"))

Submit(c) ==
    LET t == <<c, tries[c] + 1>>
    IN  /\ CanInsert(outbox[c])
        /\ tries[c] < plan.tries[c]
        /\ inflight < plan.places
        /\ outbox' = [outbox EXCEPT ![c] = AcceptedRecord(c)]
        /\ tries' = [tries EXCEPT ![c] = @ + 1]
        /\ queue' = Append(queue, t)
        /\ inflight' = inflight + 1
        /\ backlog' = Append(backlog, t)
        /\ UNCHANGED <<plan, deferred, prompt, cancel, loop, active, response, docs, world, verdict>>

-----------------------------------------------------------------------------
(* executor_loop.                                                          *)

Begin(t) ==
    /\ \E i \in DOMAIN backlog : backlog[i] = t /\ backlog' = RemoveAt(backlog, i)
    /\ IF IsPrompt(t)
       THEN prompt' = [turn |-> t, pc |-> "register", note |-> None] /\ UNCHANGED cancel
       ELSE cancel' = [turn |-> t, pc |-> "intent", target |-> None] /\ UNCHANGED prompt

StartNext ==
    /\ prompt = NoPrompt /\ cancel = NoCancel
    /\ \/ deferred # <<>> /\ Begin(Head(deferred))
          /\ deferred' = Tail(deferred) /\ UNCHANGED queue
       \/ deferred = <<>> /\ queue # <<>> /\ Begin(Head(queue))
          /\ queue' = Tail(queue) /\ UNCHANGED deferred
    /\ UNCHANGED <<plan, outbox, tries, inflight, loop, active, response, docs, world, verdict>>

\* The active signal was received: rx is read only if the turn is still active.
EnterLoop ==
    /\ loop = "signalled"
    /\ loop' = IF active = None THEN "awaiting" ELSE "reading"
    /\ UNCHANGED <<outbox, intake, inflight, prompt, cancel, active, response, docs, world, verdict>>

\* Mutant: what is put aside goes to the front.
PutAsideInFront(t) == deferred' = <<t>> \o deferred
PutAside(t) == deferred' = Append(deferred, t)

\* While the prompt is awaited: a cancel is executed at once if the turn is
\* still active, and otherwise put aside, as every other command is.
ReadNext ==
    /\ loop = "reading" /\ cancel = NoCancel
    /\ queue # <<>>
    /\ queue' = Tail(queue)
    /\ LET t == Head(queue)
       IN  \/ /\ ~IsPrompt(t) /\ active = prompt.turn
              /\ Begin(t)
              /\ UNCHANGED <<deferred, loop>>
           \/ /\ ~IsPrompt(t) /\ active # prompt.turn
              /\ PutAside(t)
              /\ loop' = "awaiting"
              /\ UNCHANGED <<prompt, cancel, backlog>>
           \/ /\ IsPrompt(t)
              /\ PutAside(t)
              /\ UNCHANGED <<prompt, cancel, loop, backlog>>
    /\ UNCHANGED <<plan, outbox, tries, inflight, active, response, docs, world, verdict>>

-----------------------------------------------------------------------------
(* Steps the executor's actions are built from.                            *)

\* One command submitted to the chat's writer. A write that fails to persist is
\* applied in memory all the same, but reported as PersistFailed.
Write(after, persisted) ==
    /\ doc' = after
    /\ persisted \/ faults < plan.faults
    /\ faults' = IF persisted THEN faults ELSE faults + 1

Store(t, accepted, after) ==
    /\ accepted
    /\ outbox' = [outbox EXCEPT ![t[1]] = after]

\* Mutant: an answer of unknown delivery keeps its place in the queue.
AnswerKeepsReserve(t, v) ==
    /\ verdict' = [verdict EXCEPT ![t] = v]
    /\ inflight' = IF v = "unknown" THEN inflight ELSE inflight - 1
\* send_committed or send_error, then finish_execution with release_reserve.
Answer(t, v) ==
    /\ verdict' = [verdict EXCEPT ![t] = v]
    /\ inflight' = inflight - 1

PromptAt(pc) == prompt.pc = pc /\ cancel = NoCancel
Goto(pc) == prompt' = [prompt EXCEPT !.pc = pc]

EndPrompt(v) ==
    /\ Answer(prompt.turn, v)
    /\ prompt' = NoPrompt
    /\ loop' = "off"
    /\ response' = "none"

CancelAt(pc) == cancel.pc = pc
CancelGoto(pc) == cancel' = [cancel EXCEPT !.pc = pc]

\* After a nested cancel the loop reads on only if the turn is still active.
EndCancel(v, registry) ==
    /\ Answer(cancel.turn, v)
    /\ cancel' = NoCancel
    /\ active' = registry
    /\ loop' = IF loop = "reading" /\ registry # prompt.turn THEN "awaiting" ELSE loop

PromptRecord == outbox[prompt.turn[1]]
CancelRecord == outbox[cancel.turn[1]]

-----------------------------------------------------------------------------
(* Prompt delivery up to the wait (prompt_delivery.rs).                    *)

\* The early return on another active turn is not an alternative here: the guard
\* says that it is never taken, and OneTurnAtATime checks that.
RegisterEntry ==
    /\ PromptAt("register") /\ active = None
    /\ \E persisted \in BOOLEAN :
          /\ Write(Register(doc, prompt.turn), persisted)
          /\ prompt' = [prompt EXCEPT !.pc = IF persisted THEN "prepare" ELSE "failing",
                                      !.note = IF persisted THEN None ELSE "AGENT_UNAVAILABLE"]
    /\ UNCHANGED <<outbox, intake, inflight, cancel, loop, active, response, world, verdict>>

\* Intent; then the runtime's entry, its binding and the translation; then the
\* rpc is registered and the barrier raised.
Prepare ==
    /\ PromptAt("prepare")
    /\ \E fp \in Fingerprints :
          LET durable == MarkPromptIntentDurable(PromptRecord, fp)
          IN  /\ CanMarkPromptIntentDurable(PromptRecord, fp)
              /\ \/ /\ Store(prompt.turn, CanMarkDispatchBarrier(durable), RaiseBarrier(durable))
                    /\ Goto("forward")
                 \/ \E code \in {"CHAT_NOT_FOUND", "INVALID_STATE"} :
                       /\ Store(prompt.turn, TRUE, durable)
                       /\ prompt' = [prompt EXCEPT !.pc = "failing", !.note = code]
    /\ UNCHANGED <<intake, inflight, cancel, loop, active, response, docs, world, verdict>>

\* fail_before_dispatch: the outbox first, then the documents. The record cannot
\* be behind the barrier here, so mark_failed never makes it delivery_unknown.
MarkNotDelivered ==
    LET err == FromErrorCode(prompt.note)
    IN  /\ PromptAt("failing")
        /\ Store(prompt.turn, CanMarkFailed(PromptRecord, err), MarkFailed(PromptRecord, err))
        /\ Goto("undeliver")
        /\ UNCHANGED <<intake, inflight, cancel, loop, active, response, docs, world, verdict>>

ProjectNotDelivered ==
    /\ PromptAt("undeliver")
    /\ \E persisted \in BOOLEAN : Write(EntryNotDelivered(doc, prompt.turn), persisted)
    /\ EndPrompt(IF DefaultRetryable(prompt.note) THEN "retryable" ELSE "failed")
    /\ UNCHANGED <<outbox, intake, cancel, active, world>>

\* forward_rpc, acknowledged by the instance once the agent's stdin took the frame.
ForwardAcked ==
    /\ PromptAt("forward")
    /\ link = "up" /\ exit = "alive"
    /\ agent' = [agent EXCEPT ![prompt.turn] = "running"]
    /\ Goto("dispatched")
    /\ UNCHANGED <<outbox, intake, inflight, cancel, loop, active, response, docs,
                   link, drops, disc, exit, verdict>>

\* Mutant: a failed forward is taken for a prompt that never left.
ForwardErrorRetires ==
    /\ PromptAt("forward")
    /\ \E where \in {"away"} \cup (IF link = "up" THEN {"wire"} ELSE {}) :
          agent' = [agent EXCEPT ![prompt.turn] = where]
    /\ Store(prompt.turn, TRUE, ClearForRetry(PromptRecord))
    /\ EndPrompt("retryable")
    /\ UNCHANGED <<intake, cancel, active, docs, link, drops, disc, exit>>
\* forward_rpc failed: offline, refused, timed out or the connection went. The
\* frame may be on its way all the same, and only then if the link was up.
ForwardError ==
    /\ PromptAt("forward")
    /\ \E where \in {"away"} \cup (IF link = "up" THEN {"wire"} ELSE {}) :
          agent' = [agent EXCEPT ![prompt.turn] = where]
    /\ Goto("unknown")
    /\ UNCHANGED <<outbox, intake, inflight, cancel, loop, active, response, docs,
                   link, drops, disc, exit, verdict>>

\* Dispatched, registered as active, and only then announced to the loop.
Activate ==
    /\ PromptAt("dispatched")
    /\ Store(prompt.turn, CanMarkDispatched(PromptRecord), MarkDispatched(PromptRecord))
    /\ active' = prompt.turn
    /\ loop' = "signalled"
    /\ Goto("wait")
    /\ UNCHANGED <<intake, inflight, cancel, response, docs, world, verdict>>

-----------------------------------------------------------------------------
(* Prompt delivery from the wait on (prompt_delivery_finalize.rs).         *)

TakeResponse ==
    /\ PromptAt("wait") /\ response \notin {"none", "error"}
    /\ Store(prompt.turn, CanMarkDeliveryConfirmed(PromptRecord),
             MarkDeliveryConfirmed(PromptRecord))
    /\ prompt' = [prompt EXCEPT !.pc = "terminal", !.note = response]
    /\ UNCHANGED <<intake, inflight, cancel, loop, active, response, docs, world, verdict>>

\* The wait ends without a result: a JSON-RPC error, a turn that is no longer the
\* active one, or silence for longer than the inactivity timeout.
StopWaiting ==
    /\ PromptAt("wait")
    /\ response \in {"none", "error"} \/ active # prompt.turn
    /\ Goto("adjudge")
    /\ UNCHANGED <<outbox, intake, inflight, cancel, loop, active, response, docs, world, verdict>>

\* projected_turn_is_terminal decides between the two ways out.
Adjudge ==
    /\ PromptAt("adjudge")
    /\ Goto(IF ShownTerminal(doc, prompt.turn) THEN "existing" ELSE "unknown")
    /\ UNCHANGED <<outbox, intake, inflight, cancel, loop, active, response, docs, world, verdict>>

\* SetTurnTerminal with the status the result names. A refusal (not a failed
\* write) looks for a terminal that is there already, as Adjudge does.
ProjectTerminal ==
    /\ PromptAt("terminal")
    /\ \E persisted \in BOOLEAN :
          /\ Write(SetTerminal(doc, prompt.turn, prompt.note), persisted)
          /\ Goto(IF ~persisted THEN "unknown"
                  ELSE IF TerminalAccepted(doc, prompt.turn, prompt.note) THEN "entry"
                  ELSE "adjudge")
    /\ UNCHANGED <<outbox, intake, inflight, cancel, loop, active, response, world, verdict>>

\* commit_existing_terminal starts with a confirmation the record may have already.
ConfirmExisting ==
    /\ PromptAt("existing")
    /\ Store(prompt.turn, TRUE, IF CanMarkDeliveryConfirmed(PromptRecord)
                                THEN MarkDeliveryConfirmed(PromptRecord) ELSE PromptRecord)
    /\ Goto("entry")
    /\ UNCHANGED <<intake, inflight, cancel, loop, active, response, docs, world, verdict>>

CompleteEntry ==
    /\ PromptAt("entry")
    /\ \E persisted \in BOOLEAN :
          /\ Write(EntryCompleted(doc, prompt.turn), persisted)
          /\ Goto(IF persisted THEN "close" ELSE "unknown")
    /\ UNCHANGED <<outbox, intake, inflight, cancel, loop, active, response, world, verdict>>

\* Projection committed, completed; the registry is cleared whatever turn it holds.
Commit ==
    /\ PromptAt("close")
    /\ Store(prompt.turn, CanMarkProjectionCommitted(PromptRecord),
             MarkCompleted(MarkProjectionCommitted(PromptRecord)))
    /\ active' = None
    /\ EndPrompt("committed")
    /\ UNCHANGED <<intake, cancel, docs, world>>

\* delivery_unknown: the record and the entry, the turn, the registry.
MarkUnknown ==
    /\ PromptAt("unknown")
    /\ Store(prompt.turn, TRUE, IF CanMarkDeliveryUnknown(PromptRecord)
                                THEN MarkDeliveryUnknown(PromptRecord) ELSE PromptRecord)
    /\ \E persisted \in BOOLEAN : Write(EntryUnknown(doc, prompt.turn), persisted)
    /\ Goto("downgrade")
    /\ UNCHANGED <<intake, inflight, cancel, loop, active, response, world, verdict>>

\* Mutant: the turn is left as it is.
SkipDowngrade ==
    /\ PromptAt("downgrade")
    /\ Goto("giveup")
    /\ UNCHANGED <<outbox, intake, inflight, cancel, loop, active, response, docs, world, verdict>>
FailTurn ==
    /\ PromptAt("downgrade")
    /\ \E persisted \in BOOLEAN : Write(SetTerminal(doc, prompt.turn, "failed"), persisted)
    /\ Goto("giveup")
    /\ UNCHANGED <<outbox, intake, inflight, cancel, loop, active, response, world, verdict>>

GiveUp ==
    /\ PromptAt("giveup")
    /\ active' = None
    /\ EndPrompt("unknown")
    /\ UNCHANGED <<outbox, intake, cancel, docs, world>>

-----------------------------------------------------------------------------
(* Turn cancellation (turn_cancellation.rs).                               *)

\* resolve_active_turn_id: the registry, or else the documents.
ResolvedTurn ==
    IF active # None THEN active ELSE IF Loading(doc) THEN doc.turn ELSE None

\* Intent; then the runtime's entry, its binding and the translation; then the
\* turn to cancel is looked up: a cancel names its chat only.
CancelIntent ==
    LET durable == MarkIntentDurable(CancelRecord)
    IN  /\ CancelAt("intent")
        /\ CanMarkIntentDurable(CancelRecord)
        /\ \/ /\ Store(cancel.turn, TRUE, durable)
              /\ cancel' = [cancel EXCEPT !.pc = "mark", !.target = ResolvedTurn]
              /\ UNCHANGED <<loop, active, verdict, inflight>>
           \/ \E code \in {"CHAT_NOT_FOUND", "INVALID_STATE"} :
                 /\ Store(cancel.turn, TRUE,
                          MarkFailed(durable, [code |-> code, retryable |-> FALSE]))
                 /\ EndCancel("failed", active)
        /\ UNCHANGED <<intake, prompt, response, docs, world>>

\* MarkTurnCancelling must be applied, then the barrier is raised.
CancelMark ==
    /\ CancelAt("mark") /\ cancel.target # None
    /\ \E persisted \in BOOLEAN :
          /\ Write(MarkCancelling(doc, cancel.target), persisted)
          /\ IF persisted /\ Owns(doc, cancel.target)
             THEN /\ Store(cancel.turn, CanMarkNoRedeliveryBarrier(CancelRecord),
                           RaiseBarrier(CancelRecord))
                  /\ CancelGoto("forward")
                  /\ UNCHANGED <<loop, active, verdict, inflight>>
             ELSE /\ Store(cancel.turn, TRUE,
                           MarkFailed(CancelRecord, FromErrorCode("INVALID_STATE")))
                  /\ EndCancel("failed", active)
    /\ UNCHANGED <<intake, prompt, response, world>>

CancelNothingActive ==
    /\ CancelAt("mark") /\ cancel.target = None
    /\ Store(cancel.turn, CanMarkNoRedeliveryBarrier(CancelRecord), RaiseBarrier(CancelRecord))
    /\ CancelGoto("forward")
    /\ UNCHANGED <<intake, inflight, prompt, loop, active, response, docs, world, verdict>>

\* forward_notification, acknowledged by the instance.
CancelAcked ==
    /\ CancelAt("forward")
    /\ link = "up" /\ exit = "alive"
    /\ agent' = [agent EXCEPT ![cancel.turn] = "running"]
    /\ Store(cancel.turn, CanMarkDispatched(CancelRecord),
             MarkDeliveryConfirmed(MarkDispatched(CancelRecord)))
    /\ CancelGoto("settle")
    /\ UNCHANGED <<intake, inflight, prompt, loop, active, response, docs,
                   link, drops, disc, exit, verdict>>

\* Offline and UnknownInstance come before anything is sent, ForwardRejected is the
\* instance's word that it was not written: the barrier is lowered again.
CancelNotDelivered ==
    /\ CancelAt("forward")
    /\ \E err \in {FromErrorCode("INSTANCE_OFFLINE"), FromErrorCode("AGENT_UNAVAILABLE")} :
          /\ err.code = "INSTANCE_OFFLINE" => link = "down"
          /\ Store(cancel.turn, CanMarkCancelNotDelivered(CancelRecord),
                   MarkFailed(LowerBarrier(CancelRecord, err), err))
          /\ EndCancel(IF DefaultRetryable(err.code) THEN "retryable" ELSE "failed", active)
    /\ UNCHANGED <<intake, prompt, response, docs, world>>

\* Mutant: a timeout counts as proof of non-delivery.
CancelTimeoutIsProof ==
    LET err == FromErrorCode("AGENT_UNAVAILABLE")
    IN  /\ CancelAt("forward") /\ link = "up"
        /\ \E where \in {"away", "wire"} : agent' = [agent EXCEPT ![cancel.turn] = where]
        /\ Store(cancel.turn, CanMarkCancelNotDelivered(CancelRecord),
                 MarkFailed(LowerBarrier(CancelRecord, err), err))
        /\ EndCancel("retryable", active)
        /\ UNCHANGED <<intake, prompt, response, docs, link, drops, disc, exit>>
\* Timeout or ConnectionGone: the notification may still arrive.
CancelTimedOut ==
    /\ CancelAt("forward") /\ link = "up"
    /\ \E where \in {"away", "wire"} : agent' = [agent EXCEPT ![cancel.turn] = where]
    /\ Store(cancel.turn, CanMarkDeliveryUnknown(CancelRecord), MarkDeliveryUnknown(CancelRecord))
    /\ EndCancel("unknown", active)
    /\ UNCHANGED <<intake, prompt, response, docs, link, drops, disc, exit>>

\* SetTurnTerminal(Cancelled) on the turn that was resolved.
CancelSettle ==
    /\ CancelAt("settle")
    /\ \/ cancel.target = None /\ CancelGoto("close") /\ UNCHANGED docs
       \/ /\ cancel.target # None
          /\ \E persisted \in BOOLEAN :
                /\ Write(SetTerminal(doc, cancel.target, "cancelled"), persisted)
                /\ CancelGoto(IF persisted /\ TerminalAccepted(doc, cancel.target, "cancelled")
                              THEN "close" ELSE "blurred")
    /\ UNCHANGED <<outbox, intake, inflight, prompt, loop, active, response, world, verdict>>

\* Mutant: the cancel is committed, the registry still holds the turn.
CancelKeepsActive ==
    /\ CancelAt("close")
    /\ Store(cancel.turn, CanMarkProjectionCommitted(CancelRecord),
             MarkCompleted(MarkProjectionCommitted(CancelRecord)))
    /\ EndCancel("committed", active)
    /\ UNCHANGED <<intake, prompt, response, docs, world>>
CancelCommit ==
    /\ CancelAt("close")
    /\ Store(cancel.turn, CanMarkProjectionCommitted(CancelRecord),
             MarkCompleted(MarkProjectionCommitted(CancelRecord)))
    /\ EndCancel("committed", IF cancel.target = None THEN active ELSE None)
    /\ UNCHANGED <<intake, prompt, response, docs, world>>

CancelBlurred ==
    /\ CancelAt("blurred")
    /\ Store(cancel.turn, CanMarkDeliveryUnknown(CancelRecord), MarkDeliveryUnknown(CancelRecord))
    /\ EndCancel("unknown", None)
    /\ UNCHANGED <<intake, prompt, response, docs, world>>

-----------------------------------------------------------------------------
(* The handlers of relay_disconnect.rs.                                    *)

\* The connection ends, or the heartbeat sweep takes the instance for offline.
Disconnect ==
    /\ link = "up" /\ disc.pc = "idle" /\ drops < plan.drops
    /\ link' = "down" /\ drops' = drops + 1
    /\ disc' = [pc |-> "read", turn |-> None]
    /\ UNCHANGED <<outbox, intake, inflight, prompt, cancel, loop, active, response, docs,
                   agent, exit, verdict>>

\* A hello, or a heartbeat, is taken at once; it does not wait for the handler.
Reconnect ==
    /\ link = "down"
    /\ link' = "up"
    /\ UNCHANGED <<outbox, intake, inflight, prompt, cancel, loop, active, response, docs,
                   agent, drops, disc, exit, verdict>>

\* on_instance_disconnect for this chat, unless it is over.
DiscRead ==
    /\ disc.pc = "read"
    /\ disc' = IF active = None \/ exit = "gone" THEN [pc |-> "idle", turn |-> None]
               ELSE [pc |-> "interrupt", turn |-> active]
    /\ UNCHANGED <<outbox, intake, inflight, prompt, cancel, loop, active, response, docs,
                   agent, link, drops, exit, verdict>>

DiscInterrupt ==
    /\ disc.pc = "interrupt"
    /\ doc' = MarkInterrupted(doc, disc.turn)
    /\ disc' = [disc EXCEPT !.pc = "clear"]
    /\ UNCHANGED <<outbox, intake, inflight, prompt, cancel, loop, active, response, faults,
                   agent, link, drops, exit, verdict>>

DiscClear ==
    /\ disc.pc = "clear"
    /\ active' = None
    /\ disc' = [pc |-> "idle", turn |-> None]
    /\ UNCHANGED <<outbox, intake, inflight, prompt, cancel, loop, response, docs,
                   agent, link, drops, exit, verdict>>

\* on_process_exit: SetChatTerminal, later the registry.
ProcessExit ==
    /\ exit = "alive"
    /\ doc' = EndChat(doc)
    /\ exit' = "marked"
    /\ UNCHANGED <<outbox, intake, inflight, prompt, cancel, loop, active, response, faults,
                   agent, link, drops, disc, verdict>>

ExitClear ==
    /\ exit = "marked"
    /\ active' = None
    /\ exit' = "gone"
    /\ UNCHANGED <<outbox, intake, inflight, prompt, cancel, loop, response, docs,
                   agent, link, drops, disc, verdict>>

-----------------------------------------------------------------------------
(* The instance and the agent, which are not part of the server.           *)

\* A frame whose acknowledgement was lost arrives after all.
WireDelivers(t) ==
    /\ agent[t] = "wire" /\ exit = "alive"
    /\ agent' = [agent EXCEPT ![t] = "running"]
    /\ UNCHANGED <<outbox, intake, inflight, prompt, cancel, loop, active, response, docs,
                   link, drops, disc, exit, verdict>>

\* The agent answers session/prompt; confirm_rpc drops what nobody waits for.
AgentAnswers(t, stop) ==
    /\ IsPrompt(t) /\ agent[t] = "running" /\ exit = "alive"
    /\ agent' = [agent EXCEPT ![t] = "answered"]
    /\ response' = IF t = prompt.turn /\ prompt.pc \in {"dispatched", "wait"} THEN stop
                   ELSE response
    /\ UNCHANGED <<outbox, intake, inflight, prompt, cancel, loop, active, docs,
                   link, drops, disc, exit, verdict>>

\* Output of any running turn is written to the turn the documents show.
AgentStreams ==
    /\ exit = "alive"
    /\ \E t \in Attempts : IsPrompt(t) /\ agent[t] = "running"
    /\ AcceptsDelta(doc) /\ doc.assistant[doc.turn] = "none"
    /\ doc' = Delta(doc)
    /\ UNCHANGED <<outbox, intake, inflight, prompt, cancel, loop, active, response, faults,
                   world, verdict>>

\* prompt_complete, turn_cancelled or session_error: the agent ends a turn it has
\* heard of, and the frame may come long after the server gave the turn an end.
AgentEndsTurn(t, status) ==
    /\ "end" \in plan.reports /\ exit = "alive"
    /\ IsPrompt(t) /\ agent[t] \in {"running", "answered"}
    /\ Calibrates(doc, t)
    /\ doc' = Settle(doc, t, status)
    /\ UNCHANGED <<outbox, intake, inflight, prompt, cancel, loop, active, response, faults,
                   world, verdict>>

\* A running turn asks for a permission. An official request is given the turn of the
\* registry, a private one names its own.
PermissionAsked ==
    /\ "permission" \in plan.reports /\ exit = "alive"
    /\ \E t \in Attempts : IsPrompt(t) /\ agent[t] = "running" /\ doc.turn \in {t, active}
    /\ doc.status = "accepting"
    /\ doc' = StatusIf(doc, "accepting", "awaitingPermission")
    /\ UNCHANGED <<outbox, intake, inflight, prompt, cancel, loop, active, response, faults,
                   world, verdict>>

\* A client allows it, or refuses it, and then the turn is shown as cancelled while the
\* agent and the executor still work on it.  An expiry does the same as a refusal.
PermissionAnswered ==
    /\ doc.status = "awaitingPermission"
    /\ \E status \in {"accepting", "cancelled"} :
          doc' = StatusIf(doc, "awaitingPermission", status)
    /\ UNCHANGED <<outbox, intake, inflight, prompt, cancel, loop, active, response, faults,
                   world, verdict>>

-----------------------------------------------------------------------------
PromptStep ==
    \/ RegisterEntry \/ Prepare \/ MarkNotDelivered \/ ProjectNotDelivered
    \/ ForwardAcked \/ ForwardError \/ Activate
    \/ TakeResponse \/ StopWaiting \/ Adjudge \/ ProjectTerminal
    \/ ConfirmExisting \/ CompleteEntry \/ Commit
    \/ MarkUnknown \/ FailTurn \/ GiveUp

CancelStep ==
    \/ CancelIntent \/ CancelMark \/ CancelNothingActive
    \/ CancelAcked \/ CancelNotDelivered \/ CancelTimedOut
    \/ CancelSettle \/ CancelCommit \/ CancelBlurred

Executor == StartNext \/ EnterLoop \/ ReadNext \/ PromptStep \/ CancelStep

DiscStep == DiscRead \/ DiscInterrupt \/ DiscClear

Environment ==
    \/ \E c \in Commands : Submit(c)
    \/ Disconnect \/ Reconnect \/ ProcessExit
    \/ \E t \in Attempts : WireDelivers(t)
    \/ \E t \in Attempts, stop \in Stops : AgentAnswers(t, stop)
    \/ AgentStreams
    \/ \E t \in Attempts, status \in Stops \cap FinalTurn : AgentEndsTurn(t, status)
    \/ PermissionAsked \/ PermissionAnswered

Next == Executor \/ DiscStep \/ ExitClear \/ Environment

Spec == Init /\ [][Next]_vars

\* The tasks of the server run on; every forward returns within the command
\* timeout, and silence ends every wait within the inactivity timeout. Nothing is
\* asked of clients, of the instance or of the agent.
ServerWorks == Executor \/ DiscStep \/ ExitClear
FairSpec == Spec /\ WF_vars(ServerWorks)

-----------------------------------------------------------------------------
(* Safety.                                                                 *)

\* However often clients submit a command, whatever the connection loses and
\* whenever the answer comes, at most one of its executions ever reaches or may
\* still reach the agent (the outbox record, the barrier and fail_before_dispatch).
AtMostOnce ==
    \A c \in Commands : \A m, n \in 1..MaxTries :
        agent[<<c, m>>] # "away" /\ agent[<<c, n>>] # "away" => m = n

\* What a client is told is what happened: after an error other than DELIVERY_UNKNOWN no
\* frame of that attempt is at the agent or on its way, after a commit it did arrive; and an
\* entry shown as not delivered was not.  And the answer outlives the connection it went
\* to: the record a resubmission will meet says the same, and a record is only gone where
\* resubmitting was allowed.
AnswersAreTrue ==
    \A t \in Attempts :
        LET r == outbox[t[1]]
        IN  /\ verdict[t] \in {"retryable", "failed"} => agent[t] = "away"
            /\ verdict[t] = "committed" =>
                  /\ agent[t] \in {"running", "answered"}
                  /\ r.status = "completed"
                  /\ IsPrompt(t) => doc.entry[t] = "completed"
            /\ verdict[t] = "failed" => r.status = "failed"
            /\ verdict[t] = "unknown" => r.status = "delivery_unknown"
            /\ verdict[t] = "retryable" => r = Absent \/ tries[t[1]] > t[2]
            /\ doc.entry[t] = "failed_not_delivered" => agent[t] = "away"

\* Between two commands nothing of the last one is left: no active turn, no loading
\* input box, and no entry that is pending, unless the assistant's terminal entry
\* stands for the outcome. So the early return on another active turn is never taken.
OneTurnAtATime ==
    prompt.pc \in {"idle", "register"} /\ cancel = NoCancel =>
        /\ active = None
        /\ ~Loading(doc)
        /\ \A t \in Attempts : doc.entry[t] = "pending" => doc.assistant[t] = "terminal"

\* Every place reserved in the queue belongs to a command that is waiting, put
\* aside or being executed, and to nothing else.
ReserveBalance ==
    inflight = Len(queue) + Len(deferred)
               + (IF prompt = NoPrompt THEN 0 ELSE 1) + (IF cancel = NoCancel THEN 0 ELSE 1)

\* Commands start in the order they were accepted, also those the loop put aside
\* while it was looking for a cancel; only a cancel overtakes, and only into the
\* wait of the turn that is active.
ServedInOrder ==
    [][Len(backlog') < Len(backlog) =>
          \/ backlog' = Tail(backlog)
          \/ /\ cancel = NoCancel /\ cancel' # NoCancel
             /\ active # None /\ active = prompt.turn]_vars

\* A cancel never overtakes the dispatch of a prompt: one that runs inside the
\* wait of a prompt finds that prompt at the agent (architecture.md, 7.4).
CancelAfterDispatch ==
    prompt # NoPrompt /\ cancel # NoCancel =>
        /\ agent[prompt.turn] \in {"running", "answered"}
        /\ PromptRecord.dispatchedAt

\* The queue and the loop that reads it: places are given back, and what was put aside or
\* overtook never makes a cancel run before its prompt was sent.
QueueInv == TypeOK /\ ReserveBalance /\ CancelAfterDispatch

\* A turn the documents once showed as over stays over: no late answer, timeout,
\* cancel, permission or disconnect gives it another end or reopens it.  Only the guess
\* interrupted may be replaced, once, by the end that the agent reports for a turn it has
\* heard of (architecture.md, 6.3): completed, failed and cancelled stand.
TurnEndsOnce ==
    [][doc.turn # None /\ doc'.turn = doc.turn /\ ~Loading(doc) =>
          \/ doc'.status = doc.status
          \/ /\ doc.status = "interrupted" /\ doc'.status \in FinalTurn
             /\ agent[doc.turn] \in {"running", "answered"}]_vars

\* A committed cancel has stopped the turn it found: the documents show it over and
\* the registry does not hold it when the answer goes out.
CancelStopsTurn ==
    [][\A t \in Attempts :
          t = cancel.turn /\ cancel.target # None /\ verdict'[t] = "committed"
             => ~Owns(doc', cancel.target) /\ active' # cancel.target]_vars

\* Turns end once, and by the cancel that says it ended them.
TurnsEnd == TurnEndsOnce /\ CancelStopsTurn

\* What CommandPromise sees of an execution: where its frame is.
FrameOf(t) == IF agent[t] = "away" THEN "away" ELSE "sent"
Abstract ==
    INSTANCE CommandPromise WITH frame <- [t \in Attempts |-> FrameOf(t)],
                                 answer <- verdict, NoAnswer <- "none"

\* A prompt or a cancel keeps the promise of CommandPromise, whatever is between the client
\* and the agent: the queue, the loop, the registry, the documents and the outbox.  AtMostOnce
\* is the part of it that can be seen in one state.
KeepsPromise == Abstract!Spec

-----------------------------------------------------------------------------
(* Liveness, under FairSpec.                                               *)

\* No accepted command is left without its terminal answer.
EveryCommandAnswered ==
    []<>(\A c \in Commands : \A n \in 1..tries[c] : verdict[<<c, n>>] # "none")

\* The input box does not stay disabled: a turn that is shown as loading ends, or
\* is replaced, even if the agent never answers.
LoadingEnds == []<>~Loading(doc)

\* Both are released, whatever the agent and the connection do.
NobodyWaits == EveryCommandAnswered /\ LoadingEnds

=============================================================================
