------------------------- MODULE InteractiveAnswers -------------------------
(***************************************************************************)
(* The forms and questions an agent puts to its users: the ACP elicitation *)
(* (relay_permission.rs, elicitation_response*.rs, state/elicitation.rs)   *)
(* and the private AskUserQuestion (relay_question.rs,                     *)
(* question_response.rs, state/question.rs), over the outbox of            *)
(* OutboxRecord.  An agent speaks one of the two.  Commands that answer    *)
(* run one at a time on the executor of the chat, while the relay          *)
(* registers requests, the timers of questions fire, and a lost connection *)
(* or a process exit clears what is pending.                               *)
(*                                                                         *)
(* What a command answers never changes.  An attempt <<c, n>> is the n-th  *)
(* execution of command c.  Observers, who change nothing here, and the    *)
(* limit on fallbacks are in PermissionResolution, which has the same      *)
(* broker.                                                                 *)
(***************************************************************************)
EXTENDS OutboxRecord, Sequences

CONSTANTS Commands, Requests,
          Asks,        \* what a command may answer: request, action, content
          Plans,       \* which command answers what
          MaxPending,  \* forms of one chat that may wait for an answer
          MaxTries,    \* bound: executions of one command
          MaxFaults,   \* bound: document writes that fail to persist
          MaxDrops,    \* bound: losses of the instance connection
          MaxReplays   \* bound: requests the instance sends once more

Verdicts2 == {"committed", "duplicate", "retryable", "failed", "unknown"}

ASSUME InteractiveAssumption ==
    /\ \A ask \in Asks : ask.req \in Requests
    /\ Plans \subseteq [Commands -> Asks]
    /\ Evidence = Requests
    /\ None \notin Commands /\ None \notin Asks /\ None \notin Verdicts2
    /\ {MaxPending, MaxFaults, MaxDrops, MaxReplays} \subseteq Nat
    /\ MaxTries \in Nat \ {0}

Attempts == Commands \X (1..MaxTries)
Reach == {"away", "wire", "taken"}
Cleaners == {"disconnect", "exit"}

VARIABLES
    kind,       \* what the agent speaks
    asked,      \* what each command answers
    outbox, tries, queue, exec,  \* records, executions so far, executor
    fallbacks,  \* terminal_fallbacks: commands answered with an unknown the outbox lacks
    table, claim,  \* pending_elicitations or pending_questions; the command bound
    others,     \* further forms of the chat in the table, which no command answers
    status, stored,  \* the request and its answer in the session document
    reg,        \* the request the relay is working on
    timer, expiry,  \* run_question_expiry; where its control_response got to
    agent,      \* where the answer of each attempt got to
    chat, link, cleanup,  \* the runtime, its connection, the handlers of relay_disconnect.rs
    stale,      \* whether the loop that works on reg belongs to a replaced connection
    faults, drops, replays,  \* how often each has happened
    replayed,   \* history: requests that were sent again
    lost,       \* history: requests the relay let go of while it was registering them
    verdict     \* the terminal answer of each attempt

docs == <<status, stored>>
timers == <<timer, expiry>>
world == <<chat, link, cleanup, stale>>
counts == <<faults, drops, replays, replayed, lost>>
vars == <<kind, asked, outbox, tries, queue, exec, fallbacks, table, claim, others, docs,
          reg, timers, agent, world, counts, verdict>>

Pcs == {"idle", "check", "claim", "cas", "barrier", "forward", "finish", "complete", "settle",
        "publish"}
Idle == [turn |-> None, pc |-> "idle", resumed |-> FALSE, replay |-> FALSE, answer |-> None]

TypeOK ==
    /\ kind \in {"elicitation", "question"}
    /\ asked \in [Commands -> Asks]
    /\ outbox \in [Commands -> Record]
    /\ tries \in [Commands -> 0..MaxTries]
    /\ queue \in Seq(Attempts)
    /\ exec \in [turn : Attempts \cup {None}, pc : Pcs, resumed : BOOLEAN, replay : BOOLEAN,
                 answer : Verdicts2 \cup {None}]
    /\ fallbacks \subseteq Commands
    /\ table \subseteq Requests /\ others \in 0..MaxPending
    /\ kind = "elicitation" => Cardinality(table) + others <= MaxPending
    /\ claim \in [Requests -> Commands \cup {None}]
    /\ status \in [Requests -> {"none", "pending", "responding", "resolved", "expired"}]
    /\ stored \in [Requests -> Asks \cup {None}]
    /\ reg \in Requests \cup {None}
    /\ timer \in [Requests -> {"off", "armed", "cas", "send", "done"}]
    /\ expiry \in [Requests -> Reach]
    /\ agent \in [Attempts -> Reach]
    /\ chat \in {"alive", "ended", "closed"} /\ link \in {"up", "down"}
    /\ cleanup \in [Cleaners -> {"idle", "purge", "expire"}]
    /\ faults \in 0..MaxFaults /\ drops \in 0..MaxDrops /\ replays \in 0..MaxReplays
    /\ replayed \subseteq Requests /\ lost \subseteq Requests
    /\ stale \in BOOLEAN
    /\ verdict \in [Attempts -> Verdicts2 \cup {None}]

Init ==
    /\ kind \in {"elicitation", "question"}
    /\ asked \in Plans
    /\ outbox = [c \in Commands |-> Absent] /\ tries = [c \in Commands |-> 0]
    /\ queue = <<>> /\ exec = Idle
    /\ fallbacks = {}
    /\ table = {} /\ others \in (IF kind = "question" THEN {0} ELSE 0..MaxPending)
    /\ claim = [r \in Requests |-> None]
    /\ status = [r \in Requests |-> "none"] /\ stored = [r \in Requests |-> None]
    /\ reg = None
    /\ timer = [r \in Requests |-> "off"] /\ expiry = [r \in Requests |-> "away"]
    /\ agent = [t \in Attempts |-> "away"]
    /\ chat = "alive" /\ link = "up" /\ cleanup = [w \in Cleaners |-> "idle"]
    /\ stale = FALSE
    /\ faults = 0 /\ drops = 0 /\ replays = 0 /\ replayed = {} /\ lost = {}
    /\ verdict = [t \in Attempts |-> None]

-----------------------------------------------------------------------------
(* Submission: adjudicate_existing and what submit_queued_action makes of  *)
(* it.                                                                     *)

\* elicitation_recovery_disposition for a record with recovery material.
RecoveryDisposition(r) ==
    IF r.barrier \/ r.status # "intent_durable" \/ chat # "alive" THEN "blocked" ELSE "resume"

Disposition(c) ==
    LET r == outbox[c]
    IN  CASE ~Present(r) -> "new"
          [] Present(r) /\ r.recovery = None /\ ~Live(r) -> "replay"
          [] Present(r) /\ (r.recovery # None \/ Live(r)) ->
               IF c \in fallbacks THEN "blocked"
               ELSE IF r.recovery = None THEN "attach" ELSE RecoveryDisposition(r)

Enqueue(c) ==
    /\ tries[c] < MaxTries
    /\ tries' = [tries EXCEPT ![c] = @ + 1]
    /\ queue' = Append(queue, <<c, tries[c] + 1>>)

\* A client answers what the document shows.
CommandType == IF kind = "question" THEN "question" ELSE "elicitation"
SubmitNew(c) ==
    /\ Disposition(c) = "new" /\ status[asked[c].req] # "none" /\ chat # "closed"
    /\ outbox' = [outbox EXCEPT ![c] = MarkAccepted(Insert(CommandType))]
    /\ Enqueue(c)
    /\ UNCHANGED <<kind, asked, exec, fallbacks, table, claim, others, docs, reg, timers,
                   agent, world, counts, verdict>>

SubmitResume(c) ==
    /\ Disposition(c) = "resume"
    /\ Enqueue(c)
    /\ UNCHANGED <<kind, asked, outbox, exec, fallbacks, table, claim, others, docs, reg,
                   timers, agent, world, counts, verdict>>

-----------------------------------------------------------------------------
(* The executor.                                                           *)

StartNext ==
    /\ exec = Idle /\ queue # <<>>
    /\ exec' = [Idle EXCEPT !.turn = Head(queue), !.pc = "check"]
    /\ queue' = Tail(queue)
    /\ UNCHANGED <<kind, asked, outbox, tries, fallbacks, table, claim, others, docs, reg,
                   timers, agent, world, counts, verdict>>

Cmd == exec.turn[1]
Rec == outbox[Cmd]
Ask == asked[Cmd]
Req == Ask.req
At(k, pc) == kind = k /\ exec.pc = pc
Goto(pc) == exec' = [exec EXCEPT !.pc = pc]
Finish(answer) == exec' = [exec EXCEPT !.pc = "publish", !.answer = answer]
Store(after) == outbox' = [outbox EXCEPT ![Cmd] = after]
Keep == UNCHANGED outbox

\* delivery_unknown: what the outbox makes of it is not looked at.
Unknown ==
    /\ IF CanMarkDeliveryUnknown(Rec) THEN Store(MarkDeliveryUnknown(Rec)) ELSE Keep
    /\ Finish("unknown")

\* Mutant: a failure that the outbox refuses is not answered.
FailOrHang ==
    LET err == [code |-> "INVALID_STATE", retryable |-> FALSE]
    IN  CanMarkFailed(Rec, err) /\ Store(MarkFailed(Rec, err)) /\ Finish("failed")
\* fail_before_delivery: the error is never retryable.
FailBeforeDelivery ==
    LET err == [code |-> "INVALID_STATE", retryable |-> FALSE]
    IN  IF CanMarkFailed(Rec, err) THEN Store(MarkFailed(Rec, err)) /\ Finish("failed")
        ELSE Unknown

\* The document compares the action of a form and every answer of a question.
SameAnswer(a, b) ==
    a # None /\ a.action = b.action /\ (kind = "question" => a.content = b.content)

\* A write that fails to persist is applied in memory all the same.
Persisted(then, else) ==
    \/ then /\ UNCHANGED faults
    \/ faults < MaxFaults /\ faults' = faults + 1 /\ else

SetStatus(r, s) == status' = [status EXCEPT ![r] = s]

\* pending_elicitation, then mark_intent_durable unless there is recovery material.
CheckForm ==
    /\ At("elicitation", "check")
    /\ IF Req \notin table THEN Finish("failed") /\ Keep
       ELSE IF Rec.recovery # None
            THEN exec' = [exec EXCEPT !.pc = "claim", !.resumed = TRUE] /\ Keep
       ELSE IF CanMarkIntentDurable(Rec) THEN Store(MarkIntentDurable(Rec)) /\ Goto("claim")
       ELSE FailBeforeDelivery
    /\ UNCHANGED <<kind, asked, tries, queue, fallbacks, table, claim, others, docs, reg,
                   timers, agent, world, counts, verdict>>

\* Mutant: a form already bound to another command is handed out again.
ClaimableByAnyone(r, c) == r \in table
Claimable(r, c) == r \in table /\ claim[r] \in {None, c}

\* claim_pending_elicitation, then set_recovery.
ClaimForm ==
    /\ At("elicitation", "claim")
    /\ IF Claimable(Req, Cmd)
       THEN /\ claim' = [claim EXCEPT ![Req] = Cmd]
            /\ IF exec.resumed THEN Goto("cas") /\ Keep
               ELSE IF CanSetRecovery(Rec, Req)
                    THEN Store(SetRecovery(Rec, Req)) /\ Goto("cas")
               ELSE FailBeforeDelivery
       ELSE UNCHANGED claim /\ FailBeforeDelivery
    /\ UNCHANGED <<kind, asked, tries, queue, fallbacks, table, others, docs, reg, timers,
                   agent, world, counts, verdict>>

\* BeginElicitationResponse: pending becomes responding.
BeginForm ==
    /\ At("elicitation", "cas") /\ chat # "closed" /\ status[Req] = "pending"
    /\ SetStatus(Req, "responding")
    /\ stored' = [stored EXCEPT ![Req] = Ask]
    /\ Persisted(Goto("barrier"), Finish("retryable"))
    /\ UNCHANGED <<kind, asked, outbox, tries, queue, fallbacks, table, claim, others, reg,
                   timers, agent, world, drops, replays, replayed, lost, verdict>>

SameResponseAgain(r) == status[r] \in {"responding", "resolved"} /\ SameAnswer(stored[r], Ask)
\* The same action again goes on, anything else is refused.
BeginAgain ==
    /\ At("elicitation", "cas") /\ chat # "closed" /\ status[Req] # "pending"
    /\ IF SameResponseAgain(Req)
       THEN exec' = [exec EXCEPT !.pc = "barrier", !.replay = TRUE] /\ Keep
       ELSE FailBeforeDelivery
    /\ UNCHANGED <<kind, asked, tries, queue, fallbacks, table, claim, others, docs, reg,
                   timers, agent, world, counts, verdict>>

\* pending_question_chat, then mark_intent_durable. No failure marks the record.
CheckQuestion ==
    /\ At("question", "check")
    /\ IF Req \notin table THEN Finish("failed") /\ Keep
       ELSE IF CanMarkIntentDurable(Rec) THEN Store(MarkIntentDurable(Rec)) /\ Goto("cas")
       ELSE Finish("retryable") /\ Keep
    /\ UNCHANGED <<kind, asked, tries, queue, fallbacks, table, claim, others, docs, reg,
                   timers, agent, world, counts, verdict>>

OpenQuestion(r) == status[r] = "pending"

\* ResolveQuestion: pending becomes resolved, before the agent has heard anything.
ResolveQuestion ==
    /\ At("question", "cas") /\ chat # "closed" /\ OpenQuestion(Req)
    /\ SetStatus(Req, "resolved")
    /\ stored' = [stored EXCEPT ![Req] = Ask]
    /\ Persisted(Goto("barrier"), Finish("retryable"))
    /\ UNCHANGED <<kind, asked, outbox, tries, queue, fallbacks, table, claim, others, reg,
                   timers, agent, world, drops, replays, replayed, lost, verdict>>

ResolvedBefore ==
    /\ At("question", "cas") /\ chat # "closed" /\ ~OpenQuestion(Req)
    /\ Finish(IF status[Req] = "resolved" /\ SameAnswer(stored[Req], Ask)
              THEN "duplicate" ELSE "failed")
    /\ UNCHANGED <<kind, asked, outbox, tries, queue, fallbacks, table, claim, others, docs,
                   reg, timers, agent, world, counts, verdict>>

\* The writer of a closed chat is gone: CHAT_NOT_FOUND, and the record stays.
AnswerToClosed ==
    /\ exec.pc = "cas" /\ chat = "closed"
    /\ Finish("failed")
    /\ UNCHANGED <<kind, asked, outbox, tries, queue, fallbacks, table, claim, others, docs,
                   reg, timers, agent, world, counts, verdict>>

\* The runtime, which only a form asks to be alive, and mark_no_redelivery_barrier.
Barrier ==
    /\ exec.pc = "barrier"
    /\ IF (kind = "elicitation" => chat = "alive") /\ CanMarkNoRedeliveryBarrier(Rec)
       THEN Store(RaiseBarrier(Rec)) /\ Goto("forward") ELSE Unknown
    /\ UNCHANGED <<kind, asked, tries, queue, fallbacks, table, claim, others, docs, reg,
                   timers, agent, world, counts, verdict>>

\* forward_notification, acknowledged once the agent's stdin took the frame.
ForwardAcked ==
    /\ exec.pc = "forward" /\ link = "up" /\ chat = "alive"
    /\ agent' = [agent EXCEPT ![exec.turn] = "taken"]
    /\ Goto("finish")
    /\ UNCHANGED <<kind, asked, outbox, tries, queue, fallbacks, table, claim, others, docs,
                   reg, timers, world, counts, verdict>>

\* Offline, unknown instance or refused by it: for a form that proves that nothing was
\* delivered, for a question it proves nothing.
ForwardNotDelivered ==
    /\ exec.pc = "forward"
    /\ \E code \in {"AGENT_UNAVAILABLE", "INSTANCE_OFFLINE"} :
          /\ code = "INSTANCE_OFFLINE" => link = "down"
          /\ IF kind = "question" THEN Unknown
             ELSE IF CanMarkRecoveryNotDelivered(Rec)
             THEN Store(LowerBarrier(Rec, FromErrorCode(code))) /\ Finish("retryable")
             ELSE Unknown
    /\ UNCHANGED <<kind, asked, tries, queue, fallbacks, table, claim, others, docs, reg,
                   timers, agent, world, counts, verdict>>

\* Mutants: a timeout counts as proof of non-delivery, or as success.
TimeoutIsProof ==
    Store(LowerBarrier(Rec, FromErrorCode("AGENT_UNAVAILABLE"))) /\ Finish("retryable")
TimeoutIsSuccess == Goto("finish") /\ Keep
TimeoutIsUnknown == Unknown
\* Timeout or connection gone: the frame may still arrive.
ForwardUnknown ==
    /\ exec.pc = "forward" /\ link = "up"
    /\ \E where \in {"away", "wire"} : agent' = [agent EXCEPT ![exec.turn] = where]
    /\ TimeoutIsUnknown
    /\ UNCHANGED <<kind, asked, tries, queue, fallbacks, table, claim, others, docs, reg,
                   timers, world, counts, verdict>>

\* mark_dispatched and mark_delivery_confirmed under one lock.
ConfirmForm ==
    /\ At("elicitation", "finish")
    /\ IF CanMarkDispatched(Rec)
       THEN Store(MarkDeliveryConfirmed(MarkDispatched(Rec))) /\ Goto("complete") ELSE Unknown
    /\ UNCHANGED <<kind, asked, tries, queue, fallbacks, table, claim, others, docs, reg,
                   timers, agent, world, counts, verdict>>

\* CompleteElicitationResponse: only a form that still shows the response is resolved,
\* and one that does not counts as applied too.
CompleteForm ==
    /\ At("elicitation", "complete")
    /\ IF chat # "closed" /\ status[Req] = "responding"
       THEN SetStatus(Req, "resolved") /\ Persisted(Goto("settle") /\ Keep, Unknown)
       ELSE Goto("settle") /\ UNCHANGED <<status, outbox, faults>>
    /\ UNCHANGED <<kind, asked, tries, queue, fallbacks, table, claim, others, stored, reg,
                   timers, agent, world, drops, replays, replayed, lost, verdict>>

\* The three last transitions under one lock, then the table.
SettleForm ==
    /\ At("elicitation", "settle")
    /\ IF CanClearRecovery(Rec)
       THEN /\ Store(MarkCompleted(MarkProjectionCommitted(ClearRecovery(Rec))))
            /\ table' = table \ {Req}
            /\ Finish(IF exec.replay THEN "duplicate" ELSE "committed")
       ELSE UNCHANGED table /\ Unknown
    /\ UNCHANGED <<kind, asked, tries, queue, fallbacks, claim, others, docs, reg, timers,
                   agent, world, counts, verdict>>

\* clear_pending_question; what mark_completed says is not looked at.
SettleQuestion ==
    /\ At("question", "finish")
    /\ table' = table \ {Req}
    /\ IF CanMarkCompleted(Rec) THEN Store(MarkCompleted(Rec)) ELSE Keep
    /\ Finish("committed")
    /\ UNCHANGED <<kind, asked, tries, queue, fallbacks, claim, others, docs, reg, timers,
                   agent, world, counts, verdict>>

\* publish_terminal; an answer of unknown delivery that the outbox does not hold is
\* kept as a fallback. A duplicate goes past the fallbacks, to its client only.
Publish ==
    /\ exec.pc = "publish"
    /\ fallbacks' = IF exec.answer = "unknown" /\ Rec.status # "delivery_unknown"
                    THEN fallbacks \cup {Cmd} ELSE fallbacks
    /\ verdict' = [verdict EXCEPT ![exec.turn] = exec.answer]
    /\ exec' = Idle
    /\ UNCHANGED <<kind, asked, outbox, tries, queue, table, claim, others, docs, reg,
                   timers, agent, world, counts>>

-----------------------------------------------------------------------------
(* Requests of the agent.                                                  *)

Reading == link = "up" /\ chat = "alive" /\ reg = None

HasRoom == Cardinality(table) + others < MaxPending
\* register_elicitation_request: a form enters the table unbound, whether or not it is
\* there already; over the limit the agent is told.
EnterForm(r) ==
    /\ table' = IF HasRoom THEN table \cup {r} ELSE table
    /\ claim' = IF HasRoom THEN [claim EXCEPT ![r] = None] ELSE claim
    /\ reg' = IF HasRoom THEN r ELSE None

RequestForm(r) ==
    /\ kind = "elicitation" /\ Reading /\ status[r] = "none" /\ r \notin table
    /\ EnterForm(r)
    /\ UNCHANGED <<kind, asked, outbox, tries, queue, exec, fallbacks, others, docs, timers,
                   agent, world, counts, verdict>>

\* The batch that held the request was not acknowledged before the connection went, and
\* the instance sends it again.
ReplayForm(r) ==
    /\ kind = "elicitation" /\ Reading /\ status[r] # "none"
    /\ drops > 0 /\ replays < MaxReplays
    /\ EnterForm(r)
    /\ replays' = replays + 1 /\ replayed' = replayed \cup {r}
    /\ UNCHANGED <<kind, asked, outbox, tries, queue, exec, fallbacks, others, docs, timers,
                   agent, world, faults, drops, lost, verdict>>

\* RegisterElicitation: the stream refuses a frame that it has taken before, and what is
\* not applied leaves the table again.
ProjectForm ==
    /\ kind = "elicitation" /\ reg # None
    /\ LET fresh == status[reg] = "none" /\ chat # "closed"
       IN  IF fresh
           THEN /\ SetStatus(reg, "pending")
                /\ Persisted(UNCHANGED <<table, lost>>,
                             table' = table \ {reg} /\ lost' = lost \cup {reg})
           ELSE table' = table \ {reg} /\ UNCHANGED <<status, lost, faults>>
    /\ reg' = None /\ stale' = FALSE
    /\ UNCHANGED <<kind, asked, outbox, tries, queue, exec, fallbacks, claim, others,
                   stored, timers, agent, chat, link, cleanup, drops, replays, replayed,
                   verdict>>

\* The document shows a question first; only then it enters the table, with its timer.
\* After a write that failed it shows the question all the same, and nothing follows.
RequestQuestion(r) ==
    /\ kind = "question" /\ Reading /\ status[r] = "none"
    /\ SetStatus(r, "pending")
    /\ Persisted(reg' = r /\ UNCHANGED lost, UNCHANGED reg /\ lost' = lost \cup {r})
    /\ UNCHANGED <<kind, asked, outbox, tries, queue, exec, fallbacks, table, claim, others,
                   stored, timers, agent, world, drops, replays, replayed, verdict>>

RegisterQuestion ==
    /\ kind = "question" /\ reg # None
    /\ table' = table \cup {reg}
    /\ timer' = [timer EXCEPT ![reg] = "armed"]
    /\ reg' = None /\ stale' = FALSE
    /\ UNCHANGED <<kind, asked, outbox, tries, queue, exec, fallbacks, claim, others, docs,
                   expiry, agent, chat, link, cleanup, counts, verdict>>

-----------------------------------------------------------------------------
(* run_question_expiry.                                                    *)

StillPending(r) == r \in table
TimerWakes(r) ==
    /\ timer[r] = "armed"
    /\ timer' = [timer EXCEPT ![r] = IF StillPending(r) THEN "cas" ELSE "done"]
    /\ UNCHANGED <<kind, asked, outbox, tries, queue, exec, fallbacks, table, claim, others,
                   docs, reg, expiry, agent, world, counts, verdict>>

\* ExpireQuestion; only the migration goes on, and a failed write ends the timer.
TimerExpires(r) ==
    /\ timer[r] = "cas"
    /\ IF chat # "closed" /\ status[r] = "pending"
       THEN /\ SetStatus(r, "expired")
            /\ Persisted(timer' = [timer EXCEPT ![r] = "send"],
                         timer' = [timer EXCEPT ![r] = "done"])
       ELSE timer' = [timer EXCEPT ![r] = "done"] /\ UNCHANGED <<status, faults>>
    /\ UNCHANGED <<kind, asked, outbox, tries, queue, exec, fallbacks, table, claim, others,
                   stored, reg, expiry, agent, world, drops, replays, replayed, lost, verdict>>

\* The entry goes, and the agent is told that nobody approved.
TimerSends(r) ==
    /\ timer[r] = "send"
    /\ table' = table \ {r}
    /\ \E where \in Reach :
          /\ where # "away" => link = "up"
          /\ where = "taken" => chat = "alive"
          /\ expiry' = [expiry EXCEPT ![r] = where]
    /\ timer' = [timer EXCEPT ![r] = "done"]
    /\ UNCHANGED <<kind, asked, outbox, tries, queue, exec, fallbacks, claim, others, docs,
                   reg, agent, world, counts, verdict>>

Timer(r) == TimerWakes(r) \/ TimerExpires(r) \/ TimerSends(r)

-----------------------------------------------------------------------------
(* The connection, the process and the chat.                               *)

\* The loop of a connection takes one frame after the other, and what it is at work on
\* holds up only itself.
LoopIsFree == reg = None \/ stale

\* It ends with on_instance_disconnect, which a new connection does not wait for ...
Disconnect ==
    /\ link = "up" /\ drops < MaxDrops /\ cleanup["disconnect"] = "idle" /\ LoopIsFree
    /\ link' = "down" /\ drops' = drops + 1
    /\ cleanup' = [cleanup EXCEPT !["disconnect"] = IF chat = "alive" THEN "purge" ELSE "idle"]
    /\ UNCHANGED <<kind, asked, outbox, tries, queue, exec, fallbacks, table, claim, others,
                   docs, reg, timers, agent, chat, stale, faults, replays, replayed, lost,
                   verdict>>

\* ... unless a new connection has replaced it, which on_disconnect finds out first.
Replaced ==
    /\ link = "up" /\ drops < MaxDrops
    /\ drops' = drops + 1 /\ stale' = (reg # None)
    /\ UNCHANGED <<kind, asked, outbox, tries, queue, exec, fallbacks, table, claim, others,
                   docs, reg, timers, agent, chat, link, cleanup, faults, replays, replayed,
                   lost, verdict>>

Reconnect ==
    /\ link = "down" /\ link' = "up"
    /\ UNCHANGED <<kind, asked, outbox, tries, queue, exec, fallbacks, table, claim, others,
                   docs, reg, timers, agent, chat, cleanup, stale, counts, verdict>>

ProcessExit ==
    /\ chat = "alive" /\ link = "up" /\ LoopIsFree
    /\ chat' = "ended" /\ cleanup' = [cleanup EXCEPT !["exit"] = "purge"]
    /\ UNCHANGED <<kind, asked, outbox, tries, queue, exec, fallbacks, table, claim, others,
                   docs, reg, timers, agent, link, stale, counts, verdict>>

\* The table of forms first, whoever is at work on one of them. Questions are in neither
\* handler.
Purge(w) ==
    /\ cleanup[w] = "purge"
    /\ table' = IF kind = "elicitation" THEN {} ELSE table
    /\ lost' = IF kind = "elicitation" /\ reg # None THEN lost \cup {reg} ELSE lost
    /\ others' = 0
    /\ cleanup' = [cleanup EXCEPT ![w] = "expire"]
    /\ UNCHANGED <<kind, asked, outbox, tries, queue, exec, fallbacks, claim, docs, reg,
                   timers, agent, chat, link, stale, faults, drops, replays, replayed,
                   verdict>>

Expires == {"pending", "responding"}
\* ExpirePendingElicitations, which knows nothing of the table.
ExpireForms(w) ==
    /\ cleanup[w] = "expire"
    /\ status' = IF chat = "closed" \/ kind = "question" THEN status
                 ELSE [r \in Requests |->
                         IF status[r] \in Expires THEN "expired" ELSE status[r]]
    /\ cleanup' = [cleanup EXCEPT ![w] = "idle"]
    /\ UNCHANGED <<kind, asked, outbox, tries, queue, exec, fallbacks, table, claim, others,
                   stored, reg, timers, agent, chat, link, stale, counts, verdict>>

\* A close that the executor carried out.
Close ==
    /\ exec = Idle /\ chat = "alive" /\ link = "up"
    /\ chat' = "closed"
    /\ UNCHANGED <<kind, asked, outbox, tries, queue, exec, fallbacks, table, claim, others,
                   docs, reg, timers, agent, link, cleanup, stale, counts, verdict>>

-----------------------------------------------------------------------------
Executor ==
    \/ StartNext
    \/ CheckForm \/ ClaimForm \/ BeginForm \/ BeginAgain
    \/ CheckQuestion \/ ResolveQuestion \/ ResolvedBefore
    \/ AnswerToClosed \/ Barrier \/ ForwardAcked \/ ForwardNotDelivered \/ ForwardUnknown
    \/ ConfirmForm \/ CompleteForm \/ SettleForm \/ SettleQuestion \/ Publish

Relay ==
    \/ ProjectForm \/ RegisterQuestion
    \/ \E r \in Requests : Timer(r)

Environment ==
    \/ \E c \in Commands : SubmitNew(c) \/ SubmitResume(c)
    \/ \E r \in Requests : RequestForm(r) \/ ReplayForm(r) \/ RequestQuestion(r)
    \/ Disconnect \/ Replaced \/ Reconnect \/ ProcessExit \/ Close
    \/ \E w \in Cleaners : Purge(w) \/ ExpireForms(w)

Next == Executor \/ Relay \/ Environment

Spec == Init /\ [][Next]_vars

\* The executor's task runs on and a forward returns within the command timeout; a timer
\* wakes at its deadline. Nothing is asked of users, agents and instances.
FairSpec == Spec /\ WF_vars(Executor) /\ WF_vars(Relay)

-----------------------------------------------------------------------------
(* Safety.                                                                 *)

MayReach(t) == agent[t] # "away"
Answered(t) == asked[t[1]].req

OneAnswerTo(r) ==
    \A s, t \in Attempts :
        MayReach(s) /\ MayReach(t) /\ Answered(s) = r /\ Answered(t) = r => s = t

\* However many commands answer a form or a question, and however often they are sent,
\* at most one answer to it reaches, or may still reach, the agent (the claim, the
\* compare-and-set, the recovery material and the barrier together) - as long as the
\* instance does not send the form itself twice.  And a question is answered or given up,
\* never both: the agent that is told that nobody approved is told no answer before or after.
OneAnswer ==
    /\ \A r \in Requests \ replayed : OneAnswerTo(r)
    /\ \A t \in Attempts : MayReach(t) => expiry[Answered(t)] = "away"

\* What the agent is told is what the document shows: an answer is not sent before the
\* document has it, and nothing that comes later takes it back.  A form that is shown as
\* resolved has been taken by the agent, with that action.
SentAsShown ==
    /\ \A t \in Attempts : MayReach(t) =>
          /\ SameAnswer(stored[Answered(t)], asked[t[1]])
          /\ status[Answered(t)] \in {"responding", "resolved", "expired"}
          /\ kind = "question" => status[Answered(t)] = "resolved"
    /\ \A r \in Requests : kind = "elicitation" /\ status[r] = "resolved" =>
          \E t \in Attempts : agent[t] = "taken" /\ Answered(t) = r
                              /\ SameAnswer(stored[r], asked[t[1]])

\* Whoever is told that an answer failed can rely on it that this attempt did not and
\* will not reach the agent, and whoever is told that it was committed on the opposite.
\* An answer to a form that failed with a retryable error is executed when it is sent
\* again, while the runtime lives.
AnswersAreTrue ==
    /\ \A t \in Attempts :
          /\ verdict[t] \in {"retryable", "failed"} => agent[t] = "away"
          /\ verdict[t] = "committed" => agent[t] = "taken"
          /\ verdict[t] = "duplicate" =>
                agent[t] = (IF kind = "elicitation" THEN "taken" ELSE "away")
    /\ \A c \in Commands :
          /\ kind = "elicitation" /\ chat = "alive"
          /\ tries[c] > 0 /\ verdict[<<c, tries[c]>>] = "retryable"
          => Disposition(c) \in {"new", "resume"}

\* What the document shows as pending can be answered: it is in the table of the relay,
\* or on its way in or out - unless the instance sent it twice, the chat is closed, or the
\* relay let go of it in the midst of its registration: because the write failed, or
\* because the clean-up of another connection came between the table and the document.
ShownIsAnswerable ==
    \A r \in Requests \ (replayed \cup lost) :
        status[r] = "pending" /\ chat # "closed" =>
            r \in table \/ reg = r \/ \E w \in Cleaners : cleanup[w] = "expire"

\* What the document shows is true: of what was sent, and of what can still be answered.
ShownIsTrue == TypeOK /\ SentAsShown /\ ShownIsAnswerable

\* What clients are told and what they are shown is true, of the agent and of each other.
ClientsSeeTruth == AnswersAreTrue /\ ShownIsTrue

\* What CommandPromise sees of an execution: where the answer is.
FrameOf(t) == IF agent[t] = "away" THEN "away" ELSE "sent"
Abstract ==
    INSTANCE CommandPromise WITH frame <- [t \in Attempts |-> FrameOf(t)],
                                 answer <- verdict, NoAnswer <- None

\* An answer to a form or to a question keeps the promise of CommandPromise, by the claim or by
\* the document alone, and whether the outbox lets a command be resumed or not.
KeepsPromise == Abstract!Spec

-----------------------------------------------------------------------------
(* Liveness, under FairSpec.                                               *)

\* The executor gets through all it is given, whatever the outbox refuses and whoever
\* stays silent: no execution hangs.
ExecutorDrains == []<>(exec = Idle /\ queue = <<>>)

\* No question that the document shows and the relay has registered stays pending for
\* good: it is answered or its timer ends it.
QuestionsEnd ==
    \A r \in Requests :
        kind = "question" /\ status[r] = "pending" /\ r \notin lost ~>
            status[r] # "pending" \/ chat = "closed"

\* Neither the executor nor a question waits for someone who never comes.
NothingHangs == ExecutorDrains /\ QuestionsEnd

-----------------------------------------------------------------------------
(* A claim of the documents that the code does not keep.                   *)

\* architecture.md: a committed command that is sent again is answered as a duplicate.
\* The record of an answered question is not completed, because mark_completed is
\* refused for a record that was never dispatched.
CommittedIsDuplicate ==
    \A t \in Attempts : verdict[t] = "committed" => Disposition(t[1]) = "replay"
=============================================================================
