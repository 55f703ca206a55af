------------------------- MODULE PermissionResolution -------------------------
(***************************************************************************)
(* Permission decisions on one chat, from the client's submit to the       *)
(* terminal answer: deduplication, observers and terminal fallbacks        *)
(* (command_outcome_broker*.rs), the executor's permission command         *)
(* (permission_resolution*.rs), the table of official requests             *)
(* (relay_permission.rs), the compare-and-set in the session document      *)
(* (state/permission.rs) and the handlers of relay_disconnect.rs, over the *)
(* outbox of OutboxRecord.                                                 *)
(*                                                                         *)
(* What a command asks for never changes.  An attempt <<c, n>> is the n-th *)
(* execution of command c; the executor runs one at a time.                *)
(***************************************************************************)
EXTENDS OutboxRecord, Sequences

CONSTANTS Commands, Permissions, Clients,
          Asks,          \* what a command may ask: permission, decision, option; how
                         \* often it is executed at most (a bound) goes with it
          Scenarios,     \* what the commands of a behaviour may ask together
          PerCommand,    \* MAX_OBSERVERS_PER_COMMAND
          Global,        \* MAX_OBSERVERS_GLOBAL
          MaxFallbacks,  \* MAX_TERMINAL_FALLBACKS
          MaxTries,      \* bound: executions of one command
          MaxFaults,     \* bound: document writes that fail to persist
          MaxDrops       \* bound: losses of the instance connection

Decisions == {"allow", "deny"}
\* An option the request lists for the decision, any other, or none at all.
Options == {"none", "listed", "foreign"}

Answers == {"committed", "duplicate", "retryable", "failed", "unknown"}

ASSUME PermissionAssumption ==
    /\ Asks \subseteq [perm : Permissions, decision : Decisions, option : Options,
                       tries : 0..MaxTries]
    /\ Scenarios \subseteq [Commands -> Asks]
    /\ Evidence = Permissions /\ None \notin Commands \cup Answers
    /\ {PerCommand, Global, MaxFallbacks, MaxFaults, MaxDrops} \subseteq Nat
    /\ MaxTries \in Nat \ {0}

Attempts == Commands \X (1..MaxTries)

VARIABLES
    asked,      \* what each command asks for
    outbox,     \* the record of every command
    tries,      \* executions of each command so far
    queue,      \* what the executor has not taken yet
    exec,       \* what it executes
    observers, fallbacks, overflow,  \* OutcomeState
    pending,    \* pending_permissions: the official requests in the table
    claim,      \* the command each of them is bound to
    status, faults,  \* pending_permissions of the document; failed writes so far
    reg,        \* the request that register_permission_request is working on
    agent,      \* where the answer of each attempt got to
    chat,       \* the runtime
    link, drops, disc,  \* the connection, its losses so far, on_instance_disconnect
    verdict     \* the terminal answer of each attempt

broker == <<observers, fallbacks, overflow>>
table == <<pending, claim>>
docs == <<status, faults>>
world == <<agent, chat, link, drops, disc>>
vars == <<asked, outbox, tries, queue, exec, broker, table, docs, reg, world, verdict>>

Pcs == {"idle", "option", "claim", "cas", "barrier", "forward", "finish", "confirm", "publish"}
Idle == [turn |-> None, client |-> None, pc |-> "idle", held |-> None, answer |-> None]

TypeOK ==
    /\ asked \in [Commands -> Asks]
    /\ outbox \in [Commands -> Record]
    /\ tries \in [Commands -> 0..MaxTries]
    /\ queue \in Seq([turn : Attempts, client : Clients])
    /\ exec \in [turn : Attempts \cup {None}, client : Clients \cup {None}, pc : Pcs,
                 held : Evidence \cup {None}, answer : Answers \cup {None}]
    /\ observers \in [Commands -> SUBSET Clients]
    /\ \A c \in Commands : Cardinality(observers[c]) <= PerCommand
    /\ fallbacks \subseteq Commands /\ Cardinality(fallbacks) <= MaxFallbacks
    /\ overflow \in BOOLEAN
    /\ pending \subseteq Permissions /\ claim \in [Permissions -> Commands \cup {None}]
    /\ status \in [Permissions -> Decisions \cup {"none", "pending", "expired"}]
    /\ faults \in 0..MaxFaults
    /\ reg \in Permissions \cup {None}
    /\ agent \in [Attempts -> {"away", "wire", "taken", "refused"}]
    /\ chat \in {"alive", "ended", "gone", "closed"}
    /\ link \in {"up", "down"} /\ drops \in 0..MaxDrops
    /\ disc \in {"idle", "expire", "clear"}
    /\ verdict \in [Attempts -> Answers \cup {None}]

Init ==
    /\ asked \in Scenarios
    /\ outbox = [c \in Commands |-> Absent]
    /\ tries = [c \in Commands |-> 0]
    /\ queue = <<>> /\ exec = Idle
    /\ observers = [c \in Commands |-> {}] /\ fallbacks = {} /\ overflow = FALSE
    /\ pending = {} /\ claim = [p \in Permissions |-> None]
    /\ status = [p \in Permissions |-> "none"] /\ faults = 0
    /\ reg = None
    /\ agent = [t \in Attempts |-> "away"]
    /\ chat = "alive" /\ link = "up" /\ drops = 0 /\ disc = "idle"
    /\ verdict = [t \in Attempts |-> None]

-----------------------------------------------------------------------------
(* Submission: adjudicate_existing and what submit_queued_action makes of  *)
(* it, under the gate.                                                     *)

\* A record with recovery material is always looked at under the broker's lock,
\* one without only while it has no terminal status.  What is replayed
\* (terminal_response) or blocked is answered at once and changes nothing.
Disposition(c) ==
    LET r == outbox[c]
    IN  CASE ~Present(r) -> "new"
          [] Present(r) /\ r.recovery = None /\ ~Live(r) -> "replay"
          [] Present(r) /\ (r.recovery # None \/ Live(r)) ->
               IF overflow \/ c \in fallbacks THEN "blocked"
               ELSE IF r.recovery = None THEN "attach"
               ELSE IF r.barrier \/ r.status # "intent_durable" \/ chat # "alive"
                    THEN "blocked" ELSE "resume"

Enqueue(c, k) ==
    /\ tries[c] < asked[c].tries
    /\ tries' = [tries EXCEPT ![c] = @ + 1]
    /\ queue' = Append(queue, [turn |-> <<c, tries[c] + 1>>, client |-> k])

\* A client answers a request the document shows; try_reserve fails on a closed chat.
SubmitNew(c, k) ==
    /\ Disposition(c) = "new"
    /\ status[asked[c].perm] # "none" /\ chat # "closed"
    /\ outbox' = [outbox EXCEPT ![c] = MarkAccepted(Insert("resolve"))]
    /\ Enqueue(c, k)
    /\ UNCHANGED <<asked, exec, broker, table, docs, reg, world, verdict>>

SubmitResume(c, k) ==
    /\ Disposition(c) = "resume"
    /\ Enqueue(c, k)
    /\ UNCHANGED <<asked, outbox, exec, broker, table, docs, reg, world, verdict>>

\* attach_observer; over a limit the client is told RATE_LIMITED.
Total == Cardinality({o \in Commands \X Clients : o[2] \in observers[o[1]]})
HasRoom(c) == Cardinality(observers[c]) < PerCommand /\ Total < Global
SubmitAttach(c, k) ==
    /\ Disposition(c) = "attach"
    /\ k \in observers[c] \/ HasRoom(c)
    /\ observers' = [observers EXCEPT ![c] = @ \cup {k}]
    /\ UNCHANGED <<asked, outbox, tries, queue, exec, fallbacks, overflow, table, docs, reg,
                   world, verdict>>

-----------------------------------------------------------------------------
(* PermissionResolution::execute.                                          *)

StartNext ==
    /\ exec = Idle /\ queue # <<>>
    /\ exec' = [Idle EXCEPT !.turn = Head(queue).turn, !.client = Head(queue).client,
                            !.pc = "option"]
    /\ queue' = Tail(queue)
    /\ UNCHANGED <<asked, outbox, tries, broker, table, docs, reg, world, verdict>>

Cmd == exec.turn[1]
Rec == outbox[Cmd]
Ask == asked[Cmd]
At(pc) == exec.pc = pc
Goto(pc, held) == exec' = [exec EXCEPT !.pc = pc, !.held = held]
Finish(answer) == exec' = [exec EXCEPT !.pc = "publish", !.answer = answer]
Store(accepted, after) == accepted /\ outbox' = [outbox EXCEPT ![Cmd] = after]

\* Mutant: a step the outbox refused is only answered if the record is still live.
DegradedWhileLive ==
    LET err == FromErrorCode("AGENT_UNAVAILABLE")
    IN  Store(CanMarkFailed(Rec, err), MarkFailed(Rec, err)) /\ Finish("retryable")
\* mark_failed with a retryable error, for a step that the outbox refused.
Degraded ==
    LET err == FromErrorCode("AGENT_UNAVAILABLE")
    IN  IF CanMarkFailed(Rec, err)
        THEN Store(TRUE, MarkFailed(Rec, err)) /\ Finish("retryable")
        ELSE UNCHANGED outbox /\ Finish("unknown")

TerminalFailed(code) ==
    LET err == [code |-> code, retryable |-> FALSE]
    IN  Store(CanMarkFailed(Rec, err), MarkFailed(Rec, err)) /\ Finish("failed")

Unknown == Store(CanMarkDeliveryUnknown(Rec), MarkDeliveryUnknown(Rec)) /\ Finish("unknown")

\* permission_option_valid on a live request, else what the recovery material says.
OptionValid ==
    \/ Ask.option = "none"
    \/ Ask.option = "listed" /\ (Ask.perm \in pending \/ Rec.recovery # None)

CheckOption ==
    /\ At("option")
    /\ IF ~OptionValid THEN Finish("failed") /\ UNCHANGED outbox
       ELSE IF Rec.recovery # None THEN Goto("claim", Rec.recovery) /\ UNCHANGED outbox
       ELSE IF CanMarkIntentDurable(Rec)
            THEN Store(TRUE, MarkIntentDurable(Rec)) /\ Goto("claim", None)
            ELSE Degraded
    /\ UNCHANGED <<asked, tries, queue, broker, table, docs, reg, world, verdict>>

\* Mutant: a request already bound to another command is handed out again.
ClaimableByAnyone(p, c) == p \in pending
Claimable(p, c) == p \in pending /\ claim[p] \in {None, c}

\* claim_pending_permission, then set_recovery.
Claim ==
    /\ At("claim")
    /\ LET mine == Claimable(Ask.perm, Cmd)
           held == IF mine THEN Ask.perm ELSE exec.held
       IN  /\ claim' = IF mine THEN [claim EXCEPT ![Ask.perm] = Cmd] ELSE claim
           /\ IF held = None THEN Goto("cas", None) /\ UNCHANGED outbox
              ELSE IF CanSetRecovery(Rec, held)
                   THEN Store(TRUE, SetRecovery(Rec, held)) /\ Goto("cas", held)
                   ELSE Degraded
    /\ UNCHANGED <<asked, tries, queue, broker, pending, docs, reg, world, verdict>>

Resolves(p) == status[p] = "pending"

\* DocCommand::ResolvePermission. A write that fails to persist is applied in memory
\* all the same.
Decide ==
    /\ At("cas") /\ chat # "closed" /\ Resolves(Ask.perm)
    /\ status' = [status EXCEPT ![Ask.perm] = Ask.decision]
    /\ \/ /\ Goto("barrier", exec.held)
          /\ UNCHANGED <<outbox, faults>>
       \/ /\ faults < MaxFaults
          /\ faults' = faults + 1
          /\ IF exec.held # None THEN Finish("retryable") /\ UNCHANGED outbox ELSE Unknown
    /\ UNCHANGED <<asked, tries, queue, broker, table, reg, world, verdict>>

\* The same decision again goes on if it holds the material, any other answer to a
\* request that is not pending is a duplicate, and its record is removed.
DecidedBefore ==
    /\ At("cas") /\ chat # "closed" /\ ~Resolves(Ask.perm)
    /\ IF status[Ask.perm] = Ask.decision /\ exec.held # None
       THEN Goto("barrier", exec.held) /\ UNCHANGED outbox
       ELSE Store(CanClearForRetry(Rec), ClearForRetry(Rec)) /\ Finish("duplicate")
    /\ UNCHANGED <<asked, tries, queue, broker, table, docs, reg, world, verdict>>

\* The writer of a closed chat is gone: CHAT_NOT_FOUND, and the record stays.
DecideOnClosed ==
    /\ At("cas") /\ chat = "closed"
    /\ Finish("failed")
    /\ UNCHANGED <<asked, outbox, tries, queue, broker, table, docs, reg, world, verdict>>

Barrier ==
    /\ At("barrier")
    /\ Store(CanMarkNoRedeliveryBarrier(Rec), RaiseBarrier(Rec))
    /\ Goto("forward", exec.held)
    /\ UNCHANGED <<asked, tries, queue, broker, table, docs, reg, world, verdict>>

\* Without material the answer is translated for the ACP session of the runtime, if
\* it has one.
LegacyUnbound ==
    /\ At("forward") /\ exec.held = None
    /\ Unknown
    /\ UNCHANGED <<asked, tries, queue, broker, table, docs, reg, world, verdict>>

\* forward_rpc, acknowledged once the agent's stdin took the frame.
ForwardAcked ==
    /\ At("forward") /\ link = "up" /\ chat = "alive"
    /\ agent' = [agent EXCEPT ![exec.turn] = "taken"]
    /\ IF exec.held # None THEN Goto("finish", exec.held) /\ UNCHANGED outbox
       ELSE Store(CanMarkDispatched(Rec), MarkDispatched(Rec)) /\ Goto("confirm", None)
    /\ UNCHANGED <<asked, tries, queue, broker, table, docs, reg, chat, link, drops, disc,
                   verdict>>

\* Offline, unknown instance or refused by it: proof that nothing was delivered.
ForwardNotDelivered ==
    /\ At("forward")
    /\ \E code \in {"AGENT_UNAVAILABLE", "INSTANCE_OFFLINE"} :
          /\ code = "INSTANCE_OFFLINE" => link = "down"
          /\ IF exec.held = None THEN TerminalFailed(code)
             ELSE /\ Store(CanMarkRecoveryNotDelivered(Rec), LowerBarrier(Rec, FromErrorCode(code)))
                  /\ Finish("retryable")
    /\ UNCHANGED <<asked, tries, queue, broker, table, docs, reg, world, verdict>>

\* Mutant: a timeout counts as proof of non-delivery.
TimeoutIsProof ==
    /\ At("forward") /\ link = "up" /\ exec.held # None
    /\ \E where \in {"away", "wire"} : agent' = [agent EXCEPT ![exec.turn] = where]
    /\ Store(TRUE, LowerBarrier(Rec, FromErrorCode("AGENT_UNAVAILABLE")))
    /\ Finish("retryable")
    /\ UNCHANGED <<asked, tries, queue, broker, table, docs, reg, chat, link, drops, disc,
                   verdict>>
\* Timeout or connection gone: the frame may still arrive.
ForwardUnknown ==
    /\ At("forward") /\ link = "up"
    /\ \E where \in {"away", "wire"} : agent' = [agent EXCEPT ![exec.turn] = where]
    /\ Unknown
    /\ UNCHANGED <<asked, tries, queue, broker, table, docs, reg, chat, link, drops, disc,
                   verdict>>

\* finish_official: the five transitions under one lock, then the table.
FinishOfficial ==
    LET confirmed == ClearRecovery(MarkDeliveryConfirmed(MarkDispatched(Rec)))
    IN  /\ At("finish")
        /\ Store(CanMarkDispatched(Rec), MarkCompleted(MarkProjectionCommitted(confirmed)))
        /\ pending' = pending \ {Ask.perm}
        /\ Finish("committed")
        /\ UNCHANGED <<asked, tries, queue, broker, claim, docs, reg, world, verdict>>

\* finish_legacy: the agent answers the rpc, refuses it, or stays silent.
ConfirmLegacy ==
    /\ At("confirm")
    /\ \/ /\ chat = "alive"
          /\ Store(CanMarkDeliveryConfirmed(Rec),
                   MarkCompleted(MarkProjectionCommitted(MarkDeliveryConfirmed(Rec))))
          /\ Finish("committed") /\ UNCHANGED agent
       \/ /\ chat = "alive"
          /\ TerminalFailed("AGENT_UNAVAILABLE")
          /\ agent' = [agent EXCEPT ![exec.turn] = "refused"]
       \/ Unknown /\ UNCHANGED agent
    /\ UNCHANGED <<asked, tries, queue, broker, table, docs, reg, chat, link, drops, disc,
                   verdict>>

\* publish_terminal; an answer of unknown delivery that the outbox does not hold is
\* kept as a fallback, and one too many blocks every observer from then on.
Publish ==
    LET unheld == exec.answer = "unknown" /\ Rec.status # "delivery_unknown"
        full == Cardinality(fallbacks) >= MaxFallbacks /\ Cmd \notin fallbacks
    IN  /\ At("publish") /\ exec.answer # "duplicate"
        /\ observers' = [observers EXCEPT ![Cmd] = {}]
        /\ fallbacks' = IF unheld /\ ~full THEN fallbacks \cup {Cmd} ELSE fallbacks
        /\ overflow' = (overflow \/ (unheld /\ full))
        /\ verdict' = [verdict EXCEPT ![exec.turn] = exec.answer]
        /\ exec' = Idle
        /\ UNCHANGED <<asked, outbox, tries, queue, table, docs, reg, world>>

\* exec_resolve sends a duplicate to the client it came from, past the broker.
SendDuplicate ==
    /\ At("publish") /\ exec.answer = "duplicate"
    /\ verdict' = [verdict EXCEPT ![exec.turn] = "duplicate"]
    /\ exec' = Idle
    /\ UNCHANGED <<asked, outbox, tries, queue, broker, table, docs, reg, world>>

-----------------------------------------------------------------------------
(* Requests of the agent (register_permission_request).                    *)

\* An official request enters the table, which drops entries of the chat that are
\* past their time; only then the document shows it.
RegisterRequest(p) ==
    /\ chat = "alive" /\ link = "up" /\ reg = None /\ status[p] = "none"
    /\ \E expired \in SUBSET pending : pending' = (pending \ expired) \cup {p}
    /\ claim' = [claim EXCEPT ![p] = None]
    /\ reg' = p
    /\ UNCHANGED <<asked, outbox, tries, queue, exec, broker, docs, world, verdict>>

\* The aggregator refuses events of a chat that is over.
ProjectRequest ==
    /\ reg # None
    /\ status' = IF chat = "alive" THEN [status EXCEPT ![reg] = "pending"] ELSE status
    /\ reg' = None
    /\ UNCHANGED <<asked, outbox, tries, queue, exec, broker, table, faults, world,
                   verdict>>

\* A request of an agent without official ones never enters the table.
LegacyRequest(p) ==
    /\ chat = "alive" /\ link = "up" /\ reg = None /\ status[p] = "none"
    /\ status' = [status EXCEPT ![p] = "pending"]
    /\ UNCHANGED <<asked, outbox, tries, queue, exec, broker, table, faults, reg, world,
                   verdict>>

-----------------------------------------------------------------------------
(* The handlers of relay_disconnect.rs, and the close of the chat.         *)

Disconnect ==
    /\ link = "up" /\ disc = "idle" /\ drops < MaxDrops
    /\ link' = "down" /\ drops' = drops + 1
    /\ disc' = IF chat = "alive" THEN "expire" ELSE "idle"
    /\ UNCHANGED <<asked, outbox, tries, queue, exec, broker, table, docs, reg, agent, chat,
                   verdict>>

Reconnect ==
    /\ link = "down" /\ link' = "up"
    /\ UNCHANGED <<asked, outbox, tries, queue, exec, broker, table, docs, reg, agent, chat,
                   drops, disc, verdict>>

DiscExpire ==
    /\ disc = "expire"
    /\ status' = IF chat = "closed" THEN status
                 ELSE [p \in Permissions |-> IF status[p] = "pending" THEN "expired" ELSE status[p]]
    /\ disc' = "clear"
    /\ UNCHANGED <<asked, outbox, tries, queue, exec, broker, table, faults, reg, agent,
                   chat, link, drops, verdict>>

DiscClear ==
    /\ disc = "clear"
    /\ pending' = {} /\ disc' = "idle"
    /\ UNCHANGED <<asked, outbox, tries, queue, exec, broker, claim, docs, reg, agent, chat,
                   link, drops, verdict>>

\* on_process_exit ends the chat and clears the table later; the document keeps what
\* is pending.
ProcessExit ==
    /\ chat = "alive" /\ chat' = "ended"
    /\ UNCHANGED <<asked, outbox, tries, queue, exec, broker, table, docs, reg, agent, link,
                   drops, disc, verdict>>

ExitClear ==
    /\ chat = "ended" /\ chat' = "gone" /\ pending' = {}
    /\ UNCHANGED <<asked, outbox, tries, queue, exec, broker, claim, docs, reg, agent, link,
                   drops, disc, verdict>>

\* A close that the executor carried out.
Close ==
    /\ exec = Idle /\ chat = "alive" /\ link = "up"
    /\ chat' = "closed"
    /\ UNCHANGED <<asked, outbox, tries, queue, exec, broker, table, docs, reg, agent, link,
                   drops, disc, verdict>>

-----------------------------------------------------------------------------
Executor ==
    \/ StartNext \/ CheckOption \/ Claim \/ Decide \/ DecidedBefore \/ DecideOnClosed
    \/ Barrier \/ LegacyUnbound \/ ForwardAcked \/ ForwardNotDelivered \/ ForwardUnknown
    \/ FinishOfficial \/ ConfirmLegacy \/ Publish \/ SendDuplicate

Environment ==
    \/ \E c \in Commands, k \in Clients :
          SubmitNew(c, k) \/ SubmitResume(c, k) \/ SubmitAttach(c, k)
    \/ \E p \in Permissions : RegisterRequest(p) \/ LegacyRequest(p)
    \/ ProjectRequest
    \/ Disconnect \/ Reconnect \/ DiscExpire \/ DiscClear
    \/ ProcessExit \/ ExitClear \/ Close

Next == Executor \/ Environment

Spec == Init /\ [][Next]_vars

\* The executor's task runs on: a forward returns within the command timeout, and the
\* wait for a legacy answer ends with its own. Nothing is asked of anyone else.
FairSpec == Spec /\ WF_vars(Executor)

-----------------------------------------------------------------------------
(* Safety.                                                                 *)

\* However many commands decide on a request, on whatever connections and however
\* often they are resubmitted, at most one answer to it reaches, or may still reach,
\* the agent (the claim, the compare-and-set and the barrier together).
OneAnswerToAgent ==
    \A s, t \in Attempts :
        /\ agent[s] # "away" /\ agent[t] # "away"
        /\ asked[s[1]].perm = asked[t[1]].perm
        => s = t

\* What the agent is told is what every client sees in the document, and goes on
\* seeing.
SentAsDecided ==
    \A t \in Attempts :
        agent[t] # "away" => status[asked[t[1]].perm] = asked[t[1]].decision

\* The agent hears one answer to its request, the one that every client sees.
AgentHearsDecision == OneAnswerToAgent /\ SentAsDecided

\* A client that is told that its decision failed can rely on it that this attempt did not
\* and will not reach the agent, unless the agent itself refused it; one that is told
\* committed can rely on the opposite.  And an error that is announced as retryable is one:
\* while the runtime lives, the same command submitted again is executed and not merely
\* told its fate (unless the fallbacks overflowed, which blocks every command for good).
AnswersAreTrue ==
    /\ \A t \in Attempts :
          /\ verdict[t] \in {"retryable", "failed", "duplicate"} => agent[t] \in {"away", "refused"}
          /\ verdict[t] = "committed" => agent[t] = "taken"
    /\ \A c \in Commands :
          tries[c] > 0 /\ verdict[<<c, tries[c]>>] = "retryable" /\ chat = "alive" /\ ~overflow =>
              Disposition(c) \in {"new", "resume"}

\* The broker's tables keep their limits, and what clients are told is true.
AnswersInv == TypeOK /\ AnswersAreTrue

\* What CommandPromise sees of an execution: where the answer is, or that the agent refused it.
FrameOf(t) == IF agent[t] \in {"away", "refused"} THEN agent[t] ELSE "sent"
Abstract ==
    INSTANCE CommandPromise WITH frame <- [t \in Attempts |-> FrameOf(t)],
                                 answer <- verdict, NoAnswer <- None

\* A decision on a permission keeps the promise of CommandPromise: what the broker, the table,
\* the document and the outbox do together is one execution that counts.
KeepsPromise == Abstract!Spec

\* No execution hangs, whatever the outbox refuses and whoever stays silent: again and
\* again, every one that was enqueued so far has ended with an answer (under FairSpec).
EveryExecutionAnswered ==
    []<>(\A c \in Commands : \A n \in 1..tries[c] : verdict[<<c, n>>] # None)

=============================================================================
