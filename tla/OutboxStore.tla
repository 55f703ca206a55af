----------------------------- MODULE OutboxStore -----------------------------
(***************************************************************************)
(* The outbox as a component: one record per commandId, and one action per *)
(* method of OutboxStore.  The callers are not modelled here, so a method  *)
(* may be called on any record at any time; the one discipline assumed of  *)
(* them is PromptCall and PlainCall.  What is checked and proved is what   *)
(* the store guarantees whoever calls it; PromptTurn models the callers.   *)
(*                                                                         *)
(* The restart passes of outbox_reconcile.rs run while no caller does:     *)
(* LoseExecutors stands for the loss of every in-process executor, and the *)
(* gateway serves again (ServeAgain) once every pass returned Ok.  Today   *)
(* the store lives in memory, the server runs the prompt pass only and     *)
(* always finds an empty index; records that survive are met in the        *)
(* store's own tests.  The passes are modelled as the store offers them.   *)
(***************************************************************************)
EXTENDS OutboxRecord

CONSTANTS Commands,     \* command ids
          MaxAttempts   \* bound on attempt_count, for TLC only

ASSUME AttemptsAssumption == MaxAttempts \in Nat \ {0}

VARIABLES index,        \* OutboxStore.index, total over Commands
          mode,         \* "serving", "restarting" or "refused" (startup failed)
          passes        \* restart passes still to run

vars == <<index, mode, passes>>

Passes == {"recovery", "barriers", "create", "cancel", "close",
           "permission", "elicitation", "question", "prompt"}

TypeOK ==
    /\ index \in [Commands -> Record]
    /\ mode \in {"serving", "restarting", "refused"}
    /\ passes \in SUBSET Passes

Init ==
    /\ index = [c \in Commands |-> Absent]
    /\ mode = "serving"
    /\ passes = {}

-----------------------------------------------------------------------------
(* One store call on the record of c: it is accepted, and this is the      *)
(* record it leaves.                                                       *)
Call(c, accepted, after) ==
    /\ mode = "serving"
    /\ accepted
    /\ index' = [index EXCEPT ![c] = after]
    /\ UNCHANGED <<mode, passes>>

InsertNew(c, t) == Call(c, CanInsert(index[c]), Insert(t))

Accept(c) == Call(c, CanMarkAccepted(index[c]), MarkAccepted(index[c]))

IntentDurable(c) ==
    Call(c, CanMarkIntentDurable(index[c]), MarkIntentDurable(index[c]))

PromptIntentDurable(c, fp) ==
    Call(c, CanMarkPromptIntentDurable(index[c], fp), MarkPromptIntentDurable(index[c], fp))

AttachFingerprint(c, fp) ==
    Call(c, CanSetPromptPayloadFingerprint(index[c], fp),
            SetPromptPayloadFingerprint(index[c], fp))

DispatchBarrier(c) == Call(c, CanMarkDispatchBarrier(index[c]), RaiseBarrier(index[c]))

NoRedeliveryBarrier(c) ==
    Call(c, CanMarkNoRedeliveryBarrier(index[c]), RaiseBarrier(index[c]))

RecoveryNotDelivered(c, err) ==
    Call(c, CanMarkRecoveryNotDelivered(index[c]), LowerBarrier(index[c], err))

CancelNotDelivered(c, err) ==
    Call(c, CanMarkCancelNotDelivered(index[c]), LowerBarrier(index[c], err))

CreateCleanupConfirmed(c, err) ==
    Call(c, CanMarkCreateCleanupConfirmed(index[c]),
            MarkCreateCleanupConfirmed(index[c], err))

AttachRecovery(c, ev) ==
    Call(c, CanSetRecovery(index[c], ev), SetRecovery(index[c], ev))

DropRecovery(c) == Call(c, CanClearRecovery(index[c]), ClearRecovery(index[c]))

Dispatched(c) ==
    /\ index[c].attempts < MaxAttempts
    /\ Call(c, CanMarkDispatched(index[c]), MarkDispatched(index[c]))

DeliveryConfirmed(c) ==
    Call(c, CanMarkDeliveryConfirmed(index[c]), MarkDeliveryConfirmed(index[c]))

ProjectionCommitted(c) ==
    Call(c, CanMarkProjectionCommitted(index[c]), MarkProjectionCommitted(index[c]))

Completed(c) == Call(c, CanMarkCompleted(index[c]), MarkCompleted(index[c]))

Failed(c, err) == Call(c, CanMarkFailed(index[c], err), MarkFailed(index[c], err))

DeliveryUnknown(c) ==
    Call(c, CanMarkDeliveryUnknown(index[c]), MarkDeliveryUnknown(index[c]))

Resolve(c, verdict) ==
    Call(c, CanResolveDeliveryUnknown(index[c]), ResolveDeliveryUnknown(index[c], verdict))

ClearRetry(c) == Call(c, CanClearForRetry(index[c]), ClearForRetry(index[c]))

-----------------------------------------------------------------------------
LoseExecutors ==
    /\ mode = "serving"
    /\ mode' = "restarting"
    /\ passes' = Passes
    /\ UNCHANGED index

\* What a pass that cannot fail makes of a record.
AfterPass(p, r) ==
    CASE p = "recovery" -> ReconcileRecovery(r)
      [] p = "barriers" -> ReconcileBarrier(r)
      [] p = "create" -> ReconcileSafeRetry(r, "create")
      [] p = "cancel" -> ReconcileSafeRetry(r, "cancel")
      [] p = "close" -> ReconcileClose(r)
      [] p = "permission" -> ReconcileOneShot(r, "resolve")
      [] p = "elicitation" -> ReconcileOneShot(r, "elicitation")
      [] p = "question" -> ReconcileOneShot(r, "question")

ReconcilePass(p) ==
    /\ mode = "restarting"
    /\ p \in passes
    /\ index' = [c \in Commands |-> AfterPass(p, index[c])]
    /\ passes' = passes \ {p}
    /\ UNCHANGED mode

\* The prompt pass, given the commands whose exact terminal evidence was found.
ReconcilePromptPass(exact) ==
    /\ mode = "restarting"
    /\ "prompt" \in passes
    /\ \A c \in Commands : ~PromptTargetRefused(index[c], c \in exact)
    /\ index' = [c \in Commands |-> ReconcilePrompt(index[c], c \in exact)]
    /\ passes' = passes \ {"prompt"}
    /\ UNCHANGED mode

\* The pass stops at the first record the store refuses to complete, having
\* carried out any subset of the other decisions (HashMap order), and startup fails.
ReconcilePromptRefused(exact, done) ==
    /\ mode = "restarting"
    /\ "prompt" \in passes
    /\ \E c \in Commands : PromptTargetRefused(index[c], c \in exact)
    /\ \A c \in done : ~PromptTargetRefused(index[c], c \in exact)
    /\ index' = [c \in Commands |-> IF c \in done THEN ReconcilePrompt(index[c], c \in exact)
                                                  ELSE index[c]]
    /\ mode' = "refused"
    /\ UNCHANGED passes

ServeAgain ==
    /\ mode = "restarting"
    /\ passes = {}
    /\ mode' = "serving"
    /\ UNCHANGED <<index, passes>>

-----------------------------------------------------------------------------
(* The errors callers pass to the failing methods.                         *)
CallerErrors == {FromErrorCode(code) : code \in {"AGENT_UNAVAILABLE", "INVALID_STATE"}}

\* What only the prompt path calls, and what it never calls: the methods do not
\* check the type themselves, prompt_delivery.rs and queued_submission.rs do.
PromptCall(c) ==
    /\ index[c].type = "prompt"
    /\ \/ \E fp \in Fingerprints : PromptIntentDurable(c, fp)
       \/ \E fp \in Fingerprints : AttachFingerprint(c, fp)
       \/ DispatchBarrier(c)

PlainCall(c) ==
    /\ index[c].type # "prompt"
    /\ IntentDurable(c)

\* The callers of clear_for_retry retire only what no frame can have left for:
\* permission_resolution.rs before it raises the barrier, runtime_closure.rs a
\* close, which has none.
RetireUnsent(c) == ~index[c].barrier /\ ClearRetry(c)

StoreCall(c) ==
    \/ \E t \in CommandTypes : InsertNew(c, t)
    \/ Accept(c)
    \/ PromptCall(c)
    \/ PlainCall(c)
    \/ NoRedeliveryBarrier(c)
    \/ \E err \in CallerErrors : RecoveryNotDelivered(c, err)
    \/ \E err \in CallerErrors : CancelNotDelivered(c, err)
    \/ \E err \in CallerErrors : CreateCleanupConfirmed(c, err)
    \/ \E ev \in Evidence : AttachRecovery(c, ev)
    \/ DropRecovery(c)
    \/ Dispatched(c)
    \/ DeliveryConfirmed(c)
    \/ ProjectionCommitted(c)
    \/ Completed(c)
    \/ \E err \in CallerErrors : Failed(c, err)
    \/ DeliveryUnknown(c)
    \/ \E verdict \in Verdicts : Resolve(c, verdict)
    \/ RetireUnsent(c)

Restart ==
    \/ LoseExecutors
    \/ \E p \in Passes \ {"prompt"} : ReconcilePass(p)
    \/ \E exact \in SUBSET Commands : ReconcilePromptPass(exact)
    \/ \E exact, done \in SUBSET Commands : ReconcilePromptRefused(exact, done)
    \/ ServeAgain

Next == (\E c \in Commands : StoreCall(c)) \/ Restart

Spec == Init /\ [][Next]_vars

-----------------------------------------------------------------------------
(* Safety.                                                                 *)

\* A raised barrier is always one its command type may have, at a place in the
\* life cycle where a frame may be on its way: never on a close, never before
\* the intent, and on a prompt only with the v2 marker and the digest that a
\* reconnecting client is compared with (mark_dispatch_barrier,
\* mark_no_redelivery_barrier and every method that keeps or clears the flag).
BarrierFits(r) ==
    r.barrier =>
        /\ RetryableClass(r.type) = "no_auto_redeliver"
        /\ r.status \notin {"absent", "received", "accepted"}
        /\ r.type = "prompt" => r.v2 /\ r.fingerprint # None
BarrierShape == \A c \in Commands : BarrierFits(index[c])

\* dispatched_at says exactly that an attempt is out: it is set from dispatched
\* on, and a record that fell back to intent_durable or was never sent shows none
\* (the fallback of mark_failed and mark_create_cleanup_confirmed must reset it).
StampFits(r) ==
    /\ r.status \in {"dispatched", "delivery_confirmed", "projection_committed"}
            => r.dispatchedAt
    /\ r.status \in {"absent", "received", "accepted", "intent_durable"}
            => ~r.dispatchedAt
    /\ r.dispatchedAt => r.attempts > 0
DispatchStamp == \A c \in Commands : StampFits(index[c])

\* Every record is one the store can explain: it has its type, a barrier only where one may
\* be, and a stamp that fits its status, after any sequence of calls and restarts.
RecordsAreSound == TypeOK /\ BarrierShape /\ DispatchStamp

\* Once the gateway serves again after the loss of its executors, no command is
\* left in a state whose owner is gone (outbox_reconcile.rs: every nonterminal
\* record converges before clients are accepted).
ConvergedBeforeServing ==
    mode = "restarting" /\ passes = {} => \A c \in Commands : ~Live(index[c])

\* Completed and failed are final: no call and no restart pass ever changes or
\* removes such a record, so a duplicate always meets the outcome it had.
StaysTerminal(r, s) == r.status \in Terminal => s = r

\* An unknown delivery is left only by a verdict or by retiring the record: it
\* never turns into a failure and never becomes executable again in place.
UnknownStays(r, s) ==
    r.status = "delivery_unknown" => s.status \in {"delivery_unknown", "completed", "absent"}

\* What a command came to stands: no call and no restart pass rewrites a known outcome, and
\* an unknown one gives way to a verdict only.
OutcomeStands ==
    [][\A c \in Commands : /\ StaysTerminal(index[c], index'[c])
                          /\ UnknownStays(index[c], index'[c])]_vars

\* Behind the barrier nothing short of a proof gives the command back. A step
\* that takes a raised barrier away either keeps the record at intent_durable
\* with no attempt on it (one of the proofs of non-delivery) or retires a record
\* whose delivery is already known to be unknown. In particular no error does,
\* retryable or not, however early in the life cycle it comes.
BarrierHolds(r, s) ==
    r.barrier /\ ~s.barrier =>
        \/ s.status = "intent_durable" /\ ~s.dispatchedAt
        \/ s = Absent /\ r.status = "delivery_unknown"
BarrierFailsClosed == [][\A c \in Commands : BarrierHolds(index[c], index'[c])]_vars
=============================================================================
