---------------------------- MODULE OutboxRecord ----------------------------
(***************************************************************************)
(* One record of the server's command outbox (server/src/persist/outbox.rs *)
(* and its two implementation files) and what every method of OutboxStore  *)
(* does to it.                                                             *)
(*                                                                         *)
(* A method is a pair of operators over the record:  CanM(r)  holds iff    *)
(* the Rust method returns Ok, and  M(r)  is the record it leaves behind.  *)
(* A method that returns Err leaves the record alone.  A missing record is *)
(* a record with status "absent", so that removing one is a value like any *)
(* other.  Time stamps are reduced to "set or not"; ids, created_at and    *)
(* updated_at are left out.                                                *)
(***************************************************************************)
EXTENDS Integers, FiniteSets

CONSTANTS Fingerprints,   \* digests of prompt payloads
          Evidence,       \* permission / elicitation recovery material
          None            \* Rust's Option::None

ASSUME NoneIsNothing == None \notin Fingerprints \cup Evidence

-----------------------------------------------------------------------------
OneShotTypes == {"resolve", "elicitation", "question"}
CommandTypes == {"create", "prompt", "cancel", "close"} \cup OneShotTypes

\* CommandType::default_retryable_class
RetryableClass(t) == IF t = "close" THEN "safe_to_redeliver" ELSE "no_auto_redeliver"

LiveStatuses == {"received", "accepted", "intent_durable", "dispatched",
                 "delivery_confirmed", "projection_committed"}
Terminal == {"completed", "failed"}
Statuses == LiveStatuses \cup Terminal \cup {"delivery_unknown", "absent"}

Codes == {"AGENT_UNAVAILABLE", "INSTANCE_OFFLINE", "INVALID_STATE", "CHAT_NOT_FOUND",
          "RATE_LIMITED", "DELIVERY_UNKNOWN"}
\* ErrorCode::default_retryable
DefaultRetryable(code) == code \in {"AGENT_UNAVAILABLE", "INSTANCE_OFFLINE"}

Errors == [code : Codes, retryable : BOOLEAN]
\* LastError::from_error_code
FromErrorCode(code) == [code |-> code, retryable |-> DefaultRetryable(code)]
NoError == [code |-> "INVALID_STATE", retryable |-> FALSE]

Record == [type : CommandTypes, status : Statuses, barrier : BOOLEAN, v2 : BOOLEAN,
           fingerprint : Fingerprints \cup {None}, recovery : Evidence \cup {None},
           dispatchedAt : BOOLEAN, attempts : Nat, lastError : Errors]

\* The record of a commandId the store does not hold.
Absent == [type |-> "prompt", status |-> "absent", barrier |-> FALSE, v2 |-> FALSE,
           fingerprint |-> None, recovery |-> None, dispatchedAt |-> FALSE,
           attempts |-> 0, lastError |-> NoError]

Present(r) == r.status # "absent"
Live(r) == r.status \in LiveStatuses

-----------------------------------------------------------------------------
(* The table allowed_transition and the method transition() built on it.   *)

AllowedTransition(from, to) ==
    <<from, to>> \in
      { <<"received", "accepted">>, <<"received", "failed">>,
        <<"accepted", "intent_durable">>, <<"accepted", "failed">>,
        <<"intent_durable", "dispatched">>, <<"intent_durable", "delivery_unknown">>,
        <<"intent_durable", "failed">>,
        <<"dispatched", "delivery_confirmed">>, <<"dispatched", "delivery_unknown">>,
        <<"dispatched", "failed">>,
        <<"delivery_confirmed", "projection_committed">>,
        <<"delivery_confirmed", "delivery_unknown">>, <<"delivery_confirmed", "failed">>,
        <<"projection_committed", "completed">>,
        <<"projection_committed", "delivery_unknown">>,
        <<"projection_committed", "failed">>,
        <<"delivery_unknown", "completed">>, <<"delivery_unknown", "delivery_unknown">> }

CanMove(r, to) == AllowedTransition(r.status, to)
Move(r, to) == [r EXCEPT !.status = to]

-----------------------------------------------------------------------------
(* outbox_commands.rs                                                      *)

CanInsert(r) == ~Present(r)
Insert(t) == [Absent EXCEPT !.type = t, !.status = "received"]

CanMarkAccepted(r) == CanMove(r, "accepted")
MarkAccepted(r) == [Move(r, "accepted") EXCEPT !.dispatchedAt = FALSE]

CanMarkIntentDurable(r) == CanMove(r, "intent_durable")
MarkIntentDurable(r) == Move(r, "intent_durable")

\* A different digest than the one already attached is StoreError::Corrupt.
NoConflict(r, fp) == r.fingerprint \in {None, fp}

CanMarkPromptIntentDurable(r, fp) == CanMove(r, "intent_durable") /\ NoConflict(r, fp)
MarkPromptIntentDurable(r, fp) ==
    [Move(r, "intent_durable") EXCEPT !.v2 = TRUE, !.fingerprint = fp, !.barrier = FALSE]

CanSetPromptPayloadFingerprint(r, fp) == r.status = "accepted" /\ NoConflict(r, fp)
SetPromptPayloadFingerprint(r, fp) == [r EXCEPT !.fingerprint = fp]

\* The additive no-redelivery barrier: status stays intent_durable.
CanMarkDispatchBarrier(r) ==
    r.status = "intent_durable" /\ r.v2 /\ r.fingerprint # None
\* Mutant: the retryable class is not looked at.
AnyClassBarrier(r) == r.status = "intent_durable" /\ r.type # "prompt"
CanMarkNoRedeliveryBarrier(r) ==
    /\ r.status = "intent_durable"
    /\ r.type # "prompt"
    /\ RetryableClass(r.type) = "no_auto_redeliver"
RaiseBarrier(r) == [r EXCEPT !.barrier = TRUE]

\* The three proofs of non-delivery that lower the barrier again.
CanMarkRecoveryNotDelivered(r) ==
    /\ r.status = "intent_durable"
    /\ r.type \in OneShotTypes
    /\ r.recovery # None
    /\ r.barrier
CanMarkCancelNotDelivered(r) ==
    r.status = "intent_durable" /\ r.type = "cancel" /\ r.barrier
LowerBarrier(r, err) == [r EXCEPT !.barrier = FALSE, !.lastError = err]

CanMarkCreateCleanupConfirmed(r) ==
    /\ r.type = "create"
    /\ r.barrier
    /\ r.status \in {"intent_durable", "dispatched", "delivery_confirmed"}
MarkCreateCleanupConfirmed(r, err) ==
    [LowerBarrier(r, err) EXCEPT !.status = "intent_durable", !.dispatchedAt = FALSE]

CanSetRecovery(r, ev) == r.status = "intent_durable" /\ r.recovery \in {None, ev}
SetRecovery(r, ev) == [r EXCEPT !.recovery = ev]

CanClearRecovery(r) == r.status = "delivery_confirmed"
ClearRecovery(r) == [r EXCEPT !.recovery = None]

CanMarkDispatched(r) == CanMove(r, "dispatched")
MarkDispatched(r) ==
    [Move(r, "dispatched") EXCEPT !.dispatchedAt = TRUE, !.attempts = @ + 1]

CanMarkDeliveryConfirmed(r) == CanMove(r, "delivery_confirmed")
MarkDeliveryConfirmed(r) == Move(r, "delivery_confirmed")

CanMarkProjectionCommitted(r) == CanMove(r, "projection_committed")
MarkProjectionCommitted(r) == Move(r, "projection_committed")

CanMarkCompleted(r) == CanMove(r, "completed")
MarkCompleted(r) == Move(r, "completed")

CanMarkDeliveryUnknown(r) == CanMove(r, "delivery_unknown")
MarkDeliveryUnknown(r) ==
    [Move(r, "delivery_unknown") EXCEPT !.lastError = FromErrorCode("DELIVERY_UNKNOWN")]

\* mark_failed: a terminal or unknown record is refused; a retryable error
\* behind the barrier becomes delivery_unknown (and is refused where the table
\* has no such edge); a retryable error after dispatch falls back to
\* intent_durable, before dispatch it removes the record.
\* Mutant: a record whose delivery is unknown may be failed.
FailUnknownToo(r, err) == Live(r) \/ r.status = "delivery_unknown"
CanMarkFailed(r, err) ==
    /\ Live(r)
    /\ err.retryable /\ r.barrier => CanMove(r, "delivery_unknown")
\* Mutant: a retryable error ignores the barrier.
RetryablePastBarrier(r, err) ==
    LET noted == [r EXCEPT !.lastError = err]
    IN  IF ~err.retryable THEN Move(noted, "failed")
        ELSE IF r.dispatchedAt
             THEN [noted EXCEPT !.status = "intent_durable", !.dispatchedAt = FALSE]
             ELSE Absent
MarkFailed(r, err) ==
    LET noted == [r EXCEPT !.lastError = err]
    IN  IF ~err.retryable THEN Move(noted, "failed")
        ELSE IF r.barrier THEN Move(noted, "delivery_unknown")
        ELSE IF r.status \in {"dispatched", "delivery_confirmed", "projection_committed"}
             THEN [noted EXCEPT !.status = "intent_durable", !.dispatchedAt = FALSE]
             ELSE Absent

-----------------------------------------------------------------------------
(* outbox_reconcile.rs                                                     *)

Verdicts == {"confirmed_delivered", "confirmed_not_delivered", "still_unknown"}
CanResolveDeliveryUnknown(r) == r.status = "delivery_unknown"
ResolveDeliveryUnknown(r, verdict) ==
    CASE verdict = "confirmed_delivered" -> Move(r, "completed")
      [] verdict = "confirmed_not_delivered" -> Absent
      [] verdict = "still_unknown" -> r

CanClearForRetry(r) == r.status \in {"intent_durable", "delivery_unknown"}
ClearForRetry(r) == Absent

\* reconcile_recovery_after_restart
ReconcileRecovery(r) ==
    IF r.recovery # None /\ r.status \in {"intent_durable", "dispatched"}
    THEN Move(r, "delivery_unknown") ELSE r

\* reconcile_no_redelivery_barriers_after_restart
ReconcileBarrier(r) ==
    IF r.type \notin {"prompt", "create"} /\ r.status = "intent_durable" /\ r.barrier
    THEN MarkDeliveryUnknown(r) ELSE r

NeverLeft(r) ==
    \/ r.status \in {"received", "accepted"}
    \/ r.status = "intent_durable" /\ ~r.barrier

\* converge_safe_retry_after_restart, for create and cancel
\* Mutant: a create that is confirmed but not yet projected is left alone.
SafeRetrySkipsConfirmed(r, t) ==
    IF r.type # t \/ ~Live(r) \/ r.status = "delivery_confirmed" THEN r
    ELSE IF NeverLeft(r) THEN Absent
    ELSE IF r.status = "projection_committed" THEN MarkCompleted(r)
    ELSE MarkDeliveryUnknown(r)
ReconcileSafeRetry(r, t) ==
    IF r.type # t \/ ~Live(r) THEN r
    ELSE IF NeverLeft(r) THEN Absent
    ELSE IF r.status = "projection_committed" THEN MarkCompleted(r)
    ELSE MarkDeliveryUnknown(r)

\* reconcile_close_after_restart
ReconcileClose(r) ==
    IF r.type = "close" /\ (Live(r) \/ r.status = "delivery_unknown") THEN Absent ELSE r

\* converge_one_shot_after_restart, for permission, elicitation and question
ReconcileOneShot(r, t) ==
    IF r.type # t \/ ~Live(r) THEN r
    ELSE IF NeverLeft(r)
         THEN MarkFailed(r, [code |-> "AGENT_UNAVAILABLE", retryable |-> FALSE])
    ELSE IF r.status \in {"intent_durable", "dispatched"} THEN MarkDeliveryUnknown(r)
    ELSE IF r.status = "delivery_confirmed"
         THEN MarkCompleted(MarkProjectionCommitted(ClearRecovery(r)))
    ELSE MarkCompleted(r)

\* reconcile_prompt_delivery_after_restart: what is decided for a record, given
\* whether exact terminal evidence of it was found in the projection ...
PromptTarget(r, exact) ==
    IF r.type # "prompt" \/ ~Live(r) THEN "none"
    ELSE IF r.status \in {"received", "accepted"} THEN "failed"
    ELSE IF r.status = "intent_durable" /\ r.v2 /\ ~r.barrier THEN "failed"
    ELSE IF r.status # "intent_durable" /\ r.v2 /\ r.fingerprint # None /\ exact
         THEN "completed"
    ELSE "delivery_unknown"
\* ... the decision the store cannot carry out: mark_completed on a record that
\* is still dispatched is an InvalidTransition, and the whole pass returns Err ...
PromptTargetRefused(r, exact) ==
    PromptTarget(r, exact) = "completed" /\ r.status = "dispatched"
\* ... and the record the carried-out decision leaves.
ReconcilePrompt(r, exact) ==
    CASE PromptTarget(r, exact) = "none" -> r
      [] PromptTarget(r, exact) = "failed" ->
            [Move(r, "failed") EXCEPT
               !.lastError = [code |-> "AGENT_UNAVAILABLE", retryable |-> FALSE]]
      [] PromptTarget(r, exact) = "delivery_unknown" -> MarkDeliveryUnknown(r)
      [] PromptTarget(r, exact) = "completed" -> Move(r, "completed")
=============================================================================
