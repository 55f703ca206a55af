------------------------- MODULE OutboxStore_proofs -------------------------
(***************************************************************************)
(* What OutboxStore guarantees, for every set of commands, digests and     *)
(* recovery material and every number of attempts.                         *)
(*                                                                         *)
(* The argument is made on single records.  StepSound collects what one    *)
(* step may do to one record; RecordStep shows it for every store call and *)
(* PassStep for every restart pass, and everything else follows from the   *)
(* two because a step changes each entry of the index by one of them.      *)
(***************************************************************************)
EXTENDS OutboxStore, TLAPS

\* A well-formed record.
Sound(r) == r \in Record /\ BarrierFits(r) /\ StampFits(r)

\* A step from r to s keeps the record well formed and respects the three rules
\* of the life cycle.
StepSound(r, s) ==
    /\ Sound(s)
    /\ StaysTerminal(r, s)
    /\ UnknownStays(r, s)
    /\ BarrierHolds(r, s)

\* The restart pass that is answerable for the records of a command type.
PassOf(t) == IF t = "resolve" THEN "permission" ELSE t

\* A pass that has run left no live record of its type behind.
PassesDone ==
    mode = "restarting" =>
        \A c \in Commands : Live(index[c]) => PassOf(index[c].type) \in passes

IInv == TypeOK /\ BarrierShape /\ DispatchStamp /\ PassesDone

-----------------------------------------------------------------------------
LEMMA AbsentSound == Sound(Absent)
BY NoneIsNothing
   DEF Sound, Record, Absent, CommandTypes, OneShotTypes, Statuses, LiveStatuses, Terminal,
       NoError, Errors, Codes, BarrierFits, StampFits

LEMMA ErrorTyped == \A code \in Codes : FromErrorCode(code) \in Errors
<1>1. \A code : DefaultRetryable(code) \in BOOLEAN
  BY DEF DefaultRetryable
<1> QED
  BY <1>1 DEF FromErrorCode, Errors

\* The errors that appear in the model are errors.
LEMMA ErrorsUsed ==
    /\ CallerErrors \subseteq Errors
    /\ FromErrorCode("DELIVERY_UNKNOWN") \in Errors
    /\ [code |-> "AGENT_UNAVAILABLE", retryable |-> FALSE] \in Errors
BY ErrorTyped DEF CallerErrors, Errors, Codes

\* Every store call, made on a well-formed record that it accepts, is a sound step
\* of that record. The definitions common to all of them are expanded once.
LEMMA RecordStep ==
    ASSUME NEW r, Sound(r)
    PROVE  /\ \A t \in CommandTypes : CanInsert(r) => StepSound(r, Insert(t))
           /\ CanMarkAccepted(r) => StepSound(r, MarkAccepted(r))
           /\ r.type # "prompt" /\ CanMarkIntentDurable(r)
                 => StepSound(r, MarkIntentDurable(r))
           /\ \A fp \in Fingerprints : CanMarkPromptIntentDurable(r, fp)
                 => StepSound(r, MarkPromptIntentDurable(r, fp))
           /\ \A fp \in Fingerprints : CanSetPromptPayloadFingerprint(r, fp)
                 => StepSound(r, SetPromptPayloadFingerprint(r, fp))
           /\ r.type = "prompt" /\ CanMarkDispatchBarrier(r) => StepSound(r, RaiseBarrier(r))
           /\ CanMarkNoRedeliveryBarrier(r) => StepSound(r, RaiseBarrier(r))
           /\ \A err \in Errors :
                 \/ CanMarkRecoveryNotDelivered(r)
                 \/ CanMarkCancelNotDelivered(r)
                 => StepSound(r, LowerBarrier(r, err))
           /\ \A err \in Errors : CanMarkCreateCleanupConfirmed(r)
                 => StepSound(r, MarkCreateCleanupConfirmed(r, err))
           /\ \A ev \in Evidence : CanSetRecovery(r, ev) => StepSound(r, SetRecovery(r, ev))
           /\ CanClearRecovery(r) => StepSound(r, ClearRecovery(r))
           /\ CanMarkDispatched(r) => StepSound(r, MarkDispatched(r))
           /\ CanMarkDeliveryConfirmed(r) => StepSound(r, MarkDeliveryConfirmed(r))
           /\ CanMarkProjectionCommitted(r) => StepSound(r, MarkProjectionCommitted(r))
           /\ CanMarkCompleted(r) => StepSound(r, MarkCompleted(r))
           /\ \A err \in Errors : CanMarkFailed(r, err) => StepSound(r, MarkFailed(r, err))
           /\ CanMarkDeliveryUnknown(r) => StepSound(r, MarkDeliveryUnknown(r))
           /\ \A verdict \in Verdicts : CanResolveDeliveryUnknown(r)
                 => StepSound(r, ResolveDeliveryUnknown(r, verdict))
           /\ ~r.barrier /\ CanClearForRetry(r) => StepSound(r, ClearForRetry(r))
<1> USE NoneIsNothing
    DEF Sound, StepSound, Record, CommandTypes, OneShotTypes, Statuses, LiveStatuses, Terminal,
        BarrierFits, StampFits, StaysTerminal, UnknownStays, BarrierHolds, Live, RetryableClass,
        CanMove, Move, AllowedTransition
<1>1. \A t \in CommandTypes : CanInsert(r) => StepSound(r, Insert(t))
  BY DEF CanInsert, Insert, Absent, Present, NoError, Errors, Codes
<1>2. CanMarkAccepted(r) => StepSound(r, MarkAccepted(r))
  BY DEF CanMarkAccepted, MarkAccepted
<1>3. r.type # "prompt" /\ CanMarkIntentDurable(r) => StepSound(r, MarkIntentDurable(r))
  BY DEF CanMarkIntentDurable, MarkIntentDurable
<1>4. \A fp \in Fingerprints : CanMarkPromptIntentDurable(r, fp)
          => StepSound(r, MarkPromptIntentDurable(r, fp))
  BY DEF CanMarkPromptIntentDurable, MarkPromptIntentDurable
<1>5. \A fp \in Fingerprints : CanSetPromptPayloadFingerprint(r, fp)
          => StepSound(r, SetPromptPayloadFingerprint(r, fp))
  BY DEF CanSetPromptPayloadFingerprint, SetPromptPayloadFingerprint
<1>6. r.type = "prompt" /\ CanMarkDispatchBarrier(r) => StepSound(r, RaiseBarrier(r))
  BY DEF CanMarkDispatchBarrier, RaiseBarrier
<1>7. CanMarkNoRedeliveryBarrier(r) => StepSound(r, RaiseBarrier(r))
  BY DEF CanMarkNoRedeliveryBarrier, RaiseBarrier
<1>8. \A err \in Errors : CanMarkRecoveryNotDelivered(r) \/ CanMarkCancelNotDelivered(r)
          => StepSound(r, LowerBarrier(r, err))
  BY DEF CanMarkRecoveryNotDelivered, CanMarkCancelNotDelivered, LowerBarrier
<1>9. \A err \in Errors : CanMarkCreateCleanupConfirmed(r)
          => StepSound(r, MarkCreateCleanupConfirmed(r, err))
  BY DEF CanMarkCreateCleanupConfirmed, MarkCreateCleanupConfirmed, LowerBarrier
<1>10. \A ev \in Evidence : CanSetRecovery(r, ev) => StepSound(r, SetRecovery(r, ev))
  BY DEF CanSetRecovery, SetRecovery
<1>11. CanClearRecovery(r) => StepSound(r, ClearRecovery(r))
  BY DEF CanClearRecovery, ClearRecovery
<1>12. CanMarkDispatched(r) => StepSound(r, MarkDispatched(r))
  <2> DEFINE s == MarkDispatched(r)
  <2>1. SUFFICES ASSUME CanMarkDispatched(r) PROVE StepSound(r, s)
    OBVIOUS
  <2>2. /\ s.attempts = r.attempts + 1 /\ s.attempts \in Nat /\ s.attempts > 0
        /\ r.status = "intent_durable"
    BY <2>1 DEF CanMarkDispatched, MarkDispatched
  <2>3. s = [[[r EXCEPT !.status = "dispatched"] EXCEPT !.dispatchedAt = TRUE]
               EXCEPT !.attempts = s.attempts]
    BY DEF MarkDispatched
  <2> HIDE DEF s
  <2> QED
    BY <2>2, <2>3
<1>13. CanMarkDeliveryConfirmed(r) => StepSound(r, MarkDeliveryConfirmed(r))
  BY DEF CanMarkDeliveryConfirmed, MarkDeliveryConfirmed
<1>14. CanMarkProjectionCommitted(r) => StepSound(r, MarkProjectionCommitted(r))
  BY DEF CanMarkProjectionCommitted, MarkProjectionCommitted
<1>15. CanMarkCompleted(r) => StepSound(r, MarkCompleted(r))
  BY DEF CanMarkCompleted, MarkCompleted
<1>16. \A err \in Errors : CanMarkFailed(r, err) => StepSound(r, MarkFailed(r, err))
  <2> SUFFICES ASSUME NEW err \in Errors, CanMarkFailed(r, err)
               PROVE  StepSound(r, MarkFailed(r, err))
    OBVIOUS
  <2> DEFINE noted == [r EXCEPT !.lastError = err]
  <2>1. CASE ~err.retryable
    <3>1. MarkFailed(r, err) = Move(noted, "failed")
      BY ONLY <2>1 DEF MarkFailed
    <3> QED
      BY <3>1 DEF CanMarkFailed
  <2>2. CASE err.retryable /\ r.barrier
    <3>1. MarkFailed(r, err) = Move(noted, "delivery_unknown")
      BY ONLY <2>2 DEF MarkFailed
    <3> QED
      BY <2>2, <3>1 DEF CanMarkFailed
  <2>3. CASE /\ err.retryable /\ ~r.barrier
             /\ r.status \in {"dispatched", "delivery_confirmed", "projection_committed"}
    <3>1. MarkFailed(r, err) = [noted EXCEPT !.status = "intent_durable", !.dispatchedAt = FALSE]
      BY ONLY <2>3 DEF MarkFailed
    <3> QED
      BY <2>3, <3>1 DEF CanMarkFailed
  <2>4. CASE /\ err.retryable /\ ~r.barrier
             /\ r.status \notin {"dispatched", "delivery_confirmed", "projection_committed"}
    <3>1. MarkFailed(r, err) = Absent
      BY ONLY <2>4 DEF MarkFailed
    <3> QED
      BY <2>4, <3>1, AbsentSound DEF CanMarkFailed, Absent
  <2> QED
    BY ONLY <2>1, <2>2, <2>3, <2>4
<1>17. CanMarkDeliveryUnknown(r) => StepSound(r, MarkDeliveryUnknown(r))
  BY ErrorsUsed DEF CanMarkDeliveryUnknown, MarkDeliveryUnknown
<1>18. \A verdict \in Verdicts : CanResolveDeliveryUnknown(r)
          => StepSound(r, ResolveDeliveryUnknown(r, verdict))
  BY AbsentSound DEF CanResolveDeliveryUnknown, ResolveDeliveryUnknown, Absent, Verdicts
<1>19. ~r.barrier /\ CanClearForRetry(r) => StepSound(r, ClearForRetry(r))
  BY AbsentSound DEF CanClearForRetry, ClearForRetry, Absent
<1> QED
  BY ONLY <1>1, <1>2, <1>3, <1>4, <1>5, <1>6, <1>7, <1>8, <1>9, <1>10, <1>11, <1>12, <1>13,
     <1>14, <1>15, <1>16, <1>17, <1>18, <1>19

-----------------------------------------------------------------------------
\* What a restart pass may do to a record: a sound step after which the record is
\* live only if it was, and then it is still of the same type.
PassSound(r, s) ==
    StepSound(r, s) /\ (Live(s) => Live(r) /\ s.type = r.type)

\* The four things a pass does to a record it changes: each is sound, and none
\* leaves the record live.
LEMMA Convergence ==
    ASSUME NEW r, Sound(r), Live(r)
    PROVE  /\ PassSound(r, MarkDeliveryUnknown(r)) /\ ~Live(MarkDeliveryUnknown(r))
           /\ \A err \in Errors :
                 LET s == [Move(r, "failed") EXCEPT !.lastError = err]
                 IN  PassSound(r, s) /\ ~Live(s)
           /\ r.status \notin {"received", "accepted"} =>
                 PassSound(r, Move(r, "completed")) /\ ~Live(Move(r, "completed"))
           /\ ~r.barrier => PassSound(r, Absent) /\ ~Live(Absent)
<1> USE NoneIsNothing
    DEF Sound, StepSound, PassSound, Record, CommandTypes, OneShotTypes, Statuses, LiveStatuses,
        Terminal, BarrierFits, StampFits, StaysTerminal, UnknownStays, BarrierHolds, Live,
        RetryableClass, Move
<1>1. PassSound(r, MarkDeliveryUnknown(r)) /\ ~Live(MarkDeliveryUnknown(r))
  BY ErrorsUsed DEF MarkDeliveryUnknown
<1>2. \A err \in Errors :
         LET s == [Move(r, "failed") EXCEPT !.lastError = err]
         IN  PassSound(r, s) /\ ~Live(s)
  OBVIOUS
<1>3. r.status \notin {"received", "accepted"} =>
         PassSound(r, Move(r, "completed")) /\ ~Live(Move(r, "completed"))
  OBVIOUS
<1>4. ~r.barrier => PassSound(r, Absent) /\ ~Live(Absent)
  BY AbsentSound DEF Absent
<1> QED
  BY ONLY <1>1, <1>2, <1>3, <1>4

LEMMA Untouched == ASSUME NEW r, Sound(r) PROVE PassSound(r, r)
BY DEF Sound, StepSound, PassSound, StaysTerminal, UnknownStays, BarrierHolds

\* A record that never left the gateway has no barrier.
LEMMA NeverLeftNoBarrier == ASSUME NEW r, Sound(r), NeverLeft(r) PROVE ~r.barrier
BY DEF Sound, BarrierFits, NeverLeft

\* A pass that cannot fail does that, and leaves no live record of its own type.
LEMMA PassStep ==
    ASSUME NEW r, Sound(r), NEW p \in Passes \ {"prompt"}
    PROVE  /\ PassSound(r, AfterPass(p, r))
           /\ Live(AfterPass(p, r)) => PassOf(r.type) # p
<1> USE Untouched, Convergence, NeverLeftNoBarrier
<1>1. CASE p = "recovery"
  <2>1. AfterPass(p, r) = ReconcileRecovery(r)
    BY ONLY <1>1 DEF AfterPass
  <2>2. PassOf(r.type) # p
    BY <1>1 DEF Sound, Record, CommandTypes, OneShotTypes, PassOf
  <2>3. r.status \in {"intent_durable", "dispatched"} =>
             PassSound(r, Move(r, "delivery_unknown"))
    BY ONLY Sound(r), NoneIsNothing
       DEF Sound, StepSound, PassSound, Record, CommandTypes, OneShotTypes, Statuses,
           LiveStatuses, Terminal, BarrierFits, StampFits, StaysTerminal, UnknownStays,
           BarrierHolds, Live, RetryableClass, Move
  <2> QED
    BY ONLY <2>1, <2>2, <2>3, Sound(r), Untouched DEF ReconcileRecovery
<1>2. CASE p = "barriers"
  <2>1. AfterPass(p, r) = ReconcileBarrier(r)
    BY ONLY <1>2 DEF AfterPass
  <2>2. PassOf(r.type) # p
    BY <1>2 DEF Sound, Record, CommandTypes, OneShotTypes, PassOf
  <2> QED
    BY <2>1, <2>2 DEF ReconcileBarrier, Live, LiveStatuses
<1>3. CASE p \in {"create", "cancel"}
  <2>1. AfterPass(p, r) = ReconcileSafeRetry(r, p)
    BY ONLY <1>3 DEF AfterPass
  <2>2. CASE r.type # p \/ ~Live(r)
    BY <1>3, <2>1, <2>2 DEF ReconcileSafeRetry, PassOf
  <2>3. CASE r.type = p /\ Live(r) /\ NeverLeft(r)
    BY <2>1, <2>3 DEF ReconcileSafeRetry
  <2>4. CASE r.type = p /\ Live(r) /\ ~NeverLeft(r)
    BY <2>1, <2>4 DEF ReconcileSafeRetry, NeverLeft, MarkCompleted
  <2> QED
    BY ONLY <2>2, <2>3, <2>4
<1>4. CASE p = "close"
  <2>1. AfterPass(p, r) = ReconcileClose(r)
    BY ONLY <1>4 DEF AfterPass
  <2>2. r.type = "close" => ~r.barrier
    BY DEF Sound, BarrierFits, RetryableClass
  <2>3. ASSUME r.type = "close", r.status = "delivery_unknown"
        PROVE  PassSound(r, Absent) /\ ~Live(Absent)
    BY <2>2, <2>3, AbsentSound
       DEF PassSound, StepSound, StaysTerminal, UnknownStays, BarrierHolds, Absent, Live,
           LiveStatuses, Terminal
  <2> QED
    BY <1>4, <2>1, <2>2, <2>3 DEF ReconcileClose, PassOf
<1>5. ASSUME NEW t \in OneShotTypes
      PROVE  /\ PassSound(r, ReconcileOneShot(r, t))
             /\ Live(ReconcileOneShot(r, t)) => r.type # t
  <2> DEFINE failure == [code |-> "AGENT_UNAVAILABLE", retryable |-> FALSE]
  <2>1. CASE r.type # t \/ ~Live(r)
    BY <2>1 DEF ReconcileOneShot
  <2>2. CASE r.type = t /\ Live(r) /\ NeverLeft(r)
    <3>1. MarkFailed(r, failure) = [[r EXCEPT !.lastError = failure] EXCEPT !.status = "failed"]
      BY ONLY DEF MarkFailed, Move
    <3>2. ReconcileOneShot(r, t) = MarkFailed(r, failure)
      BY ONLY <2>2 DEF ReconcileOneShot
    <3>3. failure \in Errors
      BY ONLY ErrorsUsed
    <3> HIDE DEF failure
    <3>4. [[r EXCEPT !.lastError = failure] EXCEPT !.status = "failed"]
           = [Move(r, "failed") EXCEPT !.lastError = failure]
      BY DEF Sound, Record, Move
    <3> QED
      BY ONLY <2>2, <3>1, <3>2, <3>3, <3>4, Convergence, Sound(r)
  <2>3. CASE /\ r.type = t /\ Live(r)
             /\ \/ r.status = "dispatched"
                \/ r.status = "intent_durable" /\ r.barrier
    BY <2>3 DEF ReconcileOneShot, NeverLeft
  <2>4. CASE r.type = t /\ r.status = "delivery_confirmed"
    <3>1. ReconcileOneShot(r, t) = MarkCompleted(MarkProjectionCommitted(ClearRecovery(r)))
      BY <2>4 DEF ReconcileOneShot, NeverLeft, Live, LiveStatuses
    <3> QED
      BY ONLY <2>4, <3>1, NoneIsNothing, Sound(r)
         DEF Sound, StepSound, PassSound, Record, CommandTypes, OneShotTypes, Statuses,
             LiveStatuses, Terminal, BarrierFits, StampFits, StaysTerminal, UnknownStays,
             BarrierHolds, Live, RetryableClass, Move, MarkCompleted, MarkProjectionCommitted,
             ClearRecovery
  <2>5. CASE r.type = t /\ r.status = "projection_committed"
    BY <2>5 DEF ReconcileOneShot, NeverLeft, MarkCompleted, Live, LiveStatuses
  <2>6. Live(r) => \/ NeverLeft(r)
                   \/ r.status = "dispatched"
                   \/ r.status = "intent_durable" /\ r.barrier
                   \/ r.status \in {"delivery_confirmed", "projection_committed"}
    BY ONLY DEF Live, LiveStatuses, NeverLeft
  <2> QED
    BY ONLY <2>1, <2>2, <2>3, <2>4, <2>5, <2>6
<1>6. CASE p \in {"permission", "elicitation", "question"}
  <2> DEFINE t == IF p = "permission" THEN "resolve" ELSE p
  <2>1. AfterPass(p, r) = ReconcileOneShot(r, t) /\ t \in OneShotTypes
    BY ONLY <1>6 DEF AfterPass, OneShotTypes
  <2>2. PassOf(r.type) = p => r.type = t
    BY <1>6 DEF Sound, Record, CommandTypes, OneShotTypes, PassOf
  <2>3. PassSound(r, AfterPass(p, r)) /\ (Live(AfterPass(p, r)) => r.type # t)
    BY ONLY <1>5, <2>1
  <2> QED
    BY ONLY <2>2, <2>3
<1> QED
  BY ONLY <1>1, <1>2, <1>3, <1>4, <1>6, p \in Passes \ {"prompt"} DEF Passes

\* The prompt pass does it too, wherever it can carry out its decision, and no
\* prompt stays live.
LEMMA PromptPassStep ==
    ASSUME NEW r, Sound(r), NEW exact \in BOOLEAN, ~PromptTargetRefused(r, exact)
    PROVE  /\ PassSound(r, ReconcilePrompt(r, exact))
           /\ Live(ReconcilePrompt(r, exact)) => PassOf(r.type) # "prompt"
<1> USE Untouched, Convergence, ErrorsUsed
<1>1. CASE PromptTarget(r, exact) = "none"
  BY <1>1 DEF ReconcilePrompt, PromptTarget, PassOf
<1>2. CASE PromptTarget(r, exact) = "failed"
  BY <1>2 DEF ReconcilePrompt, PromptTarget
<1>3. CASE PromptTarget(r, exact) = "delivery_unknown"
  BY <1>3 DEF ReconcilePrompt, PromptTarget
<1>4. CASE PromptTarget(r, exact) = "completed"
  BY <1>4 DEF ReconcilePrompt, PromptTarget
<1> QED
  BY ONLY <1>1, <1>2, <1>3, <1>4 DEF PromptTarget

-----------------------------------------------------------------------------
\* In a state of the invariant every record is well formed.
LEMMA AllSound == ASSUME IInv, NEW c \in Commands PROVE Sound(index[c])
BY DEF IInv, TypeOK, BarrierShape, DispatchStamp, Sound

\* A store call on c replaces the record of c by a sound step of it.
LEMMA CallStep ==
    ASSUME IInv, NEW c \in Commands, StoreCall(c)
    PROVE  /\ \E s : StepSound(index[c], s) /\ index' = [index EXCEPT ![c] = s]
           /\ mode = "serving" /\ mode' = mode /\ passes' = passes
<1> DEFINE r == index[c]
<1>1. Sound(r)
  BY AllSound
<1> HIDE DEF r
<1>2. ASSUME NEW accepted, NEW s, accepted => StepSound(r, s), Call(c, accepted, s)
      PROVE  /\ \E u : StepSound(r, u) /\ index' = [index EXCEPT ![c] = u]
             /\ mode = "serving" /\ mode' = mode /\ passes' = passes
  BY ONLY <1>2 DEF Call
<1>3. CASE \E t \in CommandTypes : InsertNew(c, t)
  BY ONLY <1>1, <1>2, <1>3, RecordStep DEF InsertNew, r
<1>4. CASE Accept(c)
  BY ONLY <1>1, <1>2, <1>4, RecordStep DEF Accept, r
<1>5. CASE PromptCall(c)
  <2>1. CASE \E fp \in Fingerprints : PromptIntentDurable(c, fp)
    BY ONLY <1>1, <1>2, <2>1, RecordStep DEF PromptIntentDurable, r
  <2>2. CASE \E fp \in Fingerprints : AttachFingerprint(c, fp)
    BY ONLY <1>1, <1>2, <2>2, RecordStep DEF AttachFingerprint, r
  <2>3. CASE r.type = "prompt" /\ DispatchBarrier(c)
    BY ONLY <1>1, <1>2, <2>3, RecordStep DEF DispatchBarrier, r
  <2> QED
    BY ONLY <1>5, <2>1, <2>2, <2>3 DEF PromptCall, r
<1>6. CASE PlainCall(c)
  BY ONLY <1>1, <1>2, <1>6, RecordStep DEF PlainCall, IntentDurable, r
<1>7. CASE NoRedeliveryBarrier(c)
  BY ONLY <1>1, <1>2, <1>7, RecordStep DEF NoRedeliveryBarrier, r
<1>8. CASE \E err \in CallerErrors : RecoveryNotDelivered(c, err)
  BY ONLY <1>1, <1>2, <1>8, RecordStep, ErrorsUsed DEF RecoveryNotDelivered, r
<1>9. CASE \E err \in CallerErrors : CancelNotDelivered(c, err)
  BY ONLY <1>1, <1>2, <1>9, RecordStep, ErrorsUsed DEF CancelNotDelivered, r
<1>10. CASE \E err \in CallerErrors : CreateCleanupConfirmed(c, err)
  BY ONLY <1>1, <1>2, <1>10, RecordStep, ErrorsUsed DEF CreateCleanupConfirmed, r
<1>11. CASE \E ev \in Evidence : AttachRecovery(c, ev)
  BY ONLY <1>1, <1>2, <1>11, RecordStep DEF AttachRecovery, r
<1>12. CASE DropRecovery(c)
  BY ONLY <1>1, <1>2, <1>12, RecordStep DEF DropRecovery, r
<1>13. CASE Dispatched(c)
  BY ONLY <1>1, <1>2, <1>13, RecordStep DEF Dispatched, r
<1>14. CASE DeliveryConfirmed(c)
  BY ONLY <1>1, <1>2, <1>14, RecordStep DEF DeliveryConfirmed, r
<1>15. CASE ProjectionCommitted(c)
  BY ONLY <1>1, <1>2, <1>15, RecordStep DEF ProjectionCommitted, r
<1>16. CASE Completed(c)
  BY ONLY <1>1, <1>2, <1>16, RecordStep DEF Completed, r
<1>17. CASE \E err \in CallerErrors : Failed(c, err)
  BY ONLY <1>1, <1>2, <1>17, RecordStep, ErrorsUsed DEF Failed, r
<1>18. CASE DeliveryUnknown(c)
  BY ONLY <1>1, <1>2, <1>18, RecordStep DEF DeliveryUnknown, r
<1>19. CASE \E verdict \in Verdicts : Resolve(c, verdict)
  BY ONLY <1>1, <1>2, <1>19, RecordStep DEF Resolve, r
<1>20. CASE RetireUnsent(c)
  BY ONLY <1>1, <1>2, <1>20, RecordStep DEF RetireUnsent, ClearRetry, r
<1> QED
  BY ONLY StoreCall(c), <1>3, <1>4, <1>5, <1>6, <1>7, <1>8, <1>9, <1>10, <1>11, <1>12, <1>13,
     <1>14, <1>15, <1>16, <1>17, <1>18, <1>19, <1>20 DEF StoreCall, r

-----------------------------------------------------------------------------
\* What a step of the whole store may do: a sound step of every record.
IndexStep ==
    /\ index' \in [Commands -> Record]
    /\ \A c \in Commands : StepSound(index[c], index'[c])

\* Every step is one, and keeps the account of the restart passes.
LEMMA StepIsSound ==
    ASSUME IInv, [Next]_vars
    PROVE  IndexStep /\ TypeOK' /\ PassesDone'
<1>0. index \in [Commands -> Record] /\ mode \in {"serving", "restarting", "refused"}
      /\ passes \in SUBSET Passes /\ PassesDone
  BY DEF IInv, TypeOK
<1>00. \A c \in Commands : Sound(index[c]) /\ StepSound(index[c], index[c])
  BY AllSound, Untouched DEF PassSound
<1>1. CASE \E c \in Commands : StoreCall(c)
  <2>1. PICK c \in Commands : StoreCall(c)
    BY <1>1
  <2>2. /\ \E s : StepSound(index[c], s) /\ index' = [index EXCEPT ![c] = s]
        /\ mode = "serving" /\ mode' = mode /\ passes' = passes
    BY <2>1, CallStep
  <2>3. PICK s : StepSound(index[c], s) /\ index' = [index EXCEPT ![c] = s]
    BY <2>2
  <2>4. s \in Record
    BY <2>3 DEF StepSound, Sound
  <2>5. IndexStep
    BY ONLY <1>0, <1>00, <2>3, <2>4 DEF IndexStep
  <2> QED
    BY ONLY <1>0, <2>2, <2>5 DEF IndexStep, TypeOK, PassesDone
<1>2. CASE LoseExecutors
  <2>1. IndexStep
    BY ONLY <1>0, <1>00, <1>2 DEF LoseExecutors, IndexStep
  <2>2. PassesDone'
    <3>1. \A c \in Commands : PassOf(index'[c].type) \in Passes
      BY ONLY <2>1 DEF IndexStep, Record, CommandTypes, OneShotTypes, PassOf, Passes
    <3> QED
      BY ONLY <1>2, <3>1 DEF LoseExecutors, PassesDone, Live, PassOf
  <2> QED
    BY ONLY <1>0, <1>2, <2>1, <2>2 DEF LoseExecutors, IndexStep, TypeOK
<1>3. ASSUME NEW p \in Passes, "restarting" = mode, passes' = passes \ {p}, mode' = mode,
             NEW after, index' = [c \in Commands |-> after[c]],
             \A c \in Commands : /\ PassSound(index[c], after[c])
                                 /\ Live(after[c]) => PassOf(index[c].type) # p
      PROVE  IndexStep /\ TypeOK' /\ PassesDone'
  <2>1. IndexStep
    BY ONLY <1>3 DEF IndexStep, PassSound, StepSound, Sound
  <2>2. PassesDone'
    BY ONLY <1>0, <1>3 DEF PassesDone, PassSound
  <2> QED
    BY ONLY <1>0, <1>3, <2>1, <2>2 DEF IndexStep, TypeOK
<1>4. CASE \E p \in Passes \ {"prompt"} : ReconcilePass(p)
  <2>1. PICK p \in Passes \ {"prompt"} : ReconcilePass(p)
    BY <1>4
  <2> DEFINE after == [c \in Commands |-> AfterPass(p, index[c])]
  <2>2. \A c \in Commands : /\ PassSound(index[c], after[c])
                            /\ Live(after[c]) => PassOf(index[c].type) # p
    BY ONLY <1>00, PassStep
  <2>3. index' = [c \in Commands |-> after[c]]
    BY ONLY <2>1 DEF ReconcilePass
  <2> HIDE DEF after
  <2> QED
    BY ONLY <1>3, <2>1, <2>2, <2>3 DEF ReconcilePass
<1>5. CASE \E exact \in SUBSET Commands : ReconcilePromptPass(exact)
  <2>1. PICK exact \in SUBSET Commands : ReconcilePromptPass(exact)
    BY <1>5
  <2> DEFINE after == [c \in Commands |-> ReconcilePrompt(index[c], c \in exact)]
  <2>2. ASSUME NEW c \in Commands
        PROVE  /\ PassSound(index[c], after[c])
               /\ Live(after[c]) => PassOf(index[c].type) # "prompt"
    <3>1. ~PromptTargetRefused(index[c], c \in exact) /\ (c \in exact) \in BOOLEAN
      BY ONLY <2>1 DEF ReconcilePromptPass
    <3>2. after[c] = ReconcilePrompt(index[c], c \in exact)
      OBVIOUS
    <3> HIDE DEF after
    <3> QED
      BY ONLY <1>00, <3>1, <3>2, PromptPassStep
  <2>3. index' = [c \in Commands |-> after[c]]
    BY ONLY <2>1 DEF ReconcilePromptPass
  <2> HIDE DEF after
  <2> QED
    BY ONLY <1>3, <2>1, <2>2, <2>3 DEF ReconcilePromptPass, Passes
<1>6. CASE \E exact, done \in SUBSET Commands : ReconcilePromptRefused(exact, done)
  <2>1. PICK exact \in SUBSET Commands, done \in SUBSET Commands :
                ReconcilePromptRefused(exact, done)
    BY <1>6
  <2>2. ASSUME NEW c \in Commands PROVE StepSound(index[c], index'[c])
    <3>1. CASE c \in done
      <4>1. ~PromptTargetRefused(index[c], c \in exact) /\ (c \in exact) \in BOOLEAN
        BY ONLY <2>1, <3>1 DEF ReconcilePromptRefused
      <4>2. index'[c] = ReconcilePrompt(index[c], c \in exact)
        BY ONLY <2>1, <3>1 DEF ReconcilePromptRefused
      <4> QED
        BY ONLY <1>00, <4>1, <4>2, PromptPassStep DEF PassSound
    <3>2. CASE c \notin done
      <4>1. index'[c] = index[c]
        BY ONLY <2>1, <3>2 DEF ReconcilePromptRefused
      <4> QED
        BY ONLY <1>00, <4>1
    <3> QED
      BY ONLY <3>1, <3>2
  <2>3. IndexStep
    BY ONLY <2>1, <2>2 DEF ReconcilePromptRefused, IndexStep, StepSound, Sound
  <2> QED
    BY ONLY <1>0, <2>1, <2>3 DEF ReconcilePromptRefused, IndexStep, TypeOK, PassesDone
<1>7. CASE ServeAgain
  BY ONLY <1>0, <1>00, <1>7 DEF ServeAgain, IndexStep, TypeOK, PassesDone
<1>8. CASE UNCHANGED vars
  BY ONLY <1>0, <1>00, <1>8 DEF vars, IndexStep, TypeOK, PassesDone, Live
<1> QED
  BY ONLY [Next]_vars, <1>1, <1>2, <1>4, <1>5, <1>6, <1>7, <1>8 DEF Next, Restart

LEMMA InitInv == ASSUME Init PROVE IInv
<1>1. \A c \in Commands : Sound(index[c])
  BY AbsentSound DEF Init
<1> QED
  BY <1>1 DEF Init, IInv, TypeOK, Sound, BarrierShape, DispatchStamp, PassesDone

LEMMA NextInv == ASSUME IInv, [Next]_vars PROVE IInv'
<1>1. IndexStep /\ TypeOK' /\ PassesDone'
  BY StepIsSound
<1> QED
  BY <1>1 DEF IInv, IndexStep, StepSound, Sound, BarrierShape, DispatchStamp

LEMMA Invariance == Spec => []IInv
BY InitInv, NextInv, PTL DEF Spec

-----------------------------------------------------------------------------
\* Every record of every reachable store is a record of the type the code declares,
\* whatever methods were called on it and however often the executors were lost.
THEOREM TypeCorrect == Spec => []TypeOK
<1>1. IInv => TypeOK
  BY DEF IInv
<1> QED
  BY <1>1, Invariance, PTL

\* The no-redelivery barrier is raised only where it may be: never on a close, never
\* before the intent, on a prompt only with the v2 marker and a digest; and
\* dispatched_at is set exactly while an attempt is out.
THEOREM RecordTheorem == Spec => []RecordsAreSound
<1>1. IInv => RecordsAreSound
  BY DEF IInv, RecordsAreSound
<1> QED
  BY <1>1, Invariance, PTL

\* After a loss of the executors the gateway serves again only with every record
\* terminal, unknown or gone.
THEOREM ConvergenceTheorem == Spec => []ConvergedBeforeServing
<1>1. IInv => ConvergedBeforeServing
  BY DEF IInv, PassesDone, ConvergedBeforeServing
<1> QED
  BY <1>1, Invariance, PTL

\* No step changes or removes a completed or failed record, or turns an unknown delivery
\* into a failure or into something executable.
THEOREM OutcomeTheorem == Spec => OutcomeStands
<1>1. IInv /\ [Next]_vars
        => \A c \in Commands : /\ StaysTerminal(index[c], index'[c])
                              /\ UnknownStays(index[c], index'[c])
  BY StepIsSound DEF IndexStep, StepSound
<1> QED
  BY <1>1, Invariance, PTL DEF Spec, OutcomeStands

\* No step takes the barrier away without a proof of non-delivery or a retirement.
THEOREM BarrierHoldsTheorem == Spec => BarrierFailsClosed
<1>1. IInv /\ [Next]_vars => \A c \in Commands : BarrierHolds(index[c], index'[c])
  BY StepIsSound DEF IndexStep, StepSound
<1> QED
  BY <1>1, Invariance, PTL DEF Spec, BarrierFailsClosed
=============================================================================
