-------------------------- MODULE PromptTurn_proofs --------------------------
(***************************************************************************)
(* Prompts and cancels are executed at most once, their answers are true,  *)
(* one turn is active at a time and it ends once: for any set of commands, *)
(* any number of executions, places, failing writes and lost connections.  *)
(*                                                                         *)
(* The argument follows an attempt through its life.  It is ahead (its     *)
(* command has not been accepted that often), waiting, executed by the one *)
(* executor, or answered; and its command's record, the agent, the entry   *)
(* in the documents and the answer agree on which (AttemptOK).  Where the  *)
(* executor stands fixes the record and what the agent may have            *)
(* (PromptInv, CancelInv), the registry and the loop exist only behind the *)
(* dispatch (LoopInv), and a loading document shows the prompt under way   *)
(* (DocInv).  A record is removed before the last write of a prompt that   *)
(* was not delivered, so that a resubmission may overtake the end of the   *)
(* attempt it repeats: the one attempt that is executed and not current    *)
(* (Withdrawn).                                                            *)
(*                                                                         *)
(* The last part shows that this is the promise of CommandPromise: each    *)
(* action is one step of it or changes nothing that it speaks of.          *)
(***************************************************************************)
EXTENDS PromptTurn, SequenceTheorems, TLAPS

Late == {"wait", "adjudge", "terminal", "entry", "existing", "close",
         "unknown", "downgrade", "giveup"}
Reached == {"running", "answered"}
Refusals == {"AGENT_UNAVAILABLE", "CHAT_NOT_FOUND", "INVALID_STATE"}

Accepted(c) == outbox[c].status = "accepted" /\ ~outbox[c].barrier
Untouched(t) == agent[t] = "away" /\ doc.entry[t] = "none" /\ doc.assistant[t] = "none"
Executing(t) == t \in {prompt.turn, cancel.turn}
Current(t) == tries[t[1]] = t[2]
Withdrawn(t) == t = prompt.turn /\ prompt.pc = "undeliver" /\ DefaultRetryable(prompt.note)

Outcome(t) ==
    LET r == outbox[t[1]]
    IN  /\ verdict[t] = "none" => Accepted(t[1]) /\ Untouched(t)
        /\ verdict[t] = "retryable" => r = Absent /\ agent[t] = "away"
        /\ verdict[t] = "failed" => r.status = "failed" /\ agent[t] = "away"
        /\ verdict[t] = "unknown" => r.status = "delivery_unknown"
        /\ verdict[t] = "committed" =>
              /\ r.status = "completed" /\ agent[t] \in Reached
              /\ IsPrompt(t) => doc.entry[t] = "completed"

AttemptOK(t) ==
    /\ t[2] > tries[t[1]] => verdict[t] = "none" /\ Untouched(t) /\ ~Executing(t)
    /\ t[2] < tries[t[1]] => agent[t] = "away" /\ (verdict[t] = "retryable" \/ Withdrawn(t))
    /\ Executing(t) => verdict[t] = "none"
    /\ Current(t) /\ ~Executing(t) => Outcome(t)
    /\ doc.entry[t] = "failed_not_delivered" =>
          agent[t] = "away" /\ verdict[t] \in {"retryable", "failed"}

AttemptsInv == \A t \in Attempts : AttemptOK(t)

PromptInv ==
    LET p == prompt.turn
        pc == prompt.pc
        status == PromptRecord.status
    IN  IF pc = "idle" THEN prompt = NoPrompt
        ELSE /\ p \in Attempts /\ IsPrompt(p)
             /\ Current(p) \/ Withdrawn(p)
             /\ pc = "register" => Accepted(p[1]) /\ Untouched(p)
             /\ pc = "prepare" => Accepted(p[1])
             /\ pc = "failing" => status \in {"accepted", "intent_durable"} /\ ~PromptRecord.barrier
             /\ pc \in {"prepare", "failing", "undeliver", "forward"} => agent[p] = "away"
             /\ pc \in {"failing", "undeliver"} => prompt.note \in Refusals
             /\ pc = "undeliver" /\ Current(p) =>
                   IF DefaultRetryable(prompt.note) THEN PromptRecord = Absent ELSE status = "failed"
             /\ pc \in {"forward", "dispatched"} => status = "intent_durable"
             /\ pc = "wait" => status = "dispatched"
             /\ pc \in {"adjudge", "existing"} => status \in {"dispatched", "delivery_confirmed"}
             /\ pc \in {"terminal", "entry", "close"} => status = "delivery_confirmed"
             /\ pc = "unknown" => status \in {"intent_durable", "dispatched", "delivery_confirmed"}
             /\ pc \in {"downgrade", "giveup"} => status = "delivery_unknown"
             /\ pc \in {"dispatched", "wait", "adjudge", "terminal", "existing", "entry", "close"} =>
                   agent[p] \in Reached
             /\ pc \in {"wait", "adjudge", "terminal", "existing", "entry", "close"} =>
                   PromptRecord.dispatchedAt
             /\ pc = "terminal" => prompt.note \in Stops \ {"error"}
             /\ pc = "close" => doc.entry[p] = "completed"
             /\ pc # "register" => doc.entry[p] # "none"
             /\ pc \in {"entry", "close", "existing", "giveup"} => ~Loading(doc)
             /\ pc \in {"downgrade", "giveup"} =>
                   doc.entry[p] # "pending" \/ doc.assistant[p] = "terminal"

CancelInv ==
    LET c == cancel.turn
        status == CancelRecord.status
    IN  IF cancel.pc = "idle" THEN cancel = NoCancel
        ELSE /\ c \in Attempts /\ ~IsPrompt(c) /\ Current(c)
             /\ cancel.pc = "intent" => status = "accepted"
             /\ cancel.pc \in {"mark", "forward"} => status = "intent_durable"
             /\ cancel.pc \in {"intent", "mark", "forward"} => agent[c] = "away"
             /\ cancel.pc \in {"settle", "close", "blurred"} =>
                   status = "delivery_confirmed" /\ agent[c] \in Reached
             /\ cancel.pc = "close" /\ cancel.target # None => ~Owns(doc, cancel.target)

LoopInv ==
    /\ active # None => active = prompt.turn /\ prompt.pc \in Late
    /\ loop # "off" => prompt.pc \in Late
    /\ prompt.pc # "idle" /\ (active # None \/ loop # "off" \/ cancel.pc # "idle") =>
          prompt.pc \in Late /\ agent[prompt.turn] \in Reached /\ PromptRecord.dispatchedAt

DocInv ==
    /\ doc.turn # None => doc.entry[doc.turn] # "none"
    /\ doc.turn # None /\ doc.assistant[doc.turn] = "terminal" => ~Loading(doc)
    /\ Loading(doc) => doc.turn # None /\ doc.turn = prompt.turn
    /\ Loading(doc) => prompt.pc \notin {"idle", "register"}
    /\ \A t \in Attempts : doc.entry[t] = "pending" =>
          t = prompt.turn \/ doc.assistant[t] = "terminal"

LineInv ==
    /\ backlog = deferred \o queue
    /\ \A i \in DOMAIN backlog :
          Current(backlog[i]) /\ verdict[backlog[i]] = "none" /\ ~Executing(backlog[i])
    /\ \A i, j \in DOMAIN backlog : backlog[i] = backlog[j] => i = j

IInv == TypeOK /\ LineInv /\ ReserveBalance /\ AttemptsInv /\ PromptInv /\ CancelInv /\ LoopInv /\ DocInv

-----------------------------------------------------------------------------
(* Constants and sequences.                                                *)
LEMMA AttemptEq == \A s, t \in Attempts : s[1] = t[1] /\ s[2] = t[2] => s = t
BY DEF Attempts

LEMMA NoneIsNoAttempt == None \notin Attempts
BY PromptTurnAssumption DEF PromptTurnAssumption

LEMMA Apart == \A s, t \in Attempts : IsPrompt(s) /\ ~IsPrompt(t) => s[1] # t[1]
BY DEF IsPrompt

LEMMA TakenFromFront ==
    ASSUME NEW d \in Seq(Attempts), NEW q \in Seq(Attempts), d # <<>>
    PROVE  RemoveAt(d \o q, 1) = Tail(d) \o q
BY DEF RemoveAt

LEMMA TakenFromBehind ==
    ASSUME NEW d \in Seq(Attempts), NEW q \in Seq(Attempts), q # <<>>
    PROVE  RemoveAt(d \o q, Len(d) + 1) = d \o Tail(q)
<1>1. /\ Len(d) \in Nat /\ Len(q) \in Nat \ {0}
      /\ d \o q \in Seq(Attempts) /\ Len(d \o q) = Len(d) + Len(q)
  BY ConcatProperties, EmptySeq, LenProperties
<1>2. SubSeq(d \o q, 1, Len(d)) = d
  <2>1. CASE Len(d) = 0
    <3>1. SubSeq(d \o q, 1, Len(d)) = <<>>
      BY <1>1, <2>1, SubSeqEmpty
    <3> QED
      BY <2>1, <3>1, EmptySeq
  <2>2. CASE Len(d) # 0
    <3>1. 1 \in 1..Len(d) /\ Len(d) \in 1..Len(d)
      BY <1>1, <2>2
    <3> QED
      BY <3>1, SubSeqOfConcat1, SubSeqFull
  <2> QED
    BY <2>1, <2>2
<1>3. SubSeq(d \o q, Len(d) + 2, Len(d) + Len(q)) = Tail(q)
  <2>1. Tail(q) = SubSeq(q, 2, Len(q))
    BY TailIsSubSeq
  <2>2. CASE Len(q) = 1
    <3>1. Len(d) + 2 \in Int /\ Len(d) + Len(q) \in Int /\ Len(d) + Len(q) < Len(d) + 2
      BY <1>1, <2>2
    <3>2. SubSeq(d \o q, Len(d) + 2, Len(d) + Len(q)) = <<>>
      BY <3>1, SubSeqEmpty
    <3>3. SubSeq(q, 2, Len(q)) = <<>>
      BY <2>2, SubSeqEmpty
    <3> QED
      BY <2>1, <3>2, <3>3
  <2>3. CASE Len(q) # 1
    <3>1. \A k \in Nat, l \in Nat \ {0, 1} :
             k + 2 \in k + 1 .. k + l /\ k + l \in k + 1 .. k + l /\ (k + 2) - k = 2 /\ (k + l) - k = l
      OBVIOUS
    <3>2. Len(d) \in Nat /\ Len(q) \in Nat \ {0, 1}
      BY <1>1, <2>3
    <3>3. /\ Len(d) + 2 \in Len(d) + 1 .. Len(d) + Len(q)
          /\ Len(d) + Len(q) \in Len(d) + 1 .. Len(d) + Len(q)
          /\ (Len(d) + 2) - Len(d) = 2 /\ (Len(d) + Len(q)) - Len(d) = Len(q)
      BY <3>1, <3>2, Zenon
    <3>4. SubSeq(d \o q, Len(d) + 2, Len(d) + Len(q))
             = SubSeq(q, (Len(d) + 2) - Len(d), (Len(d) + Len(q)) - Len(d))
      BY <3>3, SubSeqOfConcat2
    <3> QED
      BY <2>1, <3>3, <3>4, Zenon
  <2> QED
    BY <2>2, <2>3
<1>4. (Len(d) + 1) - 1 = Len(d) /\ (Len(d) + 1) + 1 = Len(d) + 2
  <2>1. \A k \in Nat : (k + 1) - 1 = k /\ (k + 1) + 1 = k + 2
    OBVIOUS
  <2> QED
    BY <1>1, <2>1, Zenon
<1> QED
  BY <1>1, <1>2, <1>3, <1>4, Zenon DEF RemoveAt

LEMMA PutBehind ==
    ASSUME NEW d \in Seq(Attempts), NEW q \in Seq(Attempts), q # <<>>
    PROVE  Append(d, Head(q)) \o Tail(q) = d \o q
OBVIOUS

LEMMA AppendBehind ==
    ASSUME NEW d \in Seq(Attempts), NEW q \in Seq(Attempts), NEW t \in Attempts
    PROVE  d \o Append(q, t) = Append(d \o q, t)
OBVIOUS

-----------------------------------------------------------------------------
(* What the methods of the outbox leave of a record.                       *)
LEMMA ErrorTyped == \A code \in Codes : FromErrorCode(code) \in Errors
<1>1. \A code : DefaultRetryable(code) \in BOOLEAN
  BY DEF DefaultRetryable
<1> QED
  BY <1>1 DEF FromErrorCode, Errors

LEMMA AbsentTyped == Absent \in Record /\ Absent.status = "absent"
BY DEF Absent, Record, CommandTypes, OneShotTypes, Statuses, LiveStatuses, Terminal, NoError,
       Errors, Codes

LEMMA AcceptedTyped ==
    ASSUME NEW c \in Commands
    PROVE  /\ AcceptedRecord(c) \in Record
           /\ AcceptedRecord(c).status = "accepted" /\ ~AcceptedRecord(c).barrier
<1> USE DEF MarkAccepted, Insert, Move, Absent, Record, CommandTypes, OneShotTypes, Statuses,
       LiveStatuses, Terminal, NoError, Errors, Codes
<1>1. (CHOOSE fp \in Fingerprints : TRUE) \in Fingerprints
  BY PromptTurnAssumption DEF PromptTurnAssumption
<1> DEFINE fp == CHOOSE fp \in Fingerprints : TRUE
<1> HIDE DEF fp
<1>2. /\ MarkAccepted(Insert("cancel")) \in Record
      /\ MarkAccepted(Insert("cancel")).status = "accepted"
      /\ ~MarkAccepted(Insert("cancel")).barrier
  OBVIOUS
<1>3. LET r == SetPromptPayloadFingerprint(MarkAccepted(Insert("prompt")), fp)
      IN  r \in Record /\ r.status = "accepted" /\ ~r.barrier
  BY <1>1 DEF SetPromptPayloadFingerprint, fp
<1> QED
  BY <1>2, <1>3 DEF AcceptedRecord, fp

LEMMA RecordSteps ==
    ASSUME NEW r \in Record
    PROVE  /\ LET s == RaiseBarrier(r)
              IN  s \in Record /\ s.status = r.status
           /\ LET s == MarkIntentDurable(r)
              IN  s \in Record /\ s.status = "intent_durable"
           /\ \A fp \in Fingerprints :
                 LET s == MarkPromptIntentDurable(r, fp)
                 IN  s \in Record /\ s.status = "intent_durable" /\ ~s.barrier
           /\ LET s == MarkDispatched(r)
              IN  s \in Record /\ s.status = "dispatched" /\ s.dispatchedAt
           /\ LET s == MarkDeliveryConfirmed(r)
              IN  /\ s \in Record /\ s.status = "delivery_confirmed"
                  /\ s.dispatchedAt = r.dispatchedAt
           /\ LET s == MarkCompleted(MarkProjectionCommitted(r))
              IN  s \in Record /\ s.status = "completed"
           /\ LET s == MarkDeliveryUnknown(r)
              IN  /\ s \in Record /\ s.status = "delivery_unknown"
                  /\ s.dispatchedAt = r.dispatchedAt
<1> USE DEF Record, Statuses, LiveStatuses, Terminal, Move
<1>1. LET s == RaiseBarrier(r) IN s \in Record /\ s.status = r.status
  BY DEF RaiseBarrier
<1>2. LET s == MarkIntentDurable(r) IN s \in Record /\ s.status = "intent_durable"
  BY DEF MarkIntentDurable
<1>3. \A fp \in Fingerprints :
         LET s == MarkPromptIntentDurable(r, fp)
         IN  s \in Record /\ s.status = "intent_durable" /\ ~s.barrier
  BY DEF MarkPromptIntentDurable
<1>4. LET s == MarkDispatched(r)
      IN  s \in Record /\ s.status = "dispatched" /\ s.dispatchedAt
  <2>1. r.attempts + 1 \in Nat
    OBVIOUS
  <2> QED
    BY <2>1 DEF MarkDispatched
<1>5. LET s == MarkDeliveryConfirmed(r)
      IN  s \in Record /\ s.status = "delivery_confirmed" /\ s.dispatchedAt = r.dispatchedAt
  BY DEF MarkDeliveryConfirmed
<1>6. LET s == MarkCompleted(MarkProjectionCommitted(r))
      IN  s \in Record /\ s.status = "completed"
  BY DEF MarkCompleted, MarkProjectionCommitted
<1>7. LET s == MarkDeliveryUnknown(r)
      IN  s \in Record /\ s.status = "delivery_unknown" /\ s.dispatchedAt = r.dispatchedAt
  <2>1. FromErrorCode("DELIVERY_UNKNOWN") \in Errors
    BY ErrorTyped DEF Codes
  <2> QED
    BY <2>1 DEF MarkDeliveryUnknown
<1> QED
  BY <1>1, <1>2, <1>3, <1>4, <1>5, <1>6, <1>7

\* An error that is not retryable fails the record, a retryable one before the barrier
\* removes it.
LEMMA FailedTyped ==
    ASSUME NEW r \in Record, NEW err \in Errors
    PROVE  /\ ~err.retryable => MarkFailed(r, err) \in Record /\ MarkFailed(r, err).status = "failed"
           /\ err.retryable /\ ~r.barrier /\ r.status \in {"accepted", "intent_durable"} =>
                 MarkFailed(r, err) = Absent
<1>1. ASSUME ~err.retryable
      PROVE  MarkFailed(r, err) \in Record /\ MarkFailed(r, err).status = "failed"
  BY <1>1 DEF MarkFailed, Record, Statuses, LiveStatuses, Terminal, Move
<1>2. ASSUME err.retryable, ~r.barrier, r.status \in {"accepted", "intent_durable"}
      PROVE  MarkFailed(r, err) = Absent
  BY <1>2 DEF MarkFailed
<1> QED
  BY <1>1, <1>2

LEMMA LowerTyped ==
    ASSUME NEW r \in Record, NEW err \in Errors
    PROVE  LET s == LowerBarrier(r, err)
           IN  s \in Record /\ s.status = r.status /\ ~s.barrier
BY DEF LowerBarrier, Record

-----------------------------------------------------------------------------
(* What a command of the documents does, all but the one that registers.   *)

\* From d to e, with the entries in S on their way to one of the states in `to`: no turn is
\* taken up or begins to load, and what the assistant's entries say of an end stays said.
DocStep(d, e, S, to) ==
    /\ e \in Doc
    /\ e.turn \in {d.turn, None}
    /\ Loading(e) => Loading(d) /\ e.turn = d.turn
    /\ \A t \in Attempts \ S : e.entry[t] = d.entry[t]
    /\ \A t \in S : /\ e.entry[t] \in {d.entry[t]} \cup to
                    /\ d.entry[t] = "completed" => e.entry[t] = "completed"
    /\ \A t \in Attempts : d.assistant[t] = "terminal" => e.assistant[t] = "terminal"
    /\ \A t \in Attempts : t # d.turn => e.assistant[t] = d.assistant[t]
    /\ Loading(e) /\ e.turn # None /\ e.assistant[e.turn] = "terminal" =>
          d.assistant[e.turn] = "terminal"

LEMMA DocSame ==
    ASSUME NEW d \in Doc, NEW S \in SUBSET Attempts, NEW to
    PROVE  DocStep(d, d, S, to)
BY DEF DocStep

LEMMA SettleStep ==
    ASSUME NEW d \in Doc, NEW t \in Attempts, NEW status \in TerminalTurn, d.turn = t
    PROVE  DocStep(d, Settle(d, t, status), {}, {}) /\ ~Loading(Settle(d, t, status))
<1> DEFINE e == Settle(d, t, status)
<1>1. /\ e \in Doc /\ e.turn = d.turn /\ e.status = status /\ e.entry = d.entry
      /\ \A u \in Attempts : e.assistant[u] =
            IF u = t /\ d.assistant[u] = "streaming" THEN "terminal" ELSE d.assistant[u]
  BY DEF Settle, Doc, TurnStatus
<1>2. ~Loading(e)
  BY <1>1 DEF Loading, LoadingTurn, TerminalTurn
<1> HIDE DEF e
<1>3. DocStep(d, e, {}, {}) /\ ~Loading(e)
  BY <1>1, <1>2 DEF DocStep
<1> QED
  BY <1>3 DEF e

LEMMA TurnCommands ==
    ASSUME NEW d \in Doc, NEW t \in Attempts
    PROVE  /\ DocStep(d, MarkInterrupted(d, t), {}, {})
           /\ DocStep(d, MarkCancelling(d, t), {}, {})
           /\ \A status \in TerminalTurn :
                 /\ DocStep(d, SetTerminal(d, t, status), {}, {})
                 /\ ~Owns(SetTerminal(d, t, status), t)
                 /\ TerminalAccepted(d, t, status) => ~Loading(SetTerminal(d, t, status))
<1>1. DocStep(d, d, {}, {})
  BY DocSame
<1>2. DocStep(d, MarkInterrupted(d, t), {}, {})
  BY <1>1, SettleStep DEF MarkInterrupted, Owns, TerminalTurn
<1>3. DocStep(d, MarkCancelling(d, t), {}, {})
  <2>1. CASE Owns(d, t)
    <3> DEFINE e == [d EXCEPT !.status = "cancelling"]
    <3>1. /\ e \in Doc /\ e.turn = d.turn /\ e.entry = d.entry /\ e.assistant = d.assistant
          /\ e.status = "cancelling"
      BY DEF Doc, TurnStatus, LoadingTurn
    <3>2. d.turn = t /\ Loading(d)
      BY <2>1 DEF Owns
    <3> HIDE DEF e
    <3>3. DocStep(d, e, {}, {})
      BY <3>1, <3>2 DEF DocStep
    <3> QED
      BY <2>1, <3>3 DEF MarkCancelling, e
  <2>2. CASE ~Owns(d, t)
    BY <1>1, <2>2 DEF MarkCancelling
  <2> QED
    BY <2>1, <2>2
<1>4. ASSUME NEW status \in TerminalTurn
      PROVE  /\ DocStep(d, SetTerminal(d, t, status), {}, {})
             /\ ~Owns(SetTerminal(d, t, status), t)
             /\ TerminalAccepted(d, t, status) => ~Loading(SetTerminal(d, t, status))
  <2>1. CASE Owns(d, t)
    BY <2>1, SettleStep DEF SetTerminal, Owns
  <2>2. CASE ~Owns(d, t)
    BY <1>1, <2>2 DEF SetTerminal, TerminalAccepted, Loading, TerminalTurn, LoadingTurn
  <2> QED
    BY <2>1, <2>2
<1> QED
  BY <1>2, <1>3, <1>4

LEMMA EntryCommands ==
    ASSUME NEW d \in Doc, NEW t \in Attempts
    PROVE  /\ DocStep(d, EntryCompleted(d, t), {t}, {"completed"})
           /\ EntryCompleted(d, t).entry[t] = "completed"
           /\ ~Loading(d) => ~Loading(EntryCompleted(d, t))
           /\ DocStep(d, EntryUnknown(d, t), {t}, {"delivery_unknown"})
           /\ \/ EntryUnknown(d, t).entry[t] # "pending"
              \/ EntryUnknown(d, t).assistant[t] = "terminal"
           /\ DocStep(d, EntryNotDelivered(d, t), {t}, {"failed_not_delivered"})
           /\ EntryNotDelivered(d, t).entry[t] \in {"completed", "failed_not_delivered"}
           /\ ~Owns(EntryNotDelivered(d, t), t)
<1>1. /\ DocStep(d, EntryCompleted(d, t), {t}, {"completed"})
      /\ EntryCompleted(d, t).entry[t] = "completed"
      /\ ~Loading(d) => ~Loading(EntryCompleted(d, t))
  <2> DEFINE e == EntryCompleted(d, t)
  <2>1. /\ e \in Doc /\ e.turn = d.turn /\ e.status = d.status /\ e.assistant = d.assistant
        /\ \A u \in Attempts : e.entry[u] = IF u = t THEN "completed" ELSE d.entry[u]
    BY DEF EntryCompleted, Doc
  <2> HIDE DEF e
  <2>2. /\ DocStep(d, e, {t}, {"completed"}) /\ e.entry[t] = "completed"
        /\ ~Loading(d) => ~Loading(e)
    BY <2>1 DEF DocStep, Loading
  <2> QED
    BY <2>2 DEF e
<1>2. /\ DocStep(d, EntryUnknown(d, t), {t}, {"delivery_unknown"})
      /\ \/ EntryUnknown(d, t).entry[t] # "pending"
         \/ EntryUnknown(d, t).assistant[t] = "terminal"
  <2> DEFINE kept == d.entry[t] = "completed" \/ d.assistant[t] = "terminal"
  <2>1. CASE kept
    BY <2>1, DocSame DEF EntryUnknown
  <2>2. CASE ~kept
    <3> DEFINE e == [d EXCEPT !.entry[t] = "delivery_unknown"]
    <3>1. /\ e \in Doc /\ e.turn = d.turn /\ e.status = d.status /\ e.assistant = d.assistant
          /\ \A u \in Attempts : e.entry[u] = IF u = t THEN "delivery_unknown" ELSE d.entry[u]
      BY DEF Doc
    <3> HIDE DEF e
    <3>2. DocStep(d, e, {t}, {"delivery_unknown"}) /\ e.entry[t] # "pending"
      BY <2>2, <3>1 DEF DocStep, Loading
    <3>3. EntryUnknown(d, t) = e
      BY <2>2 DEF EntryUnknown, e
    <3> QED
      BY <3>2, <3>3
  <2> QED
    BY <2>1, <2>2
<1>3. /\ DocStep(d, EntryNotDelivered(d, t), {t}, {"failed_not_delivered"})
      /\ EntryNotDelivered(d, t).entry[t] \in {"completed", "failed_not_delivered"}
      /\ ~Owns(EntryNotDelivered(d, t), t)
  <2> DEFINE e == EntryNotDelivered(d, t)
  <2>1. /\ e \in Doc /\ e.turn = d.turn /\ e.assistant = d.assistant
        /\ e.status = IF Owns(d, t) THEN "failed" ELSE d.status
        /\ \A u \in Attempts :
              e.entry[u] = IF u = t /\ d.entry[t] # "completed" THEN "failed_not_delivered"
                           ELSE d.entry[u]
    BY DEF EntryNotDelivered, Doc, TurnStatus, TerminalTurn
  <2> HIDE DEF e
  <2>2. /\ DocStep(d, e, {t}, {"failed_not_delivered"})
        /\ e.entry[t] \in {"completed", "failed_not_delivered"} /\ ~Owns(e, t)
    BY <2>1 DEF DocStep, Loading, Owns, LoadingTurn
  <2> QED
    BY <2>2 DEF e
<1> QED
  BY <1>1, <1>2, <1>3

LEMMA ChatCommands ==
    ASSUME NEW d \in Doc
    PROVE  /\ DocStep(d, EndChat(d), {}, {})
           /\ d.turn \in Attempts /\ AcceptsDelta(d) /\ d.assistant[d.turn] = "none" =>
                 DocStep(d, Delta(d), {}, {})
           /\ \A status \in {"accepting", "awaitingPermission", "cancelled"} :
                 /\ DocStep(d, StatusIf(d, "accepting", status), {}, {})
                 /\ DocStep(d, StatusIf(d, "awaitingPermission", status), {}, {})
<1>1. DocStep(d, EndChat(d), {}, {})
  <2> DEFINE e == EndChat(d)
  <2>1. /\ e \in Doc /\ e.turn = None /\ e.status = "idle" /\ e.entry = d.entry
        /\ e.assistant = d.assistant
    BY DEF EndChat, Doc, TurnStatus
  <2> HIDE DEF e
  <2>2. DocStep(d, e, {}, {})
    BY <2>1 DEF DocStep, Loading, LoadingTurn
  <2> QED
    BY <2>2 DEF e
<1>2. ASSUME d.turn \in Attempts, AcceptsDelta(d), d.assistant[d.turn] = "none"
      PROVE  DocStep(d, Delta(d), {}, {})
  <2> DEFINE e == Delta(d)
  <2>1. /\ e \in Doc /\ e.turn = d.turn /\ e.status = d.status /\ e.entry = d.entry
        /\ \A u \in Attempts : e.assistant[u] =
              IF u = d.turn THEN "streaming" ELSE d.assistant[u]
    BY <1>2 DEF Delta, Doc
  <2> HIDE DEF e
  <2>2. DocStep(d, e, {}, {})
    BY <1>2, <2>1 DEF DocStep, Loading
  <2> QED
    BY <2>2 DEF e
<1>3. ASSUME NEW status \in {"accepting", "awaitingPermission", "cancelled"},
             NEW expect \in {"accepting", "awaitingPermission"}
      PROVE  DocStep(d, StatusIf(d, expect, status), {}, {})
  <2>1. CASE d.status = expect
    <3> DEFINE e == [d EXCEPT !.status = status]
    <3>1. /\ e \in Doc /\ e.turn = d.turn /\ e.entry = d.entry /\ e.assistant = d.assistant
          /\ e.status = status
      BY DEF Doc, TurnStatus, LoadingTurn, TerminalTurn
    <3>2. Loading(d)
      BY <2>1 DEF Loading, LoadingTurn
    <3> HIDE DEF e
    <3>3. DocStep(d, e, {}, {})
      BY <3>1, <3>2 DEF DocStep
    <3> QED
      BY <2>1, <3>3 DEF StatusIf, e
  <2>2. CASE d.status # expect
    BY <2>2, DocSame DEF StatusIf
  <2> QED
    BY <2>1, <2>2
<1> QED
  BY <1>1, <1>2, <1>3

-----------------------------------------------------------------------------
(* What a step leaves alone: the attempts, the prompt, the cancel and the  *)
(* line that it is not about.                                              *)

AgentKept(t) == agent'[t] = agent[t] \/ (agent[t] # "away" /\ agent'[t] \in Reached)

\* A step about the attempts in S, which are being executed.
OnlyAbout(S) ==
    /\ UNCHANGED tries
    /\ \A c \in Commands : (\A x \in S : x[1] # c) => outbox'[c] = outbox[c]
    /\ \A t \in Attempts \ S :
          /\ AgentKept(t) /\ verdict'[t] = verdict[t]
          /\ doc'.entry[t] = doc.entry[t]
          /\ Untouched(t) => doc'.assistant[t] = doc.assistant[t]
          /\ Executing(t)' = Executing(t)
          /\ Withdrawn(t) => Withdrawn(t)'

LEMMA OthersKept ==
    ASSUME AttemptsInv, NEW S \in SUBSET Attempts, OnlyAbout(S),
           \A x \in S : Current(x) \/ UNCHANGED outbox
    PROVE  \A t \in Attempts \ S : AttemptOK(t)'
<1> SUFFICES ASSUME NEW t \in Attempts \ S PROVE AttemptOK(t)'
  OBVIOUS
<1>1. AttemptOK(t)
  BY DEF AttemptsInv
<1>2. /\ tries' = tries /\ AgentKept(t) /\ verdict'[t] = verdict[t]
      /\ doc'.entry[t] = doc.entry[t]
      /\ Untouched(t) => Untouched(t)'
      /\ Executing(t)' = Executing(t)
      /\ Withdrawn(t) => Withdrawn(t)'
  BY DEF OnlyAbout, Untouched, AgentKept
<1>3. Current(t) => outbox'[t[1]] = outbox[t[1]]
  <2>1. \A x \in S : Current(x) /\ Current(t) => x[1] # t[1]
    BY AttemptEq DEF Current
  <2>2. t[1] \in Commands
    BY DEF Attempts
  <2> QED
    BY <2>1, <2>2 DEF OnlyAbout
<1>4. Current(t)' = Current(t)
  BY <1>2 DEF Current
<1>5. Current(t) /\ ~Executing(t) => Outcome(t)'
  <2> SUFFICES ASSUME Current(t), ~Executing(t) PROVE Outcome(t)'
    OBVIOUS
  <2>1. Outcome(t)
    BY <1>1 DEF AttemptOK
  <2> QED
    BY <1>2, <1>3, <2>1 DEF Outcome, Accepted, AgentKept
<1>6. agent[t] = "away" => agent'[t] = "away"
  BY <1>2 DEF AgentKept
<1> QED
  BY <1>1, <1>2, <1>4, <1>5, <1>6 DEF AttemptOK

\* A turn the documents show was registered, so what they say of another is not touched.
LEMMA UntouchedKept ==
    ASSUME DocInv, NEW S, NEW to, DocStep(doc, doc', S, to),
           NEW t \in Attempts, Untouched(t)
    PROVE  doc'.assistant[t] = doc.assistant[t]
<1>1. doc.turn # t
  BY NoneIsNoAttempt DEF DocInv, Untouched
<1> QED
  BY <1>1 DEF DocStep

LEMMA PromptKept ==
    ASSUME PromptInv, DocInv, UNCHANGED <<prompt, tries>>, DocStep(doc, doc', {}, {}),
           prompt.pc # "idle" =>
              AgentKept(prompt.turn) /\ outbox'[prompt.turn[1]] = PromptRecord
    PROVE  PromptInv'
<1>1. CASE prompt.pc = "idle"
  BY <1>1 DEF PromptInv
<1>2. CASE prompt.pc # "idle"
  <2> DEFINE p == prompt.turn
  <2>1. p \in Attempts /\ prompt' = prompt /\ tries' = tries
    BY <1>2 DEF PromptInv
  <2>2. PromptRecord' = PromptRecord /\ outbox'[p[1]] = outbox[p[1]] /\ AgentKept(p)
    BY <1>2 DEF PromptRecord
  <2>3. /\ doc'.entry[p] = doc.entry[p]
        /\ doc.assistant[p] = "terminal" => doc'.assistant[p] = "terminal"
        /\ Loading(doc') => Loading(doc)
    BY <2>1 DEF DocStep
  <2>4. Untouched(p) => Untouched(p)'
    BY <2>1, <2>2, <2>3, UntouchedKept DEF Untouched, AgentKept
  <2> QED
    BY <1>2, <2>1, <2>2, <2>3, <2>4 DEF PromptInv, Current, Withdrawn, Accepted, AgentKept, Reached
<1> QED
  BY <1>1, <1>2

LEMMA CancelKept ==
    ASSUME CancelInv, UNCHANGED <<cancel, tries>>, NEW S, NEW to, DocStep(doc, doc', S, to),
           cancel.pc # "idle" =>
              AgentKept(cancel.turn) /\ outbox'[cancel.turn[1]] = CancelRecord
    PROVE  CancelInv'
<1>1. CASE cancel.pc = "idle"
  BY <1>1 DEF CancelInv
<1>2. CASE cancel.pc # "idle"
  <2>1. cancel' = cancel /\ tries' = tries /\ CancelRecord' = CancelRecord /\ AgentKept(cancel.turn)
    BY <1>2 DEF CancelRecord
  <2>2. ~Owns(doc, cancel.target) => ~Owns(doc', cancel.target)
    BY DEF DocStep, Owns
  <2> QED
    BY <1>2, <2>1, <2>2 DEF CancelInv, Current, AgentKept, Reached
<1> QED
  BY <1>1, <1>2

LEMMA DocKept ==
    ASSUME TypeOK, DocInv, NEW S \in SUBSET Attempts, NEW to,
           "none" \notin to, "pending" \notin to, DocStep(doc, doc', S, to),
           Loading(doc') => prompt'.turn = prompt.turn /\ prompt'.pc \notin {"idle", "register"},
           prompt'.turn = prompt.turn
              \/ doc'.entry[prompt.turn] # "pending" \/ doc'.assistant[prompt.turn] = "terminal"
    PROVE  DocInv'
<1>1. doc'.turn # None => doc'.entry[doc'.turn] # "none"
  <2>1. ASSUME doc'.turn # None PROVE doc'.entry[doc'.turn] # "none"
    <3>1. doc'.turn = doc.turn /\ doc.turn \in Attempts
      BY <2>1 DEF DocStep, TypeOK, Doc
    <3>2. doc.entry[doc.turn] # "none"
      BY <2>1, <3>1 DEF DocInv
    <3> QED
      BY <3>1, <3>2 DEF DocStep
  <2> QED
    BY <2>1
<1>2. Loading(doc') => Loading(doc) /\ doc'.turn = doc.turn
  BY DEF DocStep
<1>3. doc'.turn # None /\ doc'.assistant[doc'.turn] = "terminal" => ~Loading(doc')
  BY <1>2 DEF DocInv, DocStep
<1>4. /\ Loading(doc') => doc'.turn # None /\ doc'.turn = prompt'.turn
      /\ Loading(doc') => prompt'.pc \notin {"idle", "register"}
  BY <1>2 DEF DocInv
<1>5. ASSUME NEW t \in Attempts, doc'.entry[t] = "pending"
      PROVE  t = prompt'.turn \/ doc'.assistant[t] = "terminal"
  <2>1. doc.entry[t] = "pending"
    BY <1>5 DEF DocStep
  <2>2. t = prompt.turn \/ doc.assistant[t] = "terminal"
    BY <2>1 DEF DocInv
  <2> QED
    BY <1>5, <2>2 DEF DocStep
<1> QED
  BY <1>1, <1>3, <1>4, <1>5 DEF DocInv

\* Nothing is done about an attempt that is waiting.
LEMMA LineKept ==
    ASSUME TypeOK, LineInv, UNCHANGED intake,
           \A t \in Attempts : ~Executing(t) => ~Executing(t)' /\ verdict'[t] = verdict[t]
    PROVE  LineInv'
<1>1. /\ tries' = tries /\ queue' = queue /\ deferred' = deferred /\ backlog' = backlog
  BY DEF intake
<1>2. \A i \in DOMAIN backlog : backlog[i] \in Attempts
  BY DEF TypeOK
<1>3. \A i \in DOMAIN backlog :
         Current(backlog[i])' /\ verdict'[backlog[i]] = "none" /\ ~Executing(backlog[i])'
  BY <1>1, <1>2 DEF LineInv, Current
<1> QED
  BY <1>1, <1>3 DEF LineInv

-----------------------------------------------------------------------------
(* Init.                                                                   *)
LEMMA InitIInv == Init => IInv
<1> SUFFICES ASSUME Init PROVE IInv
  OBVIOUS
<1>1. TypeOK
  <2>1. EmptyDoc \in Doc
    BY DEF EmptyDoc, Doc, TurnStatus
  <2>2. outbox \in [Commands -> Record]
    BY AbsentTyped DEF Init
  <2>3. tries \in [Commands -> 0..MaxTries]
    BY PromptTurnAssumption DEF Init, PromptTurnAssumption
  <2>4. prompt \in [turn : Attempts \cup {None}, pc : PromptPcs, note : Codes \cup Stops \cup {None}]
    BY DEF Init, NoPrompt, PromptPcs
  <2>5. cancel \in [turn : Attempts \cup {None}, pc : CancelPcs, target : Attempts \cup {None}]
    BY DEF Init, NoCancel, CancelPcs
  <2>6. plan \in Plans /\ plan.places \in Nat /\ plan.faults \in Nat /\ plan.drops \in Nat
    BY PromptTurnAssumption DEF Init, PromptTurnAssumption
  <2> QED
    BY <2>1, <2>2, <2>3, <2>4, <2>5, <2>6 DEF Init, TypeOK
<1>2. LineInv
  BY DEF LineInv, Init
<1>3. ReserveBalance
  BY DEF ReserveBalance, Init
<1>4. AttemptsInv
  <2> SUFFICES ASSUME NEW t \in Attempts PROVE AttemptOK(t)
    BY DEF AttemptsInv
  <2>1. t[1] \in Commands /\ t[2] \in 1..MaxTries /\ tries[t[1]] = 0
    BY DEF Attempts, Init
  <2>2. ~Executing(t)
    BY NoneIsNoAttempt DEF Executing, Init, NoPrompt, NoCancel
  <2>3. verdict[t] = "none" /\ Untouched(t)
    BY DEF Init, Untouched, EmptyDoc
  <2> QED
    BY <2>1, <2>2, <2>3 DEF AttemptOK, Current, Untouched
<1>5. PromptInv /\ CancelInv
  BY DEF PromptInv, CancelInv, Init, NoPrompt, NoCancel
<1>6. LoopInv /\ DocInv
  BY DEF LoopInv, DocInv, Init, NoPrompt, NoCancel, EmptyDoc, Loading, LoadingTurn
<1> QED
  BY <1>1, <1>2, <1>3, <1>4, <1>5, <1>6 DEF IInv

-----------------------------------------------------------------------------
(* Four kinds of steps: the handlers, the loop, the instance and the agent; *)
(* the prompt under way goes on, or is answered; and so does a cancel.      *)
LEMMA WorldStep ==
    ASSUME IInv, TypeOK', UNCHANGED <<outbox, intake, inflight, prompt, cancel, verdict>>,
           \A t \in Attempts : AgentKept(t),
           DocStep(doc, doc', {}, {}),
           active' \in {active, None},
           loop' # "off" => loop # "off"
    PROVE  IInv'
<1> USE DEF IInv
<1>1. tries' = tries
  BY DEF intake
<1>2. AttemptsInv'
  <2>1. \A t \in Attempts : Untouched(t) => doc'.assistant[t] = doc.assistant[t]
    BY UntouchedKept
  <2>2. \A t \in Attempts : /\ doc'.entry[t] = doc.entry[t]
                            /\ Executing(t)' = Executing(t)
                            /\ Withdrawn(t) => Withdrawn(t)'
    BY DEF DocStep, Executing, Withdrawn
  <2>3. OnlyAbout({})
    BY <1>1, <2>1, <2>2 DEF OnlyAbout
  <2>4. \A t \in Attempts \ {} : AttemptOK(t)'
    BY <2>3, OthersKept
  <2> QED
    BY <2>4 DEF AttemptsInv
<1>3. PromptInv'
  <2>1. prompt.pc # "idle" => prompt.turn \in Attempts
    BY DEF PromptInv
  <2>2. prompt.pc # "idle" => AgentKept(prompt.turn) /\ outbox'[prompt.turn[1]] = PromptRecord
    BY <2>1 DEF PromptRecord
  <2> QED
    BY <1>1, <2>2, PromptKept
<1>4. CancelInv'
  <2>1. cancel.pc # "idle" => cancel.turn \in Attempts
    BY DEF CancelInv
  <2>2. cancel.pc # "idle" => AgentKept(cancel.turn) /\ outbox'[cancel.turn[1]] = CancelRecord
    BY <2>1 DEF CancelRecord
  <2> QED
    BY <1>1, <2>2, CancelKept
<1>5. LoopInv'
  <2>1. prompt.pc # "idle" => prompt.turn \in Attempts
    BY DEF PromptInv
  <2>2. PromptRecord' = PromptRecord
    BY DEF PromptRecord
  <2>3. active' # None => active # None /\ active' = active
    OBVIOUS
  <2> QED
    BY <2>1, <2>2, <2>3 DEF LoopInv, AgentKept
<1>6. DocInv'
  <2>1. Loading(doc') => Loading(doc)
    BY DEF DocStep
  <2>2. Loading(doc') => prompt.pc \notin {"idle", "register"}
    BY <2>1 DEF DocInv
  <2> QED
    BY <2>2, DocKept
<1>7. LineInv'
  <2>1. \A t \in Attempts : ~Executing(t) => ~Executing(t)' /\ verdict'[t] = verdict[t]
    BY DEF Executing
  <2> QED
    BY <2>1, LineKept
<1>8. ReserveBalance'
  BY DEF ReserveBalance, intake
<1> QED
  BY <1>2, <1>3, <1>4, <1>5, <1>6, <1>7, <1>8

\* What the prompt's executor leaves alone.
PromptAbout ==
    /\ prompt.pc # "idle" /\ cancel = NoCancel /\ cancel' = cancel
    /\ UNCHANGED intake
    /\ \A c \in Commands \ {prompt.turn[1]} : outbox'[c] = outbox[c]
    /\ Current(prompt.turn) \/ UNCHANGED outbox
    /\ \A t \in Attempts \ {prompt.turn} :
          /\ agent'[t] = agent[t] /\ verdict'[t] = verdict[t]
          /\ doc'.entry[t] = doc.entry[t]
          /\ Untouched(t) => doc'.assistant[t] = doc.assistant[t]

LEMMA PromptAttempts ==
    ASSUME IInv, PromptAbout, prompt'.turn \in {prompt.turn, None}
    PROVE  \A t \in Attempts \ {prompt.turn} : AttemptOK(t)'
<1>1. prompt.turn \in Attempts
  BY DEF IInv, PromptInv, PromptAbout
<1>2. \A t \in Attempts \ {prompt.turn} : /\ Executing(t)' = Executing(t)
                                          /\ Withdrawn(t) => Withdrawn(t)'
  BY NoneIsNoAttempt DEF Executing, Withdrawn, PromptAbout
<1>3. OnlyAbout({prompt.turn})
  BY <1>1, <1>2 DEF OnlyAbout, PromptAbout, intake, AgentKept
<1> QED
  BY <1>1, <1>3, OthersKept DEF PromptAbout, IInv

LEMMA PromptStays ==
    ASSUME IInv, PromptAbout, UNCHANGED <<inflight, verdict>>,
           prompt.pc # "undeliver", prompt'.turn = prompt.turn, prompt'.pc # "idle",
           doc'.entry[prompt.turn] # "failed_not_delivered"
              \/ doc'.entry[prompt.turn] = doc.entry[prompt.turn],
           TypeOK', PromptInv', LoopInv', DocInv'
    PROVE  IInv'
<1> USE DEF IInv
<1> DEFINE p == prompt.turn
<1>1. /\ p \in Attempts /\ Current(p) /\ tries' = tries
  BY DEF PromptInv, PromptAbout, Withdrawn, intake
<1>2. AttemptOK(p) /\ Executing(p) /\ Executing(p)'
  BY <1>1 DEF AttemptsInv, Executing
<1>3. AttemptOK(p)'
  <2>1. tries[p[1]] = p[2] /\ p[2] \in Nat
    BY <1>1 DEF Current, Attempts
  <2>2. doc'.entry[p] # "failed_not_delivered"
    BY <1>2 DEF AttemptOK
  <2> QED
    BY <1>1, <1>2, <2>1, <2>2 DEF AttemptOK
<1>4. AttemptsInv'
  BY <1>3, PromptAttempts DEF AttemptsInv
<1>5. CancelInv'
  BY DEF CancelInv, PromptAbout, NoCancel
<1>6. LineInv'
  <2>1. \A t \in Attempts : ~Executing(t) => ~Executing(t)' /\ verdict'[t] = verdict[t]
    BY DEF Executing, PromptAbout
  <2> QED
    BY <2>1, LineKept DEF PromptAbout
<1>7. ReserveBalance'
  <2>1. prompt # NoPrompt /\ prompt' # NoPrompt
    BY DEF NoPrompt, PromptAbout
  <2> QED
    BY <2>1 DEF ReserveBalance, PromptAbout, intake
<1> QED
  BY <1>4, <1>5, <1>6, <1>7

\* The prompt is answered with v.
LEMMA PromptAnswered ==
    ASSUME IInv, PromptAbout, NEW p \in Attempts, p = prompt.turn,
           NEW v \in {"committed", "retryable", "failed", "unknown"}, EndPrompt(v),
           TypeOK', DocInv', active' = None,
           Current(p) => Outcome(p)',
           Current(p) \/ (v = "retryable" /\ agent'[p] = "away"),
           doc'.entry[p] = "failed_not_delivered" =>
              agent'[p] = "away" /\ v \in {"retryable", "failed"}
    PROVE  IInv'
<1> USE DEF IInv
<1>1. /\ tries' = tries /\ prompt' = NoPrompt /\ loop' = "off"
      /\ verdict'[p] = v /\ inflight' = inflight - 1
  BY DEF PromptInv, PromptAbout, intake, EndPrompt, Answer, TypeOK
<1>2. AttemptOK(p)'
  <2>1. /\ tries[p[1]] \in Nat /\ p[2] \in Nat /\ p[2] <= tries[p[1]]
    <3>1. AttemptOK(p) /\ Executing(p)
      BY <1>1 DEF AttemptsInv, Executing
    <3> QED
      BY <1>1, <3>1 DEF AttemptOK, Attempts, TypeOK
  <2>2. ~Executing(p)'
    BY <1>1, NoneIsNoAttempt DEF Executing, NoPrompt, NoCancel, PromptAbout
  <2>3. Current(p)' = Current(p)
    BY <1>1 DEF Current
  <2> QED
    BY <1>1, <2>1, <2>2, <2>3 DEF AttemptOK, Current
<1>3. AttemptsInv'
  BY <1>1, <1>2, PromptAttempts DEF AttemptsInv, NoPrompt
<1>4. PromptInv' /\ CancelInv' /\ LoopInv'
  BY <1>1 DEF PromptInv, CancelInv, LoopInv, PromptAbout, NoPrompt, NoCancel
<1>5. LineInv'
  <2>1. \A t \in Attempts : ~Executing(t) => ~Executing(t)' /\ verdict'[t] = verdict[t]
    BY <1>1, NoneIsNoAttempt DEF Executing, PromptAbout, NoPrompt
  <2> QED
    BY <2>1, LineKept DEF PromptAbout
<1>6. ReserveBalance'
  <2>1. prompt # NoPrompt
    BY DEF NoPrompt, PromptAbout
  <2>2. inflight \in Nat /\ Len(queue) \in Nat /\ Len(deferred) \in Nat
    BY PromptTurnAssumption DEF TypeOK, PromptTurnAssumption
  <2> QED
    BY <1>1, <2>1, <2>2 DEF ReserveBalance, PromptAbout, intake
<1> QED
  BY <1>3, <1>4, <1>5, <1>6

-----------------------------------------------------------------------------
(* The steps of a prompt.                                                  *)
LEMMA PromptFacts ==
    ASSUME IInv, NEW pc, pc # "idle", PromptAt(pc)
    PROVE  /\ cancel = NoCancel /\ prompt.pc = pc
           /\ \E p \in Attempts :
                 /\ p = prompt.turn /\ p[1] \in Commands /\ IsPrompt(p)
                 /\ pc # "undeliver" => Current(p)
                 /\ PromptRecord = outbox[p[1]] /\ PromptRecord \in Record
                 /\ verdict[p] = "none"
<1> USE DEF IInv
<1>1. cancel = NoCancel /\ prompt.pc = pc
  BY DEF PromptAt
<1>2. prompt.turn \in Attempts /\ IsPrompt(prompt.turn)
  BY <1>1 DEF PromptInv
<1>3. pc # "undeliver" => Current(prompt.turn)
  BY <1>1 DEF PromptInv, Withdrawn
<1>4. prompt.turn[1] \in Commands
  BY <1>2 DEF Attempts
<1>5. PromptRecord \in Record
  BY <1>4 DEF PromptRecord, TypeOK
<1>6. verdict[prompt.turn] = "none"
  BY <1>2 DEF AttemptsInv, AttemptOK, Executing
<1> QED
  BY <1>1, <1>2, <1>3, <1>4, <1>5, <1>6 DEF PromptRecord

LEMMA PromptTypes ==
    ASSUME TypeOK, UNCHANGED <<intake, inflight, cancel, verdict, link, drops, disc, exit>>,
           outbox' \in [Commands -> Record],
           prompt' \in [turn : Attempts \cup {None}, pc : PromptPcs, note : Codes \cup Stops \cup {None}],
           loop' \in {"off", "signalled", "reading", "awaiting"},
           active' \in Attempts \cup {None}, response' \in Stops \cup {"none"},
           doc' \in Doc, faults' \in 0..plan.faults,
           agent' \in [Attempts -> {"away", "wire", "running", "answered"}]
    PROVE  TypeOK'
BY DEF TypeOK, intake

LEMMA WriteTyped ==
    ASSUME TypeOK, NEW after \in Doc, NEW persisted \in BOOLEAN, Write(after, persisted)
    PROVE  doc' = after /\ faults' \in 0..plan.faults
<1>1. plan.faults \in Nat /\ faults \in 0..plan.faults
  BY PromptTurnAssumption DEF TypeOK, PromptTurnAssumption
<1> QED
  BY <1>1 DEF Write

\* The registry and the loop stay, and so does what the agent and the record say.
LEMMA LoopGoesOn ==
    ASSUME LoopInv, cancel = NoCancel, UNCHANGED <<cancel, active, loop>>,
           NEW p \in Attempts, p = prompt.turn, p = prompt'.turn, prompt.pc # "idle",
           prompt.pc \in Late =>
              /\ prompt'.pc \in Late
              /\ agent[p] \in Reached => agent'[p] \in Reached
              /\ outbox[p[1]].dispatchedAt => outbox'[p[1]].dispatchedAt
    PROVE  LoopInv'
<1>1. PromptRecord = outbox[p[1]] /\ PromptRecord' = outbox'[p[1]]
  BY DEF PromptRecord
<1>2. CASE prompt.pc \in Late
  BY <1>1, <1>2 DEF LoopInv, NoCancel
<1>3. CASE prompt.pc \notin Late
  BY <1>1, <1>3 DEF LoopInv, NoCancel
<1> QED
  BY <1>2, <1>3

LEMMA PromptGoesOn ==
    ASSUME IInv, NEW p \in Attempts, p = prompt.turn, prompt.pc \notin {"idle", "undeliver"},
           cancel = NoCancel, UNCHANGED <<cancel, intake, inflight, verdict>>,
           prompt'.turn = p, prompt'.pc \notin {"idle", "register"},
           \A c \in Commands \ {p[1]} : outbox'[c] = outbox[c],
           \A t \in Attempts \ {p} : agent'[t] = agent[t],
           NEW to, "none" \notin to, "pending" \notin to, "failed_not_delivered" \notin to,
           DocStep(doc, doc', {p}, to),
           TypeOK', PromptInv', LoopInv'
    PROVE  IInv'
<1>1. Current(p)
  BY DEF IInv, PromptInv, Withdrawn
<1>2. \A t \in Attempts : Untouched(t) => doc'.assistant[t] = doc.assistant[t]
  BY UntouchedKept DEF IInv
<1>3. PromptAbout
  BY <1>1, <1>2 DEF PromptAbout, DocStep
<1>4. DocInv'
  <2>1. {p} \in SUBSET Attempts
    OBVIOUS
  <2> QED
    BY <2>1, DocKept DEF IInv
<1>5. doc'.entry[p] # "failed_not_delivered" \/ doc'.entry[p] = doc.entry[p]
  BY DEF DocStep
<1> QED
  BY <1>3, <1>4, <1>5, PromptStays

LEMMA RegisterEntryStep == IInv /\ RegisterEntry => IInv'
<1> SUFFICES ASSUME IInv, RegisterEntry PROVE IInv'
  OBVIOUS
<1>1. /\ cancel = NoCancel /\ prompt.pc = "register" /\ active = None
      /\ UNCHANGED <<outbox, intake, inflight, cancel, loop, active, response, world, verdict>>
  BY DEF RegisterEntry, PromptAt
<1>2. PICK p \in Attempts : p = prompt.turn /\ Current(p) /\ PromptRecord = outbox[p[1]]
                            /\ IsPrompt(p)
  BY <1>1, PromptFacts DEF PromptAt
<1>3. Accepted(p[1]) /\ Untouched(p) /\ TypeOK /\ DocInv
  BY <1>1, <1>2 DEF IInv, PromptInv
<1>4. PICK persisted \in BOOLEAN :
         /\ Write(Register(doc, p), persisted)
         /\ prompt' = [prompt EXCEPT !.pc = IF persisted THEN "prepare" ELSE "failing",
                                     !.note = IF persisted THEN None ELSE "AGENT_UNAVAILABLE"]
  BY <1>2 DEF RegisterEntry
<1>5. LET e == Register(doc, p)
      IN  /\ e \in Doc /\ e.turn = p /\ e.status = "accepting" /\ e.assistant = doc.assistant
          /\ \A t \in Attempts : e.entry[t] = IF t = p THEN "pending" ELSE doc.entry[t]
  BY <1>3 DEF Register, TypeOK, Doc, TurnStatus, LoadingTurn
<1>6. /\ doc' = Register(doc, p) /\ faults' \in 0..plan.faults
  BY <1>3, <1>4, <1>5, WriteTyped
<1>7. /\ doc' \in Doc /\ doc'.turn = p /\ doc'.status = "accepting" /\ doc'.assistant = doc.assistant
      /\ \A t \in Attempts : doc'.entry[t] = IF t = p THEN "pending" ELSE doc.entry[t]
  BY <1>5, <1>6
<1>8. /\ prompt' \in [turn : Attempts \cup {None}, pc : PromptPcs, note : Codes \cup Stops \cup {None}]
      /\ prompt'.turn = p /\ prompt'.pc \in {"prepare", "failing"}
      /\ prompt'.pc = "failing" => prompt'.note = "AGENT_UNAVAILABLE"
  BY <1>2, <1>3, <1>4 DEF TypeOK, PromptPcs, Codes
<1>9. TypeOK'
  BY <1>1, <1>3, <1>6, <1>7, <1>8, PromptTypes DEF TypeOK, world
<1>10. PromptAbout
  BY <1>1, <1>2, <1>7 DEF PromptAbout, world
<1>11. PromptInv'
  <2>1. PromptRecord' = outbox[p[1]] /\ agent' = agent /\ Current(p)' = Current(p)
    BY <1>1, <1>8 DEF PromptRecord, world, Current, intake
  <2>2. prompt'.turn = p /\ p \in Attempts /\ IsPrompt(p)
    BY <1>2, <1>8
  <2>3. Accepted(p[1])' = Accepted(p[1])
    BY <1>1 DEF Accepted
  <2> QED
    BY <1>2, <1>3, <1>7, <1>8, <2>1, <2>2, <2>3 DEF PromptInv, Untouched, Refusals, Accepted
<1>12. LoopInv'
  <2>1. loop = "off"
    BY <1>1 DEF IInv, LoopInv, Late
  <2> QED
    BY <1>1, <2>1 DEF LoopInv, NoCancel
<1>13. DocInv'
  <2>1. p # None
    BY NoneIsNoAttempt
  <2> QED
    BY <1>2, <1>3, <1>7, <1>8, <2>1 DEF DocInv, Untouched
<1> QED
  BY <1>1, <1>2, <1>7, <1>8, <1>9, <1>10, <1>11, <1>12, <1>13, PromptStays

LEMMA GotoTyped ==
    ASSUME TypeOK, NEW pc \in PromptPcs, Goto(pc)
    PROVE  /\ prompt' \in [turn : Attempts \cup {None}, pc : PromptPcs,
                           note : Codes \cup Stops \cup {None}]
           /\ prompt'.turn = prompt.turn /\ prompt'.pc = pc /\ prompt'.note = prompt.note
BY DEF Goto, TypeOK

\* What stays true of the prompt while it goes on.
LEMMA GoesOnFacts ==
    ASSUME IInv, NEW p \in Attempts, p = prompt.turn,
           prompt.pc \notin {"idle", "register", "undeliver"},
           UNCHANGED intake, prompt'.turn = p, NEW to, "none" \notin to,
           DocStep(doc, doc', {p}, to)
    PROVE  /\ IsPrompt(p) /\ Current(p)' /\ Current(p)
           /\ doc'.entry[p] # "none"
           /\ Loading(doc') => Loading(doc)
           /\ PromptRecord' = outbox'[p[1]] /\ PromptRecord = outbox[p[1]]
<1>1. IsPrompt(p) /\ Current(p) /\ doc.entry[p] # "none"
  BY DEF IInv, PromptInv, Withdrawn
<1>2. Current(p)'
  BY <1>1 DEF Current, intake
<1> QED
  BY <1>1, <1>2 DEF DocStep, PromptRecord

LEMMA SameDoc ==
    ASSUME IInv, NEW p \in Attempts, UNCHANGED docs
    PROVE  DocStep(doc, doc', {p}, {}) /\ doc' \in Doc /\ doc' = doc
           /\ faults' \in 0..plan.faults
<1>1. {p} \in SUBSET Attempts
  OBVIOUS
<1> QED
  BY <1>1, DocSame DEF IInv, TypeOK, docs

LEMMA PrepareStep == IInv /\ Prepare => IInv'
<1> SUFFICES ASSUME IInv, Prepare PROVE IInv'
  OBVIOUS
<1>1. /\ cancel = NoCancel /\ prompt.pc = "prepare"
      /\ UNCHANGED <<intake, inflight, cancel, loop, active, response, docs, world, verdict>>
  BY DEF Prepare, PromptAt
<1>2. PICK p \in Attempts : p = prompt.turn /\ PromptRecord \in Record /\ p[1] \in Commands
  BY <1>1, PromptFacts DEF PromptAt
<1>3. TypeOK /\ agent[p] = "away"
  BY <1>1, <1>2 DEF IInv, PromptInv
<1>4. DocStep(doc, doc', {p}, {}) /\ doc' \in Doc /\ doc' = doc /\ faults' \in 0..plan.faults
  BY <1>1, SameDoc
<1>5. PICK fp \in Fingerprints :
         LET durable == MarkPromptIntentDurable(PromptRecord, fp)
         IN  \/ /\ Store(p, CanMarkDispatchBarrier(durable), RaiseBarrier(durable))
                /\ Goto("forward")
             \/ \E code \in {"CHAT_NOT_FOUND", "INVALID_STATE"} :
                   /\ Store(p, TRUE, durable)
                   /\ prompt' = [prompt EXCEPT !.pc = "failing", !.note = code]
  BY <1>2 DEF Prepare
<1> DEFINE durable == MarkPromptIntentDurable(PromptRecord, fp)
<1>6. durable \in Record /\ durable.status = "intent_durable" /\ ~durable.barrier
  BY <1>2, RecordSteps
<1>7. RaiseBarrier(durable) \in Record /\ RaiseBarrier(durable).status = "intent_durable"
  BY <1>6, RecordSteps
<1> HIDE DEF durable
<1> DEFINE Prepared ==
           /\ outbox' \in [Commands -> Record]
           /\ \A c \in Commands \ {p[1]} : outbox'[c] = outbox[c]
           /\ outbox'[p[1]].status = "intent_durable"
           /\ prompt' \in [turn : Attempts \cup {None}, pc : PromptPcs, note : Codes \cup Stops \cup {None}]
           /\ prompt'.turn = p
           /\ \/ prompt'.pc = "forward"
              \/ prompt'.pc = "failing" /\ prompt'.note \in Refusals /\ ~outbox'[p[1]].barrier
<1>8. Prepared
  <2>1. CASE Store(p, CanMarkDispatchBarrier(durable), RaiseBarrier(durable)) /\ Goto("forward")
    <3>1. outbox' = [outbox EXCEPT ![p[1]] = RaiseBarrier(durable)]
      BY <2>1 DEF Store
    <3>2. /\ prompt' \in [turn : Attempts \cup {None}, pc : PromptPcs,
                          note : Codes \cup Stops \cup {None}]
          /\ prompt'.turn = p /\ prompt'.pc = "forward"
      BY <1>2, <1>3, <2>1, GotoTyped DEF PromptPcs
    <3> QED
      BY <1>2, <1>3, <1>7, <3>1, <3>2 DEF TypeOK
  <2>2. ASSUME NEW code \in {"CHAT_NOT_FOUND", "INVALID_STATE"}, Store(p, TRUE, durable),
               prompt' = [prompt EXCEPT !.pc = "failing", !.note = code]
        PROVE  Prepared
    <3>1. outbox' = [outbox EXCEPT ![p[1]] = durable]
      BY <2>2 DEF Store
    <3>2. /\ prompt' \in [turn : Attempts \cup {None}, pc : PromptPcs,
                          note : Codes \cup Stops \cup {None}]
          /\ prompt'.turn = p /\ prompt'.pc = "failing" /\ prompt'.note \in Refusals
      BY <1>2, <1>3, <2>2 DEF TypeOK, PromptPcs, Codes, Refusals
    <3> QED
      BY <1>2, <1>3, <1>6, <3>1, <3>2 DEF TypeOK
  <2> QED
    BY <1>5, <2>1, <2>2 DEF durable
<1>9. TypeOK'
  BY <1>1, <1>3, <1>4, <1>8, PromptTypes DEF TypeOK, world
<1>10. PromptInv'
  <2>1. agent' = agent
    BY <1>1 DEF world
  <2> QED
    BY <1>1, <1>2, <1>3, <1>4, <1>8, <2>1, GoesOnFacts DEF PromptInv
<1>11. LoopInv'
  BY <1>1, <1>2, <1>8, LoopGoesOn DEF IInv, Late
<1> QED
  BY <1>1, <1>2, <1>4, <1>8, <1>9, <1>10, <1>11, PromptGoesOn DEF world

LEMMA StoreTyped ==
    ASSUME TypeOK, NEW p \in Attempts, NEW after \in Record,
           outbox' = [outbox EXCEPT ![p[1]] = after]
    PROVE  /\ outbox' \in [Commands -> Record] /\ outbox'[p[1]] = after
           /\ \A c \in Commands \ {p[1]} : outbox'[c] = outbox[c]
<1>1. p[1] \in Commands
  BY DEF Attempts
<1> QED
  BY <1>1 DEF TypeOK

LEMMA MarkNotDeliveredStep == IInv /\ MarkNotDelivered => IInv'
<1> SUFFICES ASSUME IInv, MarkNotDelivered PROVE IInv'
  OBVIOUS
<1>1. /\ cancel = NoCancel /\ prompt.pc = "failing"
      /\ UNCHANGED <<intake, inflight, cancel, loop, active, response, docs, world, verdict>>
  BY DEF MarkNotDelivered, PromptAt
<1>2. PICK p \in Attempts : p = prompt.turn /\ PromptRecord \in Record
  BY <1>1, PromptFacts DEF PromptAt
<1>3. /\ TypeOK /\ agent[p] = "away" /\ prompt.note \in Refusals
      /\ PromptRecord.status \in {"accepted", "intent_durable"} /\ ~PromptRecord.barrier
  BY <1>1, <1>2 DEF IInv, PromptInv
<1>4. DocStep(doc, doc', {p}, {}) /\ doc' \in Doc /\ doc' = doc /\ faults' \in 0..plan.faults
  BY <1>1, SameDoc
<1> DEFINE err == FromErrorCode(prompt.note)
           after == MarkFailed(PromptRecord, err)
<1>5. err \in Errors /\ err.retryable = DefaultRetryable(prompt.note)
  BY <1>3, ErrorTyped DEF Refusals, Codes, FromErrorCode
<1>6. /\ after \in Record
      /\ IF DefaultRetryable(prompt.note) THEN after = Absent ELSE after.status = "failed"
  <2> HIDE DEF err
  <2> QED
    BY <1>2, <1>3, <1>5, FailedTyped, AbsentTyped
<1>7. outbox' = [outbox EXCEPT ![p[1]] = after] /\ Goto("undeliver")
  BY <1>2 DEF MarkNotDelivered, Store
<1> HIDE DEF err, after
<1>8. /\ outbox' \in [Commands -> Record] /\ outbox'[p[1]] = after
      /\ \A c \in Commands \ {p[1]} : outbox'[c] = outbox[c]
  BY <1>3, <1>6, <1>7, StoreTyped
<1>9. /\ prompt' \in [turn : Attempts \cup {None}, pc : PromptPcs, note : Codes \cup Stops \cup {None}]
      /\ prompt'.turn = p /\ prompt'.pc = "undeliver" /\ prompt'.note = prompt.note
  BY <1>2, <1>3, <1>7, GotoTyped DEF PromptPcs
<1>10. TypeOK'
  BY <1>1, <1>3, <1>4, <1>8, <1>9, PromptTypes DEF TypeOK, world
<1>11. PromptInv'
  <2>1. agent' = agent
    BY <1>1 DEF world
  <2>2. /\ IsPrompt(p) /\ Current(p)' /\ doc'.entry[p] # "none" /\ PromptRecord' = after
    BY <1>1, <1>2, <1>4, <1>8, <1>9, GoesOnFacts
  <2> QED
    BY <1>3, <1>6, <1>9, <2>1, <2>2 DEF PromptInv
<1>12. LoopInv'
  BY <1>1, <1>2, <1>9, LoopGoesOn DEF IInv, Late
<1> QED
  BY <1>1, <1>2, <1>4, <1>8, <1>9, <1>10, <1>11, <1>12, PromptGoesOn DEF world

\* A forward that failed may have left the frame on the wire.
LEMMA ForwardStep == IInv /\ (ForwardAcked \/ ForwardError) => IInv'
<1> SUFFICES ASSUME IInv, ForwardAcked \/ ForwardError PROVE IInv'
  OBVIOUS
<1>1. /\ cancel = NoCancel /\ prompt.pc = "forward"
      /\ UNCHANGED <<outbox, intake, inflight, cancel, loop, active, response, docs,
                     link, drops, disc, exit, verdict>>
  BY DEF ForwardAcked, ForwardError, PromptAt
<1>2. PICK p \in Attempts : p = prompt.turn /\ PromptRecord = outbox[p[1]]
  BY <1>1, PromptFacts DEF PromptAt
<1>3. TypeOK /\ PromptRecord.status = "intent_durable"
  BY <1>1, <1>2 DEF IInv, PromptInv
<1>4. DocStep(doc, doc', {p}, {}) /\ doc' \in Doc /\ doc' = doc /\ faults' \in 0..plan.faults
  BY <1>1, SameDoc
<1>5. \E where \in {"away", "wire", "running"}, pc \in {"dispatched", "unknown"} :
         /\ agent' = [agent EXCEPT ![p] = where] /\ Goto(pc)
         /\ pc = "dispatched" => where = "running"
  BY <1>2 DEF ForwardAcked, ForwardError
<1>6. /\ agent' \in [Attempts -> {"away", "wire", "running", "answered"}]
      /\ \A t \in Attempts \ {p} : agent'[t] = agent[t]
      /\ prompt' \in [turn : Attempts \cup {None}, pc : PromptPcs, note : Codes \cup Stops \cup {None}]
      /\ prompt'.turn = p /\ prompt'.pc \in {"dispatched", "unknown"}
      /\ prompt'.pc = "dispatched" => agent'[p] = "running"
  <2>1. PICK where \in {"away", "wire", "running"}, pc \in {"dispatched", "unknown"} :
           /\ agent' = [agent EXCEPT ![p] = where] /\ Goto(pc)
           /\ pc = "dispatched" => where = "running"
    BY <1>5
  <2>2. /\ prompt' \in [turn : Attempts \cup {None}, pc : PromptPcs,
                        note : Codes \cup Stops \cup {None}]
        /\ prompt'.turn = p /\ prompt'.pc = pc
    BY <1>2, <1>3, <2>1, GotoTyped DEF PromptPcs
  <2> QED
    BY <1>3, <2>1, <2>2 DEF TypeOK
<1>7. TypeOK'
  BY <1>1, <1>3, <1>4, <1>6, PromptTypes DEF TypeOK
<1>8. PromptInv'
  <2>1. /\ IsPrompt(p) /\ Current(p)' /\ doc'.entry[p] # "none" /\ PromptRecord' = PromptRecord
    BY <1>1, <1>2, <1>4, <1>6, GoesOnFacts
  <2> QED
    BY <1>3, <1>6, <2>1 DEF PromptInv, Reached
<1>9. LoopInv'
  BY <1>1, <1>2, <1>6, LoopGoesOn DEF IInv, Late
<1> QED
  BY <1>1, <1>2, <1>4, <1>6, <1>7, <1>8, <1>9, PromptGoesOn

LEMMA ActivateStep == IInv /\ Activate => IInv'
<1> SUFFICES ASSUME IInv, Activate PROVE IInv'
  OBVIOUS
<1>1. /\ cancel = NoCancel /\ prompt.pc = "dispatched" /\ loop' = "signalled"
      /\ UNCHANGED <<intake, inflight, cancel, response, docs, world, verdict>>
  BY DEF Activate, PromptAt
<1>2. PICK p \in Attempts : p = prompt.turn /\ PromptRecord \in Record
  BY <1>1, PromptFacts DEF PromptAt
<1>3. TypeOK /\ agent[p] \in Reached
  BY <1>1, <1>2 DEF IInv, PromptInv
<1>4. DocStep(doc, doc', {p}, {}) /\ doc' \in Doc /\ doc' = doc /\ faults' \in 0..plan.faults
  BY <1>1, SameDoc
<1> DEFINE after == MarkDispatched(PromptRecord)
<1>5. after \in Record /\ after.status = "dispatched" /\ after.dispatchedAt
  BY <1>2, RecordSteps
<1>6. outbox' = [outbox EXCEPT ![p[1]] = after] /\ active' = p /\ Goto("wait")
  BY <1>2 DEF Activate, Store
<1> HIDE DEF after
<1>7. /\ outbox' \in [Commands -> Record] /\ outbox'[p[1]] = after
      /\ \A c \in Commands \ {p[1]} : outbox'[c] = outbox[c]
  BY <1>3, <1>5, <1>6, StoreTyped
<1>8. /\ prompt' \in [turn : Attempts \cup {None}, pc : PromptPcs, note : Codes \cup Stops \cup {None}]
      /\ prompt'.turn = p /\ prompt'.pc = "wait"
  BY <1>2, <1>3, <1>6, GotoTyped DEF PromptPcs
<1>9. TypeOK'
  BY <1>1, <1>3, <1>4, <1>6, <1>7, <1>8, PromptTypes DEF TypeOK, world
<1>10. IsPrompt(p) /\ Current(p)' /\ doc'.entry[p] # "none" /\ PromptRecord' = after
       /\ agent' = agent
  BY <1>1, <1>2, <1>4, <1>7, <1>8, GoesOnFacts DEF world
<1>11. PromptInv'
  BY <1>3, <1>5, <1>8, <1>10 DEF PromptInv
<1>12. LoopInv'
  BY <1>1, <1>3, <1>5, <1>6, <1>8, <1>10 DEF LoopInv, Late
<1> QED
  BY <1>1, <1>2, <1>4, <1>7, <1>8, <1>9, <1>11, <1>12, PromptGoesOn DEF world

LEMMA TakeResponseStep == IInv /\ TakeResponse => IInv'
<1> SUFFICES ASSUME IInv, TakeResponse PROVE IInv'
  OBVIOUS
<1>1. /\ cancel = NoCancel /\ prompt.pc = "wait" /\ response \notin {"none", "error"}
      /\ UNCHANGED <<intake, inflight, cancel, loop, active, response, docs, world, verdict>>
  BY DEF TakeResponse, PromptAt
<1>2. PICK p \in Attempts : p = prompt.turn /\ PromptRecord \in Record /\ PromptRecord = outbox[p[1]]
  BY <1>1, PromptFacts DEF PromptAt
<1>3. TypeOK /\ agent[p] \in Reached /\ PromptRecord.dispatchedAt
  BY <1>1, <1>2 DEF IInv, PromptInv
<1>4. DocStep(doc, doc', {p}, {}) /\ doc' \in Doc /\ doc' = doc /\ faults' \in 0..plan.faults
  BY <1>1, SameDoc
<1> DEFINE after == MarkDeliveryConfirmed(PromptRecord)
<1>5. after \in Record /\ after.status = "delivery_confirmed" /\ after.dispatchedAt
  BY <1>2, <1>3, RecordSteps
<1>6. /\ outbox' = [outbox EXCEPT ![p[1]] = after]
      /\ prompt' = [prompt EXCEPT !.pc = "terminal", !.note = response]
  BY <1>2 DEF TakeResponse, Store
<1> HIDE DEF after
<1>7. /\ outbox' \in [Commands -> Record] /\ outbox'[p[1]] = after
      /\ \A c \in Commands \ {p[1]} : outbox'[c] = outbox[c]
  BY <1>3, <1>5, <1>6, StoreTyped
<1>8. /\ prompt' \in [turn : Attempts \cup {None}, pc : PromptPcs, note : Codes \cup Stops \cup {None}]
      /\ prompt'.turn = p /\ prompt'.pc = "terminal" /\ prompt'.note \in Stops \ {"error"}
  BY <1>1, <1>2, <1>3, <1>6 DEF TypeOK, PromptPcs
<1>9. TypeOK'
  BY <1>1, <1>3, <1>4, <1>7, <1>8, PromptTypes DEF TypeOK, world
<1>10. IsPrompt(p) /\ Current(p)' /\ doc'.entry[p] # "none" /\ PromptRecord' = after
       /\ agent' = agent
  BY <1>1, <1>2, <1>4, <1>7, <1>8, GoesOnFacts DEF world
<1>11. PromptInv'
  BY <1>3, <1>5, <1>8, <1>10 DEF PromptInv
<1>12. LoopInv'
  BY <1>1, <1>2, <1>5, <1>7, <1>8, <1>10, LoopGoesOn DEF IInv, Late
<1> QED
  BY <1>1, <1>2, <1>4, <1>7, <1>8, <1>9, <1>11, <1>12, PromptGoesOn DEF world

\* The wait is over: what the documents show decides between the two ways out.
LEMMA AdjudgeStep == IInv /\ (StopWaiting \/ Adjudge) => IInv'
<1> SUFFICES ASSUME IInv, StopWaiting \/ Adjudge PROVE IInv'
  OBVIOUS
<1>1. /\ cancel = NoCancel /\ prompt.pc \in {"wait", "adjudge"}
      /\ UNCHANGED <<outbox, intake, inflight, cancel, loop, active, response, docs, world, verdict>>
  BY DEF StopWaiting, Adjudge, PromptAt
<1>2. PICK p \in Attempts : p = prompt.turn /\ PromptRecord = outbox[p[1]]
  BY <1>1, PromptFacts DEF PromptAt
<1>3. /\ TypeOK /\ DocInv /\ agent[p] \in Reached /\ PromptRecord.dispatchedAt
      /\ PromptRecord.status \in {"dispatched", "delivery_confirmed"}
  BY <1>1, <1>2 DEF IInv, PromptInv
<1>4. DocStep(doc, doc', {p}, {}) /\ doc' \in Doc /\ doc' = doc /\ faults' \in 0..plan.faults
  BY <1>1, SameDoc
<1>5. ShownTerminal(doc, p) => ~Loading(doc)
  <2>1. ASSUME Loading(doc) PROVE ~ShownTerminal(doc, p)
    <3>1. doc.turn = p /\ doc.turn # None
      BY <1>2, <1>3, <2>1 DEF DocInv
    <3> QED
      BY <1>3, <2>1, <3>1 DEF DocInv, ShownTerminal, Loading, TerminalTurn, LoadingTurn
  <2> QED
    BY <2>1
<1>6. \E pc \in {"adjudge", "existing", "unknown"} :
         Goto(pc) /\ (pc = "existing" => ShownTerminal(doc, p))
  BY <1>2 DEF StopWaiting, Adjudge
<1>7. /\ prompt' \in [turn : Attempts \cup {None}, pc : PromptPcs, note : Codes \cup Stops \cup {None}]
      /\ prompt'.turn = p /\ prompt'.pc \in {"adjudge", "existing", "unknown"}
      /\ prompt'.pc = "existing" => ~Loading(doc)
  BY <1>2, <1>3, <1>5, <1>6, GotoTyped DEF PromptPcs
<1>8. TypeOK'
  BY <1>1, <1>3, <1>4, <1>7, PromptTypes DEF TypeOK, world
<1>9. IsPrompt(p) /\ Current(p)' /\ doc'.entry[p] # "none" /\ PromptRecord' = PromptRecord
      /\ agent' = agent
  BY <1>1, <1>2, <1>4, <1>7, GoesOnFacts DEF world
<1>10. PromptInv'
  BY <1>3, <1>4, <1>7, <1>9 DEF PromptInv
<1>11. LoopInv'
  BY <1>1, <1>2, <1>7, <1>9, LoopGoesOn DEF IInv, Late
<1> QED
  BY <1>1, <1>2, <1>4, <1>7, <1>8, <1>10, <1>11, PromptGoesOn DEF world

LEMMA ProjectTerminalStep == IInv /\ ProjectTerminal => IInv'
<1> SUFFICES ASSUME IInv, ProjectTerminal PROVE IInv'
  OBVIOUS
<1>1. /\ cancel = NoCancel /\ prompt.pc = "terminal"
      /\ UNCHANGED <<outbox, intake, inflight, cancel, loop, active, response, world, verdict>>
  BY DEF ProjectTerminal, PromptAt
<1>2. PICK p \in Attempts : p = prompt.turn /\ PromptRecord = outbox[p[1]]
  BY <1>1, PromptFacts DEF PromptAt
<1>3. /\ TypeOK /\ agent[p] \in Reached /\ PromptRecord.dispatchedAt
      /\ PromptRecord.status = "delivery_confirmed" /\ prompt.note \in TerminalTurn
  BY <1>1, <1>2, PromptTurnAssumption DEF IInv, PromptInv, TerminalTurn, PromptTurnAssumption
<1> DEFINE after == SetTerminal(doc, p, prompt.note)
<1>4. /\ DocStep(doc, after, {}, {}) /\ after \in Doc
      /\ TerminalAccepted(doc, p, prompt.note) => ~Loading(after)
  <2>1. DocStep(doc, after, {}, {}) /\ (TerminalAccepted(doc, p, prompt.note) => ~Loading(after))
    BY <1>3, TurnCommands DEF TypeOK
  <2> QED
    BY <2>1 DEF DocStep
<1> HIDE DEF after
<1>5. PICK persisted \in BOOLEAN :
         /\ Write(after, persisted)
         /\ Goto(IF ~persisted THEN "unknown"
                 ELSE IF TerminalAccepted(doc, p, prompt.note) THEN "entry" ELSE "adjudge")
  BY <1>2 DEF ProjectTerminal, after
<1>6. doc' = after /\ faults' \in 0..plan.faults
  BY <1>3, <1>4, <1>5, WriteTyped
<1>7. DocStep(doc, doc', {p}, {})
  BY <1>4, <1>6 DEF DocStep
<1>8. /\ prompt' \in [turn : Attempts \cup {None}, pc : PromptPcs, note : Codes \cup Stops \cup {None}]
      /\ prompt'.turn = p /\ prompt'.pc \in {"unknown", "entry", "adjudge"}
      /\ prompt'.pc = "entry" => ~Loading(doc')
  <2>1. CASE ~persisted
    BY <1>2, <1>3, <1>5, <2>1, GotoTyped DEF PromptPcs
  <2>2. CASE persisted /\ TerminalAccepted(doc, p, prompt.note)
    BY <1>2, <1>3, <1>4, <1>5, <1>6, <2>2, GotoTyped DEF PromptPcs
  <2>3. CASE persisted /\ ~TerminalAccepted(doc, p, prompt.note)
    BY <1>2, <1>3, <1>5, <2>3, GotoTyped DEF PromptPcs
  <2> QED
    BY <2>1, <2>2, <2>3
<1>9. TypeOK'
  BY <1>1, <1>3, <1>4, <1>6, <1>8, PromptTypes DEF TypeOK, world
<1>10. IsPrompt(p) /\ Current(p)' /\ doc'.entry[p] # "none" /\ PromptRecord' = PromptRecord
       /\ agent' = agent
  BY <1>1, <1>2, <1>7, <1>8, GoesOnFacts DEF world
<1>11. PromptInv'
  BY <1>3, <1>8, <1>10 DEF PromptInv
<1>12. LoopInv'
  BY <1>1, <1>2, <1>8, <1>10, LoopGoesOn DEF IInv, Late
<1> QED
  BY <1>1, <1>2, <1>7, <1>8, <1>9, <1>11, <1>12, PromptGoesOn DEF world

LEMMA ConfirmExistingStep == IInv /\ ConfirmExisting => IInv'
<1> SUFFICES ASSUME IInv, ConfirmExisting PROVE IInv'
  OBVIOUS
<1>1. /\ cancel = NoCancel /\ prompt.pc = "existing"
      /\ UNCHANGED <<intake, inflight, cancel, loop, active, response, docs, world, verdict>>
  BY DEF ConfirmExisting, PromptAt
<1>2. PICK p \in Attempts : p = prompt.turn /\ PromptRecord \in Record /\ PromptRecord = outbox[p[1]]
  BY <1>1, PromptFacts DEF PromptAt
<1>3. /\ TypeOK /\ agent[p] \in Reached /\ PromptRecord.dispatchedAt /\ ~Loading(doc)
      /\ PromptRecord.status \in {"dispatched", "delivery_confirmed"}
  BY <1>1, <1>2 DEF IInv, PromptInv
<1>4. DocStep(doc, doc', {p}, {}) /\ doc' \in Doc /\ doc' = doc /\ faults' \in 0..plan.faults
  BY <1>1, SameDoc
<1> DEFINE after == IF CanMarkDeliveryConfirmed(PromptRecord)
                    THEN MarkDeliveryConfirmed(PromptRecord) ELSE PromptRecord
<1>5. after \in Record /\ after.status = "delivery_confirmed" /\ after.dispatchedAt
  <2>1. PromptRecord.status = "dispatched" => CanMarkDeliveryConfirmed(PromptRecord)
    BY DEF CanMarkDeliveryConfirmed, CanMove, AllowedTransition
  <2> QED
    BY <1>2, <1>3, <2>1, RecordSteps
<1>6. outbox' = [outbox EXCEPT ![p[1]] = after] /\ Goto("entry")
  BY <1>2 DEF ConfirmExisting, Store
<1> HIDE DEF after
<1>7. /\ outbox' \in [Commands -> Record] /\ outbox'[p[1]] = after
      /\ \A c \in Commands \ {p[1]} : outbox'[c] = outbox[c]
  BY <1>3, <1>5, <1>6, StoreTyped
<1>8. /\ prompt' \in [turn : Attempts \cup {None}, pc : PromptPcs, note : Codes \cup Stops \cup {None}]
      /\ prompt'.turn = p /\ prompt'.pc = "entry"
  BY <1>2, <1>3, <1>6, GotoTyped DEF PromptPcs
<1>9. TypeOK'
  BY <1>1, <1>3, <1>4, <1>7, <1>8, PromptTypes DEF TypeOK, world
<1>10. IsPrompt(p) /\ Current(p)' /\ doc'.entry[p] # "none" /\ PromptRecord' = after
       /\ agent' = agent
  BY <1>1, <1>2, <1>4, <1>7, <1>8, GoesOnFacts DEF world
<1>11. PromptInv'
  BY <1>3, <1>4, <1>5, <1>8, <1>10 DEF PromptInv
<1>12. LoopInv'
  BY <1>1, <1>2, <1>5, <1>7, <1>8, <1>10, LoopGoesOn DEF IInv, Late
<1> QED
  BY <1>1, <1>2, <1>4, <1>7, <1>8, <1>9, <1>11, <1>12, PromptGoesOn DEF world

LEMMA CompleteEntryStep == IInv /\ CompleteEntry => IInv'
<1> SUFFICES ASSUME IInv, CompleteEntry PROVE IInv'
  OBVIOUS
<1>1. /\ cancel = NoCancel /\ prompt.pc = "entry"
      /\ UNCHANGED <<outbox, intake, inflight, cancel, loop, active, response, world, verdict>>
  BY DEF CompleteEntry, PromptAt
<1>2. PICK p \in Attempts : p = prompt.turn /\ PromptRecord = outbox[p[1]]
  BY <1>1, PromptFacts DEF PromptAt
<1>3. /\ TypeOK /\ agent[p] \in Reached /\ PromptRecord.dispatchedAt /\ ~Loading(doc)
      /\ PromptRecord.status = "delivery_confirmed"
  BY <1>1, <1>2 DEF IInv, PromptInv
<1> DEFINE after == EntryCompleted(doc, p)
<1>4. /\ DocStep(doc, after, {p}, {"completed"}) /\ after \in Doc
      /\ after.entry[p] = "completed" /\ ~Loading(after)
  <2>1. /\ DocStep(doc, after, {p}, {"completed"}) /\ after.entry[p] = "completed"
        /\ ~Loading(doc) => ~Loading(after)
    BY <1>3, EntryCommands DEF TypeOK
  <2> QED
    BY <1>3, <2>1 DEF DocStep
<1> HIDE DEF after
<1>5. PICK persisted \in BOOLEAN :
         Write(after, persisted) /\ Goto(IF persisted THEN "close" ELSE "unknown")
  BY <1>2 DEF CompleteEntry, after
<1>6. doc' = after /\ faults' \in 0..plan.faults
  BY <1>3, <1>4, <1>5, WriteTyped
<1>7. DocStep(doc, doc', {p}, {"completed"}) /\ doc'.entry[p] = "completed" /\ ~Loading(doc')
  BY <1>4, <1>6
<1>8. /\ prompt' \in [turn : Attempts \cup {None}, pc : PromptPcs, note : Codes \cup Stops \cup {None}]
      /\ prompt'.turn = p /\ prompt'.pc \in {"close", "unknown"}
  <2>1. (IF persisted THEN "close" ELSE "unknown") \in PromptPcs
    BY DEF PromptPcs
  <2> QED
    BY <1>2, <1>3, <1>5, <2>1, GotoTyped
<1>9. TypeOK'
  BY <1>1, <1>3, <1>4, <1>6, <1>8, PromptTypes DEF TypeOK, world
<1>10. IsPrompt(p) /\ Current(p)' /\ PromptRecord' = PromptRecord /\ agent' = agent
  BY <1>1, <1>2, <1>7, <1>8, GoesOnFacts DEF world
<1>11. PromptInv'
  BY <1>3, <1>7, <1>8, <1>10 DEF PromptInv
<1>12. LoopInv'
  BY <1>1, <1>2, <1>8, <1>10, LoopGoesOn DEF IInv, Late
<1> QED
  BY <1>1, <1>2, <1>7, <1>8, <1>9, <1>11, <1>12, PromptGoesOn DEF world

LEMMA MarkUnknownStep == IInv /\ MarkUnknown => IInv'
<1> SUFFICES ASSUME IInv, MarkUnknown PROVE IInv'
  OBVIOUS
<1>1. /\ cancel = NoCancel /\ prompt.pc = "unknown"
      /\ UNCHANGED <<intake, inflight, cancel, loop, active, response, world, verdict>>
  BY DEF MarkUnknown, PromptAt
<1>2. PICK p \in Attempts : p = prompt.turn /\ PromptRecord \in Record /\ PromptRecord = outbox[p[1]]
  BY <1>1, PromptFacts DEF PromptAt
<1>3. /\ TypeOK
      /\ PromptRecord.status \in {"intent_durable", "dispatched", "delivery_confirmed"}
  BY <1>1, <1>2 DEF IInv, PromptInv
<1> DEFINE record == IF CanMarkDeliveryUnknown(PromptRecord)
                     THEN MarkDeliveryUnknown(PromptRecord) ELSE PromptRecord
           after == EntryUnknown(doc, p)
<1>4. /\ record \in Record /\ record.status = "delivery_unknown"
      /\ record.dispatchedAt = PromptRecord.dispatchedAt
  <2>1. CanMarkDeliveryUnknown(PromptRecord)
    BY <1>3 DEF CanMarkDeliveryUnknown, CanMove, AllowedTransition
  <2> QED
    BY <1>2, <2>1, RecordSteps
<1>5. /\ DocStep(doc, after, {p}, {"delivery_unknown"}) /\ after \in Doc
      /\ after.entry[p] # "pending" \/ after.assistant[p] = "terminal"
  <2>1. /\ DocStep(doc, after, {p}, {"delivery_unknown"})
        /\ after.entry[p] # "pending" \/ after.assistant[p] = "terminal"
    BY <1>3, EntryCommands DEF TypeOK
  <2> QED
    BY <2>1 DEF DocStep
<1>6. outbox' = [outbox EXCEPT ![p[1]] = record] /\ Goto("downgrade")
  BY <1>2 DEF MarkUnknown, Store
<1> HIDE DEF record, after
<1>7. PICK persisted \in BOOLEAN : Write(after, persisted)
  BY <1>2 DEF MarkUnknown, after
<1>8. doc' = after /\ faults' \in 0..plan.faults
  BY <1>3, <1>5, <1>7, WriteTyped
<1>9. DocStep(doc, doc', {p}, {"delivery_unknown"})
      /\ (doc'.entry[p] # "pending" \/ doc'.assistant[p] = "terminal")
  BY <1>5, <1>8
<1>10. /\ outbox' \in [Commands -> Record] /\ outbox'[p[1]] = record
       /\ \A c \in Commands \ {p[1]} : outbox'[c] = outbox[c]
  BY <1>3, <1>4, <1>6, StoreTyped
<1>11. /\ prompt' \in [turn : Attempts \cup {None}, pc : PromptPcs, note : Codes \cup Stops \cup {None}]
       /\ prompt'.turn = p /\ prompt'.pc = "downgrade"
  BY <1>2, <1>3, <1>6, GotoTyped DEF PromptPcs
<1>12. TypeOK'
  BY <1>1, <1>3, <1>5, <1>8, <1>10, <1>11, PromptTypes DEF TypeOK, world
<1>13. IsPrompt(p) /\ Current(p)' /\ doc'.entry[p] # "none" /\ PromptRecord' = record
       /\ agent' = agent
  BY <1>1, <1>2, <1>9, <1>10, <1>11, GoesOnFacts DEF world
<1>14. PromptInv'
  BY <1>4, <1>9, <1>11, <1>13 DEF PromptInv
<1>15. LoopInv'
  BY <1>1, <1>2, <1>4, <1>10, <1>11, <1>13, LoopGoesOn DEF IInv, Late
<1> QED
  BY <1>1, <1>2, <1>9, <1>10, <1>11, <1>12, <1>14, <1>15, PromptGoesOn DEF world

LEMMA FailTurnStep == IInv /\ FailTurn => IInv'
<1> SUFFICES ASSUME IInv, FailTurn PROVE IInv'
  OBVIOUS
<1>1. /\ cancel = NoCancel /\ prompt.pc = "downgrade"
      /\ UNCHANGED <<outbox, intake, inflight, cancel, loop, active, response, world, verdict>>
  BY DEF FailTurn, PromptAt
<1>2. PICK p \in Attempts : p = prompt.turn /\ PromptRecord = outbox[p[1]]
  BY <1>1, PromptFacts DEF PromptAt
<1>3. /\ TypeOK /\ DocInv /\ PromptRecord.status = "delivery_unknown"
      /\ doc.entry[p] # "pending" \/ doc.assistant[p] = "terminal"
  BY <1>1, <1>2 DEF IInv, PromptInv
<1> DEFINE after == SetTerminal(doc, p, "failed")
<1>4. DocStep(doc, after, {}, {}) /\ after \in Doc /\ ~Owns(after, p)
  <2>1. DocStep(doc, after, {}, {}) /\ ~Owns(after, p)
    BY <1>3, TurnCommands DEF TypeOK, TerminalTurn
  <2> QED
    BY <2>1 DEF DocStep
<1>5. Goto("giveup") /\ \E persisted \in BOOLEAN : Write(after, persisted)
  BY <1>2 DEF FailTurn
<1> HIDE DEF after
<1>6. doc' = after /\ faults' \in 0..plan.faults
  BY <1>3, <1>4, <1>5, WriteTyped
<1>7. DocStep(doc, doc', {p}, {})
      /\ (doc'.entry[p] # "pending" \/ doc'.assistant[p] = "terminal")
  BY <1>3, <1>4, <1>6 DEF DocStep
\* The turn that loads is this one, and its end was just written.
<1>8. ~Loading(doc')
  BY <1>2, <1>3, <1>4, <1>6 DEF DocInv, DocStep, Owns
<1>9. /\ prompt' \in [turn : Attempts \cup {None}, pc : PromptPcs, note : Codes \cup Stops \cup {None}]
      /\ prompt'.turn = p /\ prompt'.pc = "giveup"
  BY <1>2, <1>3, <1>5, GotoTyped DEF PromptPcs
<1>10. TypeOK'
  BY <1>1, <1>3, <1>4, <1>6, <1>9, PromptTypes DEF TypeOK, world
<1>11. IsPrompt(p) /\ Current(p)' /\ doc'.entry[p] # "none" /\ PromptRecord' = PromptRecord
       /\ agent' = agent
  BY <1>1, <1>2, <1>7, <1>9, GoesOnFacts DEF world
<1>12. PromptInv'
  BY <1>3, <1>7, <1>8, <1>9, <1>11 DEF PromptInv
<1>13. LoopInv'
  BY <1>1, <1>2, <1>9, <1>11, LoopGoesOn DEF IInv, Late
<1> QED
  BY <1>1, <1>2, <1>7, <1>9, <1>10, <1>12, <1>13, PromptGoesOn DEF world

\* The answer of a prompt, from the three places where it is given.
LEMMA EndTyped ==
    ASSUME TypeOK, NEW p \in Attempts, p = prompt.turn, prompt.pc # "idle", ReserveBalance,
           NEW v \in {"committed", "retryable", "failed", "unknown"}, EndPrompt(v),
           UNCHANGED <<intake, cancel, world>>,
           outbox' \in [Commands -> Record], active' \in Attempts \cup {None},
           doc' \in Doc, faults' \in 0..plan.faults
    PROVE  TypeOK' /\ verdict'[p] = v /\ prompt' = NoPrompt /\ loop' = "off"
<1>1. /\ verdict' = [verdict EXCEPT ![p] = v] /\ inflight' = inflight - 1
      /\ prompt' = NoPrompt /\ loop' = "off" /\ response' = "none"
  BY DEF EndPrompt, Answer
<1>2. inflight' \in 0..plan.places
  <2>1. prompt # NoPrompt
    BY DEF NoPrompt
  <2>2. inflight \in 0..plan.places /\ Len(queue) \in Nat /\ Len(deferred) \in Nat
        /\ plan.places \in Nat
    BY PromptTurnAssumption DEF TypeOK, PromptTurnAssumption
  <2> QED
    BY <1>1, <2>1, <2>2 DEF ReserveBalance
<1>3. prompt' \in [turn : Attempts \cup {None}, pc : PromptPcs, note : Codes \cup Stops \cup {None}]
  BY <1>1 DEF NoPrompt, PromptPcs
<1>4. verdict' \in [Attempts -> {"none", "committed", "retryable", "failed", "unknown"}]
      /\ verdict'[p] = v
  BY <1>1 DEF TypeOK
<1> QED
  BY <1>1, <1>2, <1>3, <1>4 DEF TypeOK, intake, world

LEMMA ProjectNotDeliveredStep == IInv /\ ProjectNotDelivered => IInv'
<1> SUFFICES ASSUME IInv, ProjectNotDelivered PROVE IInv'
  OBVIOUS
<1>1. /\ cancel = NoCancel /\ prompt.pc = "undeliver"
      /\ UNCHANGED <<outbox, intake, cancel, active, world>>
  BY DEF ProjectNotDelivered, PromptAt
<1>2. PICK p \in Attempts : p = prompt.turn /\ PromptRecord = outbox[p[1]]
  BY <1>1, PromptFacts DEF PromptAt
<1> DEFINE v == IF DefaultRetryable(prompt.note) THEN "retryable" ELSE "failed"
<1>3. /\ TypeOK /\ DocInv /\ ReserveBalance /\ agent[p] = "away"
      /\ Current(p) \/ v = "retryable"
      /\ Current(p) => IF v = "retryable" THEN PromptRecord = Absent
                       ELSE PromptRecord.status = "failed"
  BY <1>1, <1>2 DEF IInv, PromptInv, Withdrawn
<1>4. v \in {"retryable", "failed"} /\ EndPrompt(v)
  BY DEF ProjectNotDelivered
<1> HIDE DEF v
<1> DEFINE after == EntryNotDelivered(doc, p)
<1>5. /\ DocStep(doc, after, {p}, {"failed_not_delivered"}) /\ after \in Doc
      /\ after.entry[p] \in {"completed", "failed_not_delivered"} /\ ~Owns(after, p)
  <2>1. /\ DocStep(doc, after, {p}, {"failed_not_delivered"})
        /\ after.entry[p] \in {"completed", "failed_not_delivered"} /\ ~Owns(after, p)
    BY <1>3, EntryCommands DEF TypeOK
  <2> QED
    BY <2>1 DEF DocStep
<1>6. \E persisted \in BOOLEAN : Write(after, persisted)
  BY <1>2 DEF ProjectNotDelivered
<1> HIDE DEF after
<1>7. doc' = after /\ faults' \in 0..plan.faults
  BY <1>3, <1>5, <1>6, WriteTyped
<1>8. /\ DocStep(doc, doc', {p}, {"failed_not_delivered"})
      /\ doc'.entry[p] # "pending" /\ ~Loading(doc')
  BY <1>2, <1>3, <1>5, <1>7 DEF DocInv, DocStep, Owns
<1>9. active = None
  BY <1>1 DEF IInv, LoopInv, Late
<1>10. TypeOK' /\ verdict'[p] = v /\ prompt' = NoPrompt
  BY <1>1, <1>2, <1>3, <1>4, <1>5, <1>7, EndTyped DEF TypeOK
<1>11. DocInv'
  BY <1>2, <1>3, <1>8, DocKept
<1>12. PromptAbout
  <2>1. \A t \in Attempts : Untouched(t) => doc'.assistant[t] = doc.assistant[t]
    BY <1>3, <1>8, UntouchedKept
  <2>2. \A t \in Attempts \ {p} : verdict'[t] = verdict[t] /\ agent'[t] = agent[t]
    BY <1>1, <1>2, <1>3, <1>4 DEF EndPrompt, Answer, TypeOK, world
  <2> QED
    BY <1>1, <1>2, <1>8, <2>1, <2>2 DEF PromptAbout, DocStep
<1>13. Current(p) => Outcome(p)'
  BY <1>1, <1>2, <1>3, <1>4, <1>10 DEF Outcome, world
<1> QED
  BY <1>1, <1>2, <1>3, <1>4, <1>9, <1>10, <1>11, <1>12, <1>13, PromptAnswered DEF world

LEMMA CommitStep == IInv /\ Commit => IInv'
<1> SUFFICES ASSUME IInv, Commit PROVE IInv'
  OBVIOUS
<1>1. /\ cancel = NoCancel /\ prompt.pc = "close" /\ active' = None /\ EndPrompt("committed")
      /\ UNCHANGED <<intake, cancel, docs, world>>
  BY DEF Commit, PromptAt
<1>2. PICK p \in Attempts : p = prompt.turn /\ PromptRecord \in Record /\ Current(p)
                            /\ PromptRecord = outbox[p[1]] /\ p[1] \in Commands
  BY <1>1, PromptFacts DEF PromptAt
<1>3. /\ TypeOK /\ DocInv /\ ReserveBalance /\ agent[p] \in Reached
      /\ doc.entry[p] = "completed" /\ ~Loading(doc)
  BY <1>1, <1>2 DEF IInv, PromptInv
<1>4. DocStep(doc, doc', {p}, {}) /\ doc' \in Doc /\ doc' = doc /\ faults' \in 0..plan.faults
  BY <1>1, SameDoc
<1> DEFINE after == MarkCompleted(MarkProjectionCommitted(PromptRecord))
<1>5. after \in Record /\ after.status = "completed"
  BY <1>2, RecordSteps
<1>6. outbox' = [outbox EXCEPT ![p[1]] = after]
  BY <1>2 DEF Commit, Store
<1> HIDE DEF after
<1>7. /\ outbox' \in [Commands -> Record] /\ outbox'[p[1]] = after
      /\ \A c \in Commands \ {p[1]} : outbox'[c] = outbox[c]
  BY <1>3, <1>5, <1>6, StoreTyped
<1>8. TypeOK' /\ verdict'[p] = "committed" /\ prompt' = NoPrompt
  BY <1>1, <1>2, <1>3, <1>4, <1>7, EndTyped
<1>9. DocInv'
  BY <1>2, <1>3, <1>4, DocKept
<1>10. PromptAbout
  <2>1. \A t \in Attempts \ {p} : verdict'[t] = verdict[t]
    BY <1>1, <1>2, <1>3 DEF EndPrompt, Answer, TypeOK
  <2> QED
    BY <1>1, <1>2, <1>4, <1>7, <2>1 DEF PromptAbout, world
<1>11. Outcome(p)'
  BY <1>1, <1>3, <1>4, <1>5, <1>7, <1>8 DEF Outcome, world
<1> QED
  BY <1>1, <1>2, <1>3, <1>4, <1>8, <1>9, <1>10, <1>11, PromptAnswered

LEMMA GiveUpStep == IInv /\ GiveUp => IInv'
<1> SUFFICES ASSUME IInv, GiveUp PROVE IInv'
  OBVIOUS
<1>1. /\ cancel = NoCancel /\ prompt.pc = "giveup" /\ active' = None /\ EndPrompt("unknown")
      /\ UNCHANGED <<outbox, intake, cancel, docs, world>>
  BY DEF GiveUp, PromptAt
<1>2. PICK p \in Attempts : p = prompt.turn /\ Current(p) /\ PromptRecord = outbox[p[1]]
  BY <1>1, PromptFacts DEF PromptAt
<1>3. /\ TypeOK /\ DocInv /\ ReserveBalance /\ PromptRecord.status = "delivery_unknown"
      /\ doc.entry[p] # "pending" \/ doc.assistant[p] = "terminal"
      /\ ~Loading(doc) /\ doc.entry[p] # "failed_not_delivered"
  <2>1. doc.entry[p] # "failed_not_delivered"
    BY <1>2 DEF IInv, AttemptsInv, AttemptOK, Executing
  <2> QED
    BY <1>1, <1>2, <2>1 DEF IInv, PromptInv
<1>4. DocStep(doc, doc', {p}, {}) /\ doc' \in Doc /\ doc' = doc /\ faults' \in 0..plan.faults
  BY <1>1, SameDoc
<1>5. TypeOK' /\ verdict'[p] = "unknown" /\ prompt' = NoPrompt
  BY <1>1, <1>2, <1>3, <1>4, EndTyped DEF TypeOK
<1>6. DocInv'
  BY <1>2, <1>3, <1>4, DocKept
<1>7. PromptAbout
  <2>1. \A t \in Attempts \ {p} : verdict'[t] = verdict[t]
    BY <1>1, <1>2, <1>3 DEF EndPrompt, Answer, TypeOK
  <2> QED
    BY <1>1, <1>2, <1>4, <2>1 DEF PromptAbout, world
<1>8. Outcome(p)'
  BY <1>1, <1>2, <1>3, <1>5 DEF Outcome
<1> QED
  BY <1>1, <1>2, <1>3, <1>4, <1>5, <1>6, <1>7, <1>8, PromptAnswered

-----------------------------------------------------------------------------
(* The steps of a cancel.                                                  *)
LEMMA CancelFacts ==
    ASSUME IInv, NEW pc, pc # "idle", CancelAt(pc)
    PROVE  /\ cancel.pc = pc
           /\ \E t \in Attempts :
                 /\ t = cancel.turn /\ t[1] \in Commands /\ ~IsPrompt(t) /\ Current(t)
                 /\ CancelRecord = outbox[t[1]] /\ CancelRecord \in Record
                 /\ verdict[t] = "none"
<1> USE DEF IInv
<1>1. cancel.pc = pc
  BY DEF CancelAt
<1>2. cancel.turn \in Attempts /\ ~IsPrompt(cancel.turn) /\ Current(cancel.turn)
  BY <1>1 DEF CancelInv
<1>3. cancel.turn[1] \in Commands
  BY <1>2 DEF Attempts
<1>4. CancelRecord \in Record
  BY <1>3 DEF CancelRecord, TypeOK
<1>5. verdict[cancel.turn] = "none"
  BY <1>2 DEF AttemptsInv, AttemptOK, Executing
<1> QED
  BY <1>1, <1>2, <1>3, <1>4, <1>5 DEF CancelRecord

\* What a cancel leaves alone: the prompt that waits around it, first of all.
CancelAbout ==
    /\ cancel.pc # "idle"
    /\ UNCHANGED <<intake, prompt>>
    /\ \A c \in Commands \ {cancel.turn[1]} : outbox'[c] = outbox[c]
    /\ \A t \in Attempts \ {cancel.turn} : agent'[t] = agent[t] /\ verdict'[t] = verdict[t]
    /\ DocStep(doc, doc', {}, {})
    /\ active' \in {active, None}
    /\ loop' # "off" => loop # "off"

LEMMA CancelFrame ==
    ASSUME IInv, CancelAbout, cancel'.turn \in {cancel.turn, None}
    PROVE  /\ \A t \in Attempts \ {cancel.turn} : AttemptOK(t)'
           /\ PromptInv' /\ LoopInv' /\ DocInv'
<1> USE DEF IInv
<1>1. cancel.turn \in Attempts /\ ~IsPrompt(cancel.turn) /\ Current(cancel.turn) /\ tries' = tries
  BY DEF CancelInv, CancelAbout, intake
<1>2. \A t \in Attempts \ {cancel.turn} : AttemptOK(t)'
  <2>1. \A t \in Attempts \ {cancel.turn} :
           /\ Executing(t)' = Executing(t)
           /\ Withdrawn(t) => Withdrawn(t)'
    BY NoneIsNoAttempt DEF Executing, Withdrawn, CancelAbout
  <2>2. \A t \in Attempts : Untouched(t) => doc'.assistant[t] = doc.assistant[t]
    BY UntouchedKept DEF CancelAbout
  <2>3. OnlyAbout({cancel.turn})
    BY <1>1, <2>1, <2>2 DEF OnlyAbout, CancelAbout, AgentKept, DocStep
  <2> QED
    BY <1>1, <2>3, OthersKept
<1>3. ASSUME prompt.pc # "idle"
      PROVE  /\ prompt.turn \in Attempts \ {cancel.turn}
             /\ outbox'[prompt.turn[1]] = PromptRecord
  <2>1. prompt.turn \in Attempts /\ IsPrompt(prompt.turn)
    BY <1>3 DEF PromptInv
  <2>2. prompt.turn[1] # cancel.turn[1] /\ prompt.turn[1] \in Commands
    BY <1>1, <2>1, Apart DEF Attempts
  <2> QED
    BY <2>1, <2>2 DEF CancelAbout, PromptRecord
<1>4. PromptInv'
  <2>1. prompt.pc # "idle" =>
           AgentKept(prompt.turn) /\ outbox'[prompt.turn[1]] = PromptRecord
    BY <1>3 DEF CancelAbout, AgentKept
  <2> QED
    BY <1>1, <2>1, PromptKept DEF CancelAbout
<1>5. LoopInv'
  <2>1. prompt.pc # "idle" => PromptRecord' = PromptRecord /\ agent'[prompt.turn] = agent[prompt.turn]
    BY <1>3 DEF PromptRecord, CancelAbout
  <2> QED
    BY <2>1 DEF LoopInv, CancelAbout
<1>6. DocInv'
  <2>1. Loading(doc') => prompt.pc \notin {"idle", "register"}
    BY DEF DocStep, DocInv, CancelAbout
  <2> QED
    BY <2>1, DocKept DEF CancelAbout
<1> QED
  BY <1>2, <1>4, <1>5, <1>6

LEMMA CancelGoesOn ==
    ASSUME IInv, CancelAbout, UNCHANGED <<inflight, verdict>>,
           NEW t \in Attempts, t = cancel.turn, cancel'.turn = t, cancel'.pc # "idle",
           TypeOK', CancelInv'
    PROVE  IInv'
<1> USE DEF IInv
<1>1. AttemptsInv' /\ PromptInv' /\ LoopInv' /\ DocInv'
  <2>1. AttemptOK(t) /\ Executing(t) /\ Executing(t)' /\ tries' = tries /\ doc'.entry[t] = doc.entry[t]
    BY DEF AttemptsInv, Executing, CancelAbout, intake, DocStep
  <2>2. Current(t) /\ t[2] \in Nat
    BY DEF CancelInv, CancelAbout, Attempts
  <2>3. AttemptOK(t)'
    BY <2>1, <2>2 DEF AttemptOK, Current
  <2> QED
    BY <2>3, CancelFrame DEF AttemptsInv
<1>2. LineInv'
  <2>1. \A u \in Attempts : ~Executing(u) => ~Executing(u)' /\ verdict'[u] = verdict[u]
    BY DEF Executing, CancelAbout
  <2> QED
    BY <2>1, LineKept DEF CancelAbout
<1>3. ReserveBalance'
  <2>1. cancel # NoCancel /\ cancel' # NoCancel
    BY DEF NoCancel, CancelAbout
  <2> QED
    BY <2>1 DEF ReserveBalance, CancelAbout, intake
<1> QED
  BY <1>1, <1>2, <1>3

LEMMA CancelAnswered ==
    ASSUME IInv, CancelAbout, NEW t \in Attempts, t = cancel.turn,
           NEW v \in {"committed", "retryable", "failed", "unknown"},
           NEW registry, EndCancel(v, registry),
           TypeOK', Outcome(t)'
    PROVE  IInv'
<1> USE DEF IInv
<1>1. /\ tries' = tries /\ cancel' = NoCancel /\ verdict'[t] = v /\ inflight' = inflight - 1
  BY DEF CancelAbout, intake, EndCancel, Answer, TypeOK
<1>2. Current(t) /\ t[2] \in Nat /\ ~IsPrompt(t)
  BY DEF CancelInv, CancelAbout, Attempts
<1>3. AttemptOK(t)'
  <2>1. doc'.entry[t] # "failed_not_delivered"
    BY DEF AttemptsInv, AttemptOK, Executing, CancelAbout, DocStep
  <2>2. ~Executing(t)'
    <3>1. prompt.turn # t
      <4>1. prompt.turn \in Attempts => IsPrompt(prompt.turn)
        BY NoneIsNoAttempt DEF PromptInv, NoPrompt
      <4> QED
        BY <1>2, <4>1
    <3> QED
      BY <1>1, <3>1, NoneIsNoAttempt DEF Executing, NoCancel, CancelAbout
  <2> QED
    BY <1>1, <1>2, <2>1, <2>2 DEF AttemptOK, Current
<1>4. AttemptsInv' /\ PromptInv' /\ LoopInv' /\ DocInv'
  BY <1>1, <1>3, CancelFrame DEF AttemptsInv, NoCancel
<1>5. CancelInv'
  BY <1>1 DEF CancelInv, NoCancel
<1>6. LineInv'
  <2>1. \A u \in Attempts : ~Executing(u) => ~Executing(u)' /\ verdict'[u] = verdict[u]
    BY <1>1, NoneIsNoAttempt DEF Executing, CancelAbout, NoCancel
  <2> QED
    BY <2>1, LineKept DEF CancelAbout
<1>7. ReserveBalance'
  <2>1. cancel # NoCancel
    BY DEF NoCancel, CancelAbout
  <2>2. inflight \in Nat /\ Len(queue) \in Nat /\ Len(deferred) \in Nat
    BY PromptTurnAssumption DEF TypeOK, PromptTurnAssumption
  <2> QED
    BY <1>1, <2>1, <2>2 DEF ReserveBalance, CancelAbout, intake
<1> QED
  BY <1>4, <1>5, <1>6, <1>7

LEMMA CancelTypes ==
    ASSUME TypeOK, UNCHANGED <<intake, prompt, response, link, drops, disc, exit>>,
           outbox' \in [Commands -> Record], inflight' \in 0..plan.places,
           cancel' \in [turn : Attempts \cup {None}, pc : CancelPcs, target : Attempts \cup {None}],
           loop' \in {"off", "signalled", "reading", "awaiting"},
           active' \in Attempts \cup {None},
           doc' \in Doc, faults' \in 0..plan.faults,
           agent' \in [Attempts -> {"away", "wire", "running", "answered"}],
           verdict' \in [Attempts -> {"none", "committed", "retryable", "failed", "unknown"}]
    PROVE  TypeOK'
BY DEF TypeOK, intake

\* The answer of a cancel, wherever it is given.
LEMMA CancelEndTyped ==
    ASSUME TypeOK, ReserveBalance, NEW t \in Attempts, t = cancel.turn, cancel.pc # "idle",
           NEW v \in {"committed", "retryable", "failed", "unknown"},
           NEW registry \in {active, None}, EndCancel(v, registry),
           UNCHANGED <<intake, prompt, response, link, drops, disc, exit>>,
           outbox' \in [Commands -> Record], doc' \in Doc, faults' \in 0..plan.faults,
           agent' \in [Attempts -> {"away", "wire", "running", "answered"}]
    PROVE  /\ TypeOK' /\ verdict'[t] = v
           /\ \A u \in Attempts \ {t} : verdict'[u] = verdict[u]
           /\ active' \in {active, None}
           /\ loop' # "off" => loop # "off"
<1>1. /\ verdict' = [verdict EXCEPT ![t] = v] /\ inflight' = inflight - 1
      /\ cancel' = NoCancel /\ active' = registry
      /\ loop' = IF loop = "reading" /\ registry # prompt.turn THEN "awaiting" ELSE loop
  BY DEF EndCancel, Answer
<1>2. inflight' \in 0..plan.places
  <2>1. cancel # NoCancel
    BY DEF NoCancel
  <2>2. inflight \in 0..plan.places /\ Len(queue) \in Nat /\ Len(deferred) \in Nat
        /\ plan.places \in Nat
    BY PromptTurnAssumption DEF TypeOK, PromptTurnAssumption
  <2> QED
    BY <1>1, <2>1, <2>2 DEF ReserveBalance
<1>3. cancel' \in [turn : Attempts \cup {None}, pc : CancelPcs, target : Attempts \cup {None}]
  BY <1>1 DEF NoCancel, CancelPcs
<1>4. /\ verdict' \in [Attempts -> {"none", "committed", "retryable", "failed", "unknown"}]
      /\ verdict'[t] = v
      /\ \A u \in Attempts \ {t} : verdict'[u] = verdict[u]
  BY <1>1 DEF TypeOK
<1>5. active' \in Attempts \cup {None} /\ active' \in {active, None}
  BY <1>1 DEF TypeOK
<1>6. loop' \in {"off", "signalled", "reading", "awaiting"} /\ (loop' # "off" => loop # "off")
  BY <1>1 DEF TypeOK
<1> QED
  BY <1>2, <1>3, <1>4, <1>5, <1>6, CancelTypes

LEMMA CancelGotoTyped ==
    ASSUME TypeOK, NEW pc \in CancelPcs, CancelGoto(pc)
    PROVE  /\ cancel' \in [turn : Attempts \cup {None}, pc : CancelPcs, target : Attempts \cup {None}]
           /\ cancel'.turn = cancel.turn /\ cancel'.pc = pc /\ cancel'.target = cancel.target
BY DEF CancelGoto, TypeOK

LEMMA SameDocs ==
    ASSUME IInv, UNCHANGED docs
    PROVE  DocStep(doc, doc', {}, {}) /\ doc' \in Doc /\ doc' = doc /\ faults' \in 0..plan.faults
<1>1. {} \in SUBSET Attempts
  OBVIOUS
<1> QED
  BY <1>1, DocSame DEF IInv, TypeOK, docs

LEMMA CancelIntentStep == IInv /\ CancelIntent => IInv'
<1> SUFFICES ASSUME IInv, CancelIntent PROVE IInv'
  OBVIOUS
<1>1. /\ cancel.pc = "intent" /\ UNCHANGED <<intake, prompt, response, docs, world>>
  BY DEF CancelIntent, CancelAt
<1>2. PICK t \in Attempts : /\ t = cancel.turn /\ ~IsPrompt(t) /\ Current(t)
                            /\ CancelRecord \in Record /\ CancelRecord = outbox[t[1]]
  BY <1>1, CancelFacts DEF CancelAt
<1>3. TypeOK /\ ReserveBalance /\ agent[t] = "away"
  BY <1>1, <1>2 DEF IInv, CancelInv
<1>4. DocStep(doc, doc', {}, {}) /\ doc' \in Doc /\ doc' = doc /\ faults' \in 0..plan.faults
  BY <1>1, SameDocs
<1> DEFINE durable == MarkIntentDurable(CancelRecord)
<1>5. durable \in Record /\ durable.status = "intent_durable"
  BY <1>2, RecordSteps
<1>6. \/ /\ Store(t, TRUE, durable)
         /\ cancel' = [cancel EXCEPT !.pc = "mark", !.target = ResolvedTurn]
         /\ UNCHANGED <<loop, active, verdict, inflight>>
      \/ \E code \in {"CHAT_NOT_FOUND", "INVALID_STATE"} :
            /\ Store(t, TRUE, MarkFailed(durable, [code |-> code, retryable |-> FALSE]))
            /\ EndCancel("failed", active)
  BY <1>2 DEF CancelIntent
<1> HIDE DEF durable
<1>7. CASE /\ Store(t, TRUE, durable)
           /\ cancel' = [cancel EXCEPT !.pc = "mark", !.target = ResolvedTurn]
           /\ UNCHANGED <<loop, active, verdict, inflight>>
  <2>1. /\ outbox' \in [Commands -> Record] /\ outbox'[t[1]] = durable
        /\ \A c \in Commands \ {t[1]} : outbox'[c] = outbox[c]
    BY <1>3, <1>5, <1>7, StoreTyped DEF Store
  <2>2. ResolvedTurn \in Attempts \cup {None}
    BY <1>3 DEF ResolvedTurn, TypeOK, Doc
  <2>3. /\ cancel' \in [turn : Attempts \cup {None}, pc : CancelPcs, target : Attempts \cup {None}]
        /\ cancel'.turn = t /\ cancel'.pc = "mark"
    BY <1>2, <1>3, <1>7, <2>2 DEF TypeOK, CancelPcs
  <2>4. TypeOK'
    BY <1>1, <1>3, <1>4, <1>7, <2>1, <2>3, CancelTypes DEF TypeOK, world
  <2>5. CancelAbout
    BY <1>1, <1>2, <1>4, <1>7, <2>1 DEF CancelAbout, world
  <2>6. CancelInv'
    BY <1>1, <1>2, <1>3, <1>5, <2>1, <2>3 DEF CancelInv, CancelRecord, Current, intake, world
  <2> QED
    BY <1>2, <1>7, <2>3, <2>4, <2>5, <2>6, CancelGoesOn
<1>8. ASSUME NEW code \in {"CHAT_NOT_FOUND", "INVALID_STATE"},
             Store(t, TRUE, MarkFailed(durable, [code |-> code, retryable |-> FALSE])),
             EndCancel("failed", active)
      PROVE  IInv'
  <2> DEFINE err == [code |-> code, retryable |-> FALSE]
             after == MarkFailed(durable, err)
  <2>1. err \in Errors /\ ~err.retryable
    BY DEF Errors, Codes
  <2>2. after \in Record /\ after.status = "failed"
    <3> HIDE DEF err
    <3> QED
      BY <1>5, <2>1, FailedTyped
  <2>3. outbox' = [outbox EXCEPT ![t[1]] = after]
    BY <1>8 DEF Store
  <2> HIDE DEF after
  <2>4. /\ outbox' \in [Commands -> Record] /\ outbox'[t[1]] = after
        /\ \A c \in Commands \ {t[1]} : outbox'[c] = outbox[c]
    BY <1>3, <2>2, <2>3, StoreTyped
  <2>5. /\ TypeOK' /\ verdict'[t] = "failed"
        /\ \A u \in Attempts \ {t} : verdict'[u] = verdict[u]
        /\ active' \in {active, None} /\ (loop' # "off" => loop # "off")
    BY <1>1, <1>2, <1>3, <1>4, <1>8, <2>4, CancelEndTyped DEF world, TypeOK
  <2>6. CancelAbout
    BY <1>1, <1>2, <1>4, <2>4, <2>5 DEF CancelAbout, world
  <2>7. Outcome(t)'
    BY <1>1, <1>3, <2>2, <2>4, <2>5 DEF Outcome, world
  <2> QED
    BY <1>2, <1>8, <2>5, <2>6, <2>7, CancelAnswered
<1> QED
  BY <1>6, <1>7, <1>8

LEMMA CancelMarkStep == IInv /\ CancelMark => IInv'
<1> SUFFICES ASSUME IInv, CancelMark PROVE IInv'
  OBVIOUS
<1>1. /\ cancel.pc = "mark" /\ cancel.target # None
      /\ UNCHANGED <<intake, prompt, response, world>>
  BY DEF CancelMark, CancelAt
<1>2. PICK t \in Attempts : /\ t = cancel.turn /\ ~IsPrompt(t) /\ Current(t)
                            /\ CancelRecord \in Record /\ CancelRecord = outbox[t[1]]
  BY <1>1, CancelFacts DEF CancelAt
<1>3. /\ TypeOK /\ ReserveBalance /\ agent[t] = "away" /\ CancelRecord.status = "intent_durable"
      /\ cancel.target \in Attempts
  BY <1>1, <1>2 DEF IInv, CancelInv, TypeOK
<1> DEFINE marked == MarkCancelling(doc, cancel.target)
           raised == RaiseBarrier(CancelRecord)
           failed == MarkFailed(CancelRecord, FromErrorCode("INVALID_STATE"))
<1>4. DocStep(doc, marked, {}, {}) /\ marked \in Doc
  <2>1. DocStep(doc, marked, {}, {})
    BY <1>3, TurnCommands DEF TypeOK
  <2> QED
    BY <2>1 DEF DocStep
<1>5. raised \in Record /\ raised.status = "intent_durable"
  BY <1>2, <1>3, RecordSteps
<1>6. failed \in Record /\ failed.status = "failed"
  <2>1. FromErrorCode("INVALID_STATE") \in Errors /\ ~FromErrorCode("INVALID_STATE").retryable
    BY ErrorTyped DEF Codes, FromErrorCode, DefaultRetryable
  <2> QED
    BY <1>2, <2>1, FailedTyped
<1>7. PICK persisted \in BOOLEAN :
         /\ Write(marked, persisted)
         /\ \/ /\ outbox' = [outbox EXCEPT ![t[1]] = raised] /\ CancelGoto("forward")
               /\ UNCHANGED <<loop, active, verdict, inflight>>
            \/ /\ outbox' = [outbox EXCEPT ![t[1]] = failed] /\ EndCancel("failed", active)
  BY <1>2 DEF CancelMark, Store
<1> HIDE DEF marked, raised, failed
<1>8. DocStep(doc, doc', {}, {}) /\ doc' \in Doc /\ faults' \in 0..plan.faults
  <2>1. doc' = marked /\ faults' \in 0..plan.faults
    BY <1>3, <1>4, <1>7, WriteTyped
  <2> QED
    BY <1>4, <2>1
<1>9. CASE /\ outbox' = [outbox EXCEPT ![t[1]] = raised] /\ CancelGoto("forward")
           /\ UNCHANGED <<loop, active, verdict, inflight>>
  <2>1. /\ outbox' \in [Commands -> Record] /\ outbox'[t[1]] = raised
        /\ \A c \in Commands \ {t[1]} : outbox'[c] = outbox[c]
    BY <1>3, <1>5, <1>9, StoreTyped
  <2>2. /\ cancel' \in [turn : Attempts \cup {None}, pc : CancelPcs, target : Attempts \cup {None}]
        /\ cancel'.turn = t /\ cancel'.pc = "forward"
    BY <1>2, <1>3, <1>9, CancelGotoTyped DEF CancelPcs
  <2>3. TypeOK'
    BY <1>1, <1>3, <1>8, <1>9, <2>1, <2>2, CancelTypes DEF TypeOK, world
  <2>4. CancelAbout
    BY <1>1, <1>2, <1>8, <1>9, <2>1 DEF CancelAbout, world
  <2>5. CancelInv'
    BY <1>1, <1>2, <1>3, <1>5, <2>1, <2>2 DEF CancelInv, CancelRecord, Current, intake, world
  <2> QED
    BY <1>2, <1>9, <2>2, <2>3, <2>4, <2>5, CancelGoesOn
<1>10. CASE outbox' = [outbox EXCEPT ![t[1]] = failed] /\ EndCancel("failed", active)
  <2>1. /\ outbox' \in [Commands -> Record] /\ outbox'[t[1]] = failed
        /\ \A c \in Commands \ {t[1]} : outbox'[c] = outbox[c]
    BY <1>3, <1>6, <1>10, StoreTyped
  <2>2. /\ TypeOK' /\ verdict'[t] = "failed"
        /\ \A u \in Attempts \ {t} : verdict'[u] = verdict[u]
        /\ active' \in {active, None} /\ (loop' # "off" => loop # "off")
    BY <1>1, <1>2, <1>3, <1>8, <1>10, <2>1, CancelEndTyped DEF world, TypeOK
  <2>3. CancelAbout
    BY <1>1, <1>2, <1>8, <2>1, <2>2 DEF CancelAbout, world
  <2>4. Outcome(t)'
    BY <1>1, <1>3, <1>6, <2>1, <2>2 DEF Outcome, world
  <2> QED
    BY <1>2, <1>10, <2>2, <2>3, <2>4, CancelAnswered
<1> QED
  BY <1>7, <1>9, <1>10

LEMMA CancelNothingActiveStep == IInv /\ CancelNothingActive => IInv'
<1> SUFFICES ASSUME IInv, CancelNothingActive PROVE IInv'
  OBVIOUS
<1>1. /\ cancel.pc = "mark" /\ CancelGoto("forward")
      /\ UNCHANGED <<intake, inflight, prompt, loop, active, response, docs, world, verdict>>
  BY DEF CancelNothingActive, CancelAt
<1>2. PICK t \in Attempts : /\ t = cancel.turn /\ ~IsPrompt(t) /\ Current(t)
                            /\ CancelRecord \in Record /\ CancelRecord = outbox[t[1]]
  BY <1>1, CancelFacts DEF CancelAt
<1>3. TypeOK /\ agent[t] = "away" /\ CancelRecord.status = "intent_durable"
  BY <1>1, <1>2 DEF IInv, CancelInv
<1>4. DocStep(doc, doc', {}, {}) /\ doc' \in Doc /\ doc' = doc /\ faults' \in 0..plan.faults
  BY <1>1, SameDocs
<1> DEFINE raised == RaiseBarrier(CancelRecord)
<1>5. raised \in Record /\ raised.status = "intent_durable"
  BY <1>2, <1>3, RecordSteps
<1>6. outbox' = [outbox EXCEPT ![t[1]] = raised]
  BY <1>2 DEF CancelNothingActive, Store
<1> HIDE DEF raised
<1>7. /\ outbox' \in [Commands -> Record] /\ outbox'[t[1]] = raised
      /\ \A c \in Commands \ {t[1]} : outbox'[c] = outbox[c]
  BY <1>3, <1>5, <1>6, StoreTyped
<1>8. /\ cancel' \in [turn : Attempts \cup {None}, pc : CancelPcs, target : Attempts \cup {None}]
      /\ cancel'.turn = t /\ cancel'.pc = "forward"
  BY <1>1, <1>2, <1>3, CancelGotoTyped DEF CancelPcs
<1>9. TypeOK'
  BY <1>1, <1>3, <1>4, <1>7, <1>8, CancelTypes DEF TypeOK, world
<1>10. CancelAbout
  BY <1>1, <1>2, <1>4, <1>7 DEF CancelAbout, world
<1>11. CancelInv'
  BY <1>1, <1>2, <1>3, <1>5, <1>7, <1>8 DEF CancelInv, CancelRecord, Current, intake, world
<1> QED
  BY <1>1, <1>2, <1>8, <1>9, <1>10, <1>11, CancelGoesOn

LEMMA CancelAckedStep == IInv /\ CancelAcked => IInv'
<1> SUFFICES ASSUME IInv, CancelAcked PROVE IInv'
  OBVIOUS
<1>1. /\ cancel.pc = "forward" /\ CancelGoto("settle")
      /\ UNCHANGED <<intake, inflight, prompt, loop, active, response, docs,
                     link, drops, disc, exit, verdict>>
  BY DEF CancelAcked, CancelAt
<1>2. PICK t \in Attempts : /\ t = cancel.turn /\ ~IsPrompt(t) /\ Current(t)
                            /\ CancelRecord \in Record /\ CancelRecord = outbox[t[1]]
  BY <1>1, CancelFacts DEF CancelAt
<1>3. TypeOK
  BY DEF IInv
<1>4. DocStep(doc, doc', {}, {}) /\ doc' \in Doc /\ doc' = doc /\ faults' \in 0..plan.faults
  BY <1>1, SameDocs
<1> DEFINE after == MarkDeliveryConfirmed(MarkDispatched(CancelRecord))
<1>5. after \in Record /\ after.status = "delivery_confirmed"
  <2>1. MarkDispatched(CancelRecord) \in Record
    BY <1>2, RecordSteps
  <2> QED
    BY <2>1, RecordSteps
<1>6. /\ outbox' = [outbox EXCEPT ![t[1]] = after]
      /\ agent' = [agent EXCEPT ![t] = "running"]
  BY <1>2 DEF CancelAcked, Store
<1> HIDE DEF after
<1>7. /\ outbox' \in [Commands -> Record] /\ outbox'[t[1]] = after
      /\ \A c \in Commands \ {t[1]} : outbox'[c] = outbox[c]
  BY <1>3, <1>5, <1>6, StoreTyped
<1>8. /\ agent' \in [Attempts -> {"away", "wire", "running", "answered"}]
      /\ agent'[t] = "running" /\ \A u \in Attempts \ {t} : agent'[u] = agent[u]
  BY <1>3, <1>6 DEF TypeOK
<1>9. /\ cancel' \in [turn : Attempts \cup {None}, pc : CancelPcs, target : Attempts \cup {None}]
      /\ cancel'.turn = t /\ cancel'.pc = "settle"
  BY <1>1, <1>2, <1>3, CancelGotoTyped DEF CancelPcs
<1>10. TypeOK'
  BY <1>1, <1>3, <1>4, <1>7, <1>8, <1>9, CancelTypes DEF TypeOK
<1>11. CancelAbout
  BY <1>1, <1>2, <1>4, <1>7, <1>8 DEF CancelAbout
<1>12. CancelInv'
  BY <1>1, <1>2, <1>5, <1>7, <1>8, <1>9 DEF CancelInv, CancelRecord, Current, intake, Reached
<1> QED
  BY <1>1, <1>2, <1>9, <1>10, <1>11, <1>12, CancelGoesOn

LEMMA CancelSettleStep == IInv /\ CancelSettle => IInv'
<1> SUFFICES ASSUME IInv, CancelSettle PROVE IInv'
  OBVIOUS
<1>1. /\ cancel.pc = "settle"
      /\ UNCHANGED <<outbox, intake, inflight, prompt, loop, active, response, world, verdict>>
  BY DEF CancelSettle, CancelAt
<1>2. PICK t \in Attempts : /\ t = cancel.turn /\ ~IsPrompt(t) /\ Current(t)
                            /\ CancelRecord = outbox[t[1]]
  BY <1>1, CancelFacts DEF CancelAt
<1>3. /\ TypeOK /\ agent[t] \in Reached /\ CancelRecord.status = "delivery_confirmed"
  BY <1>1, <1>2 DEF IInv, CancelInv
<1> DEFINE Settled ==
       /\ DocStep(doc, doc', {}, {}) /\ doc' \in Doc /\ faults' \in 0..plan.faults
       /\ cancel' \in [turn : Attempts \cup {None}, pc : CancelPcs, target : Attempts \cup {None}]
       /\ cancel'.turn = t /\ cancel'.pc \in {"close", "blurred"}
       /\ cancel'.pc = "close" /\ cancel'.target # None => ~Owns(doc', cancel'.target)
<1>4. Settled
  <2>1. CASE cancel.target = None /\ CancelGoto("close") /\ UNCHANGED docs
    <3>1. DocStep(doc, doc', {}, {}) /\ doc' \in Doc /\ faults' \in 0..plan.faults
      BY <2>1, SameDocs
    <3>2. /\ cancel' \in [turn : Attempts \cup {None}, pc : CancelPcs, target : Attempts \cup {None}]
          /\ cancel'.turn = t /\ cancel'.pc = "close" /\ cancel'.target = None
      BY <1>2, <1>3, <2>1, CancelGotoTyped DEF CancelPcs
    <3> QED
      BY <3>1, <3>2
  <2>2. ASSUME cancel.target # None, NEW persisted \in BOOLEAN,
               Write(SetTerminal(doc, cancel.target, "cancelled"), persisted),
               CancelGoto(IF persisted /\ TerminalAccepted(doc, cancel.target, "cancelled")
                          THEN "close" ELSE "blurred")
        PROVE  Settled
    <3> DEFINE after == SetTerminal(doc, cancel.target, "cancelled")
    <3>1. DocStep(doc, after, {}, {}) /\ after \in Doc /\ ~Owns(after, cancel.target)
      <4>1. DocStep(doc, after, {}, {}) /\ ~Owns(after, cancel.target)
        BY <1>3, <2>2, TurnCommands DEF TypeOK, TerminalTurn
      <4> QED
        BY <4>1 DEF DocStep
    <3> HIDE DEF after
    <3>2. doc' = after /\ faults' \in 0..plan.faults
      BY <1>3, <2>2, <3>1, WriteTyped DEF after
    <3>3. PICK pc \in {"close", "blurred"} : CancelGoto(pc)
      BY <2>2
    <3>4. /\ cancel' \in [turn : Attempts \cup {None}, pc : CancelPcs, target : Attempts \cup {None}]
          /\ cancel'.turn = t /\ cancel'.pc = pc /\ cancel'.target = cancel.target
      BY <1>2, <1>3, <3>3, CancelGotoTyped DEF CancelPcs
    <3> QED
      BY <3>1, <3>2, <3>4
  <2> QED
    BY <2>1, <2>2 DEF CancelSettle
<1>5. TypeOK'
  BY <1>1, <1>3, <1>4, CancelTypes DEF TypeOK, world
<1>6. CancelAbout
  BY <1>1, <1>2, <1>4 DEF CancelAbout, world
<1>7. CancelInv'
  BY <1>1, <1>2, <1>3, <1>4 DEF CancelInv, CancelRecord, Current, intake, world
<1> QED
  BY <1>1, <1>2, <1>4, <1>5, <1>6, <1>7, CancelGoesOn

\* The instance's word that nothing was written removes the record again.
LEMMA CancelNotDeliveredStep == IInv /\ CancelNotDelivered => IInv'
<1> SUFFICES ASSUME IInv, CancelNotDelivered PROVE IInv'
  OBVIOUS
<1>1. /\ cancel.pc = "forward" /\ UNCHANGED <<intake, prompt, response, docs, world>>
  BY DEF CancelNotDelivered, CancelAt
<1>2. PICK t \in Attempts : /\ t = cancel.turn /\ ~IsPrompt(t) /\ Current(t)
                            /\ CancelRecord \in Record /\ CancelRecord = outbox[t[1]]
  BY <1>1, CancelFacts DEF CancelAt
<1>3. TypeOK /\ ReserveBalance /\ agent[t] = "away"
  BY <1>1, <1>2 DEF IInv, CancelInv
<1>4. DocStep(doc, doc', {}, {}) /\ doc' \in Doc /\ doc' = doc /\ faults' \in 0..plan.faults
  BY <1>1, SameDocs
<1>5. PICK code \in {"INSTANCE_OFFLINE", "AGENT_UNAVAILABLE"} :
         LET err == FromErrorCode(code)
         IN  /\ Store(t, CanMarkCancelNotDelivered(CancelRecord),
                      MarkFailed(LowerBarrier(CancelRecord, err), err))
             /\ EndCancel(IF DefaultRetryable(err.code) THEN "retryable" ELSE "failed", active)
  BY <1>2 DEF CancelNotDelivered
<1> DEFINE err == FromErrorCode(code)
<1>6. err \in Errors /\ err.retryable /\ DefaultRetryable(err.code)
  BY ErrorTyped DEF Codes, FromErrorCode, DefaultRetryable
<1> HIDE DEF err
<1>7. MarkFailed(LowerBarrier(CancelRecord, err), err) = Absent
  <2>1. CancelRecord.status = "intent_durable"
    BY <1>5 DEF Store, CanMarkCancelNotDelivered
  <2> DEFINE low == LowerBarrier(CancelRecord, err)
  <2>2. low \in Record /\ low.status = "intent_durable" /\ ~low.barrier
    BY <1>2, <1>6, <2>1, LowerTyped
  <2> HIDE DEF low
  <2>3. MarkFailed(low, err) = Absent
    BY <1>6, <2>2, FailedTyped
  <2> QED
    BY <2>3 DEF low
<1>8. outbox' = [outbox EXCEPT ![t[1]] = Absent] /\ EndCancel("retryable", active)
  BY <1>5, <1>6, <1>7 DEF Store, err
<1>9. /\ outbox' \in [Commands -> Record] /\ outbox'[t[1]] = Absent
      /\ \A c \in Commands \ {t[1]} : outbox'[c] = outbox[c]
  BY <1>3, <1>8, StoreTyped, AbsentTyped
<1>10. /\ TypeOK' /\ verdict'[t] = "retryable"
       /\ \A u \in Attempts \ {t} : verdict'[u] = verdict[u]
       /\ active' \in {active, None} /\ (loop' # "off" => loop # "off")
  BY <1>1, <1>2, <1>3, <1>4, <1>8, <1>9, CancelEndTyped DEF world, TypeOK
<1>11. CancelAbout
  BY <1>1, <1>2, <1>4, <1>9, <1>10 DEF CancelAbout, world
<1>12. Outcome(t)'
  BY <1>1, <1>3, <1>9, <1>10 DEF Outcome, world
<1> QED
  BY <1>2, <1>8, <1>10, <1>11, <1>12, CancelAnswered

LEMMA CancelTimedOutStep == IInv /\ CancelTimedOut => IInv'
<1> SUFFICES ASSUME IInv, CancelTimedOut PROVE IInv'
  OBVIOUS
<1>1. /\ cancel.pc = "forward" /\ EndCancel("unknown", active)
      /\ UNCHANGED <<intake, prompt, response, docs, link, drops, disc, exit>>
  BY DEF CancelTimedOut, CancelAt
<1>2. PICK t \in Attempts : /\ t = cancel.turn /\ ~IsPrompt(t) /\ Current(t)
                            /\ CancelRecord \in Record /\ CancelRecord = outbox[t[1]]
  BY <1>1, CancelFacts DEF CancelAt
<1>3. TypeOK /\ ReserveBalance
  BY DEF IInv
<1>4. DocStep(doc, doc', {}, {}) /\ doc' \in Doc /\ doc' = doc /\ faults' \in 0..plan.faults
  BY <1>1, SameDocs
<1> DEFINE after == MarkDeliveryUnknown(CancelRecord)
<1>5. after \in Record /\ after.status = "delivery_unknown"
  BY <1>2, RecordSteps
<1>6. /\ outbox' = [outbox EXCEPT ![t[1]] = after]
      /\ \E where \in {"away", "wire"} : agent' = [agent EXCEPT ![t] = where]
  BY <1>2 DEF CancelTimedOut, Store
<1> HIDE DEF after
<1>7. /\ outbox' \in [Commands -> Record] /\ outbox'[t[1]] = after
      /\ \A c \in Commands \ {t[1]} : outbox'[c] = outbox[c]
  BY <1>3, <1>5, <1>6, StoreTyped
<1>8. /\ agent' \in [Attempts -> {"away", "wire", "running", "answered"}]
      /\ \A u \in Attempts \ {t} : agent'[u] = agent[u]
  BY <1>3, <1>6 DEF TypeOK
<1>9. /\ TypeOK' /\ verdict'[t] = "unknown"
      /\ \A u \in Attempts \ {t} : verdict'[u] = verdict[u]
      /\ active' \in {active, None} /\ (loop' # "off" => loop # "off")
  BY <1>1, <1>2, <1>3, <1>4, <1>7, <1>8, CancelEndTyped
<1>10. CancelAbout
  BY <1>1, <1>2, <1>4, <1>7, <1>8, <1>9 DEF CancelAbout
<1>11. Outcome(t)'
  BY <1>5, <1>7, <1>9 DEF Outcome
<1> QED
  BY <1>1, <1>2, <1>9, <1>10, <1>11, CancelAnswered

LEMMA CancelCommitStep == IInv /\ CancelCommit => IInv'
<1> SUFFICES ASSUME IInv, CancelCommit PROVE IInv'
  OBVIOUS
<1> DEFINE registry == IF cancel.target = None THEN active ELSE None
<1>1. /\ cancel.pc = "close" /\ EndCancel("committed", registry)
      /\ UNCHANGED <<intake, prompt, response, docs, world>>
  BY DEF CancelCommit, CancelAt
<1>2. PICK t \in Attempts : /\ t = cancel.turn /\ ~IsPrompt(t) /\ Current(t)
                            /\ CancelRecord \in Record /\ CancelRecord = outbox[t[1]]
  BY <1>1, CancelFacts DEF CancelAt
<1>3. TypeOK /\ ReserveBalance /\ agent[t] \in Reached /\ registry \in {active, None}
  BY <1>1, <1>2 DEF IInv, CancelInv
<1> HIDE DEF registry
<1>4. DocStep(doc, doc', {}, {}) /\ doc' \in Doc /\ doc' = doc /\ faults' \in 0..plan.faults
  BY <1>1, SameDocs
<1> DEFINE after == MarkCompleted(MarkProjectionCommitted(CancelRecord))
<1>5. after \in Record /\ after.status = "completed"
  BY <1>2, RecordSteps
<1>6. outbox' = [outbox EXCEPT ![t[1]] = after]
  BY <1>2 DEF CancelCommit, Store
<1> HIDE DEF after
<1>7. /\ outbox' \in [Commands -> Record] /\ outbox'[t[1]] = after
      /\ \A c \in Commands \ {t[1]} : outbox'[c] = outbox[c]
  BY <1>3, <1>5, <1>6, StoreTyped
<1>8. /\ TypeOK' /\ verdict'[t] = "committed"
      /\ \A u \in Attempts \ {t} : verdict'[u] = verdict[u]
      /\ active' \in {active, None} /\ (loop' # "off" => loop # "off")
  BY <1>1, <1>2, <1>3, <1>4, <1>7, CancelEndTyped DEF world, TypeOK
<1>9. CancelAbout
  BY <1>1, <1>2, <1>4, <1>7, <1>8 DEF CancelAbout, world
<1>10. Outcome(t)'
  BY <1>1, <1>2, <1>3, <1>5, <1>7, <1>8 DEF Outcome, world
<1> QED
  BY <1>1, <1>2, <1>8, <1>9, <1>10, CancelAnswered

LEMMA CancelBlurredStep == IInv /\ CancelBlurred => IInv'
<1> SUFFICES ASSUME IInv, CancelBlurred PROVE IInv'
  OBVIOUS
<1>1. /\ cancel.pc = "blurred" /\ EndCancel("unknown", None)
      /\ UNCHANGED <<intake, prompt, response, docs, world>>
  BY DEF CancelBlurred, CancelAt
<1>2. PICK t \in Attempts : /\ t = cancel.turn /\ ~IsPrompt(t) /\ Current(t)
                            /\ CancelRecord \in Record /\ CancelRecord = outbox[t[1]]
  BY <1>1, CancelFacts DEF CancelAt
<1>3. TypeOK /\ ReserveBalance
  BY DEF IInv
<1>4. DocStep(doc, doc', {}, {}) /\ doc' \in Doc /\ doc' = doc /\ faults' \in 0..plan.faults
  BY <1>1, SameDocs
<1> DEFINE after == MarkDeliveryUnknown(CancelRecord)
<1>5. after \in Record /\ after.status = "delivery_unknown"
  BY <1>2, RecordSteps
<1>6. outbox' = [outbox EXCEPT ![t[1]] = after]
  BY <1>2 DEF CancelBlurred, Store
<1> HIDE DEF after
<1>7. /\ outbox' \in [Commands -> Record] /\ outbox'[t[1]] = after
      /\ \A c \in Commands \ {t[1]} : outbox'[c] = outbox[c]
  BY <1>3, <1>5, <1>6, StoreTyped
<1>8. /\ TypeOK' /\ verdict'[t] = "unknown"
      /\ \A u \in Attempts \ {t} : verdict'[u] = verdict[u]
      /\ active' \in {active, None} /\ (loop' # "off" => loop # "off")
  BY <1>1, <1>2, <1>3, <1>4, <1>7, CancelEndTyped DEF world, TypeOK
<1>9. CancelAbout
  BY <1>1, <1>2, <1>4, <1>7, <1>8 DEF CancelAbout, world
<1>10. Outcome(t)'
  BY <1>5, <1>7, <1>8 DEF Outcome
<1> QED
  BY <1>1, <1>2, <1>8, <1>9, <1>10, CancelAnswered

-----------------------------------------------------------------------------
(* The handlers, the loop's start, the instance and the agent.             *)
LEMMA HandlerStep ==
    ASSUME IInv,
           \/ EnterLoop \/ DiscStep \/ ExitClear \/ Disconnect \/ Reconnect \/ ProcessExit
           \/ \E t \in Attempts : WireDelivers(t)
           \/ \E t \in Attempts, stop \in Stops : AgentAnswers(t, stop)
           \/ AgentStreams \/ PermissionAsked \/ PermissionAnswered
           \/ \E t \in Attempts, status \in Stops \cap FinalTurn : AgentEndsTurn(t, status)
    PROVE  IInv'
<1>1. TypeOK
  BY DEF IInv
<1>2. /\ doc \in Doc /\ faults \in 0..plan.faults /\ drops \in 0..plan.drops /\ plan.drops \in Nat
  BY <1>1, PromptTurnAssumption DEF TypeOK, PromptTurnAssumption
<1>3. DocStep(doc, doc, {}, {})
  <2>1. {} \in SUBSET Attempts
    OBVIOUS
  <2> QED
    BY <1>2, <2>1, DocSame
<1>4. CASE EnterLoop
  <2>1. /\ UNCHANGED <<outbox, intake, inflight, prompt, cancel, active, response, docs, world, verdict>>
        /\ loop' \in {"reading", "awaiting"} /\ loop # "off"
    BY <1>4 DEF EnterLoop
  <2>2. TypeOK'
    BY <1>1, <2>1 DEF TypeOK, intake, docs, world
  <2> QED
    BY <1>3, <2>1, <2>2, WorldStep DEF docs, world, AgentKept
<1>5. CASE DiscRead \/ Disconnect \/ Reconnect
  <2>1. /\ UNCHANGED <<outbox, intake, inflight, prompt, cancel, loop, active, response, docs,
                       agent, exit, verdict>>
    BY <1>5 DEF DiscRead, Disconnect, Reconnect
  <2>2. /\ disc' \in [pc : {"idle", "read", "interrupt", "clear"}, turn : Attempts \cup {None}]
        /\ link' \in {"up", "down"} /\ drops' \in 0..plan.drops
    BY <1>1, <1>2, <1>5 DEF DiscRead, Disconnect, Reconnect, TypeOK
  <2>3. TypeOK'
    BY <1>1, <2>1, <2>2 DEF TypeOK, intake, docs
  <2> QED
    BY <1>3, <2>1, <2>3, WorldStep DEF docs, AgentKept
<1>6. CASE DiscInterrupt
  <2>1. /\ UNCHANGED <<outbox, intake, inflight, prompt, cancel, loop, active, response, faults,
                       agent, link, drops, exit, verdict>>
        /\ doc' = MarkInterrupted(doc, disc.turn)
        /\ disc' = [disc EXCEPT !.pc = "clear"]
    BY <1>6 DEF DiscInterrupt
  <2>2. DocStep(doc, doc', {}, {})
    <3>1. CASE disc.turn \in Attempts
      BY <1>2, <2>1, <3>1, TurnCommands
    <3>2. CASE disc.turn = None
      <4>1. ~Owns(doc, None)
        <5>1. Loading(doc) => doc.turn # None
          BY DEF IInv, DocInv
        <5> QED
          BY <5>1 DEF Owns
      <4> QED
        BY <1>3, <2>1, <3>2, <4>1 DEF MarkInterrupted
    <3> QED
      BY <1>1, <3>1, <3>2 DEF TypeOK
  <2>3. doc' \in Doc
        /\ disc' \in [pc : {"idle", "read", "interrupt", "clear"}, turn : Attempts \cup {None}]
    BY <1>1, <2>1, <2>2 DEF DocStep, TypeOK
  <2>4. TypeOK'
    BY <1>1, <2>1, <2>3 DEF TypeOK, intake
  <2> QED
    BY <2>1, <2>2, <2>4, WorldStep DEF AgentKept
<1>7. CASE DiscClear \/ ExitClear
  <2>1. /\ UNCHANGED <<outbox, intake, inflight, prompt, cancel, loop, response, docs,
                       agent, link, drops, verdict>>
        /\ active' = None
    BY <1>7 DEF DiscClear, ExitClear
  <2>2. /\ disc' \in [pc : {"idle", "read", "interrupt", "clear"}, turn : Attempts \cup {None}]
        /\ exit' \in {"alive", "marked", "gone"}
    BY <1>1, <1>7 DEF DiscClear, ExitClear, TypeOK
  <2>3. TypeOK'
    BY <1>1, <2>1, <2>2 DEF TypeOK, intake, docs
  <2> QED
    BY <1>3, <2>1, <2>3, WorldStep DEF docs, AgentKept
<1>8. CASE ProcessExit
  <2>1. /\ UNCHANGED <<outbox, intake, inflight, prompt, cancel, loop, active, response, faults,
                       agent, link, drops, disc, verdict>>
        /\ doc' = EndChat(doc) /\ exit' = "marked"
    BY <1>8 DEF ProcessExit
  <2>2. DocStep(doc, doc', {}, {}) /\ doc' \in Doc
    BY <1>2, <2>1, ChatCommands DEF DocStep
  <2>3. TypeOK'
    BY <1>1, <2>1, <2>2 DEF TypeOK, intake
  <2> QED
    BY <2>1, <2>2, <2>3, WorldStep DEF AgentKept
<1>9. ASSUME NEW t \in Attempts, WireDelivers(t) \/ \E stop \in Stops : AgentAnswers(t, stop)
      PROVE  IInv'
  <2>1. /\ UNCHANGED <<outbox, intake, inflight, prompt, cancel, loop, active, docs,
                       link, drops, disc, exit, verdict>>
        /\ agent[t] # "away"
        /\ \E where \in Reached : agent' = [agent EXCEPT ![t] = where]
        /\ response' \in Stops \cup {"none"}
    BY <1>1, <1>9 DEF WireDelivers, AgentAnswers, Reached, TypeOK
  <2>2. /\ agent' \in [Attempts -> {"away", "wire", "running", "answered"}]
        /\ \A u \in Attempts : AgentKept(u)
    BY <1>1, <2>1 DEF TypeOK, Reached, AgentKept
  <2>3. TypeOK'
    BY <1>1, <2>1, <2>2 DEF TypeOK, intake, docs
  <2> QED
    BY <1>3, <2>1, <2>2, <2>3, WorldStep DEF docs
<1>10. CASE AgentStreams
  <2>1. /\ UNCHANGED <<outbox, intake, inflight, prompt, cancel, loop, active, response, faults,
                       world, verdict>>
        /\ AcceptsDelta(doc) /\ doc.assistant[doc.turn] = "none" /\ doc' = Delta(doc)
    BY <1>10 DEF AgentStreams
  <2>2. doc.turn \in Attempts
    <3>1. Loading(doc)
      BY <2>1 DEF AcceptsDelta, Loading, LoadingTurn
    <3> QED
      BY <1>2, <3>1 DEF IInv, DocInv, Doc
  <2>3. DocStep(doc, doc', {}, {}) /\ doc' \in Doc
    BY <1>2, <2>1, <2>2, ChatCommands DEF DocStep
  <2>4. TypeOK'
    BY <1>1, <2>1, <2>3 DEF TypeOK, intake, world
  <2> QED
    BY <2>1, <2>3, <2>4, WorldStep DEF world, AgentKept
<1>11. CASE PermissionAsked \/ PermissionAnswered
  <2>1. /\ UNCHANGED <<outbox, intake, inflight, prompt, cancel, loop, active, response, faults,
                       world, verdict>>
        /\ \E expect \in {"accepting", "awaitingPermission"},
              status \in {"accepting", "awaitingPermission", "cancelled"} :
              doc' = StatusIf(doc, expect, status)
    BY <1>11 DEF PermissionAsked, PermissionAnswered
  <2>2. DocStep(doc, doc', {}, {}) /\ doc' \in Doc
    BY <1>2, <2>1, ChatCommands DEF DocStep
  <2>3. TypeOK'
    BY <1>1, <2>1, <2>2 DEF TypeOK, intake, world
  <2> QED
    BY <2>1, <2>2, <2>3, WorldStep DEF world, AgentKept
<1>12. ASSUME NEW t \in Attempts, NEW status \in FinalTurn, AgentEndsTurn(t, status)
       PROVE  IInv'
  <2>1. /\ UNCHANGED <<outbox, intake, inflight, prompt, cancel, loop, active, response, faults,
                       world, verdict>>
        /\ doc.turn = t /\ doc' = Settle(doc, t, status) /\ status \in TerminalTurn
    BY <1>12 DEF AgentEndsTurn, Calibrates, FinalTurn
  <2>2. DocStep(doc, doc', {}, {}) /\ doc' \in Doc
    BY <1>2, <2>1, SettleStep DEF DocStep
  <2>3. TypeOK'
    BY <1>1, <2>1, <2>2 DEF TypeOK, intake, world
  <2> QED
    BY <2>1, <2>2, <2>3, WorldStep DEF world, AgentKept
<1> QED
  BY <1>4, <1>5, <1>6, <1>7, <1>8, <1>9, <1>10, <1>11, <1>12 DEF DiscStep

-----------------------------------------------------------------------------
(* Submission, and the loop that takes what was submitted.                 *)

\* Where the record is absent, the last execution of the command is over or about to be, and
\* nothing of it is with the agent.
LEMMA NothingPending ==
    ASSUME IInv, NEW c \in Commands, CanInsert(outbox[c]),
           NEW u \in Attempts, u[1] = c, Current(u)
    PROVE  agent[u] = "away" /\ (verdict[u] = "retryable" \/ Withdrawn(u))
<1> USE DEF IInv
<1>1. outbox[c].status = "absent" /\ AttemptOK(u)
  BY DEF CanInsert, Present, AttemptsInv
<1>2. CASE u = prompt.turn
  <2>1. PromptRecord.status = "absent" /\ Current(prompt.turn) /\ prompt.pc # "idle"
    BY <1>1, <1>2, NoneIsNoAttempt DEF PromptRecord, PromptInv, NoPrompt
  <2>2. prompt.pc \in PromptPcs
    BY DEF TypeOK
  <2>3. prompt.pc = "undeliver" /\ DefaultRetryable(prompt.note)
    BY <1>2, <2>1, <2>2 DEF PromptInv, PromptRecord, Accepted, PromptPcs
  <2>4. agent[u] = "away"
    BY <1>2, <2>1, <2>3 DEF PromptInv
  <2> QED
    BY <1>2, <2>3, <2>4 DEF Withdrawn
<1>3. CASE u = cancel.turn
  <2>1. CancelRecord.status = "absent" /\ cancel.pc # "idle" /\ cancel.pc \in CancelPcs
    BY <1>1, <1>3, NoneIsNoAttempt DEF CancelRecord, CancelInv, NoCancel, TypeOK
  <2> QED
    BY <2>1 DEF CancelInv, CancelPcs
<1>4. CASE u \notin {prompt.turn, cancel.turn}
  <2>1. Outcome(u)
    BY <1>1, <1>4 DEF AttemptOK, Executing
  <2>2. verdict[u] \in {"none", "committed", "retryable", "failed", "unknown"}
    BY DEF TypeOK
  <2> QED
    BY <1>1, <2>1, <2>2 DEF Outcome, Accepted
<1> QED
  BY <1>2, <1>3, <1>4

LEMMA SubmitStep == ASSUME IInv, NEW c \in Commands, Submit(c) PROVE IInv'
<1> USE DEF IInv
<1>1. PICK t :
      /\ t = <<c, tries[c] + 1>>
      /\ CanInsert(outbox[c]) /\ tries[c] < plan.tries[c] /\ inflight < plan.places
      /\ outbox' = [outbox EXCEPT ![c] = AcceptedRecord(c)]
      /\ tries' = [tries EXCEPT ![c] = @ + 1]
      /\ queue' = Append(queue, t) /\ backlog' = Append(backlog, t)
      /\ inflight' = inflight + 1
      /\ UNCHANGED <<plan, deferred, prompt, cancel, loop, active, response, docs, world, verdict>>
  BY DEF Submit
<1>2. /\ tries[c] \in Nat /\ tries'[c] = tries[c] + 1 /\ tries'[c] \in 0..MaxTries
      /\ \A d \in Commands \ {c} : tries'[d] = tries[d]
      /\ t \in Attempts
  <2>1. /\ plan.tries \in [Commands -> 0..MaxTries] /\ MaxTries \in Nat
        /\ tries \in [Commands -> 0..MaxTries]
    BY PromptTurnAssumption DEF TypeOK, PromptTurnAssumption
  <2>2. tries[c] \in 0..MaxTries /\ plan.tries[c] \in 0..MaxTries
    BY <2>1
  <2>3. tries[c] + 1 \in 1..MaxTries
    BY <1>1, <2>1, <2>2
  <2> QED
    BY <1>1, <2>1, <2>2, <2>3 DEF Attempts
<1> DEFINE r == AcceptedRecord(c)
<1>3. /\ outbox' \in [Commands -> Record]
      /\ outbox'[c].status = "accepted" /\ ~outbox'[c].barrier
      /\ \A d \in Commands \ {c} : outbox'[d] = outbox[d]
  <2>1. r \in Record /\ r.status = "accepted" /\ ~r.barrier
    BY AcceptedTyped
  <2> HIDE DEF r
  <2>2. outbox' = [outbox EXCEPT ![c] = r]
    BY <1>1 DEF r
  <2> QED
    BY <2>1, <2>2 DEF TypeOK
<1>4. t[1] = c /\ t[2] = tries[c] + 1 /\ t[2] \in Nat
  BY <1>1, <1>2
<1>5. verdict[t] = "none" /\ Untouched(t) /\ ~Executing(t)
  BY <1>2, <1>4 DEF AttemptsInv, AttemptOK
<1>6. \A u \in Attempts : u[1] = c /\ Current(u) =>
         agent[u] = "away" /\ (verdict[u] = "retryable" \/ Withdrawn(u))
  BY <1>1, NothingPending
<1>7. \A u \in Attempts : u[1] \in Commands /\ u[2] \in Nat /\ tries[u[1]] \in Nat
  BY DEF Attempts, TypeOK
<1>8. TypeOK'
  <2>1. tries' \in [Commands -> 0..MaxTries]
    BY <1>1, <1>2 DEF TypeOK
  <2>2. queue' \in Seq(Attempts) /\ backlog' \in Seq(Attempts)
    BY <1>1, <1>2, AppendProperties DEF TypeOK
  <2>3. inflight' \in 0..plan.places
    BY <1>1, PromptTurnAssumption DEF TypeOK, PromptTurnAssumption
  <2> QED
    BY <1>1, <1>3, <2>1, <2>2, <2>3 DEF TypeOK, docs, world
<1>9. \A u \in Attempts : /\ Executing(u)' = Executing(u)
                          /\ Withdrawn(u)' = Withdrawn(u)
                          /\ Untouched(u)' = Untouched(u)
  BY <1>1 DEF Executing, Withdrawn, Untouched, docs, world
<1>10. AttemptsInv'
  <2> SUFFICES ASSUME NEW u \in Attempts PROVE AttemptOK(u)'
    BY DEF AttemptsInv
  <2>1. AttemptOK(u) /\ agent' = agent /\ verdict' = verdict /\ doc' = doc
    BY <1>1 DEF AttemptsInv, docs, world
  <2>2. CASE u = t
    <3>1. Outcome(t)'
      BY <1>1, <1>3, <1>4, <1>5, <1>9, <1>2 DEF Outcome, Accepted
    <3> QED
      BY <1>2, <1>4, <1>5, <1>9, <2>1, <2>2, <3>1 DEF AttemptOK, Untouched
  <2>3. CASE u[1] = c /\ u # t
    <3>1. u[2] # t[2]
      BY <1>2, <1>4, <2>3, AttemptEq
    <3>2. u[2] < tries'[c] => agent[u] = "away" /\ (verdict[u] = "retryable" \/ Withdrawn(u))
      <4>1. u[2] = tries[c] \/ u[2] < tries[c] \/ ~(u[2] < tries'[c])
        BY <1>2, <1>7
      <4> QED
        BY <1>6, <2>1, <2>3, <4>1 DEF AttemptOK, Current
    <3>3. u[2] > tries'[c] => u[2] > tries[c]
      BY <1>2, <1>7
    <3>4. ~Current(u)'
      BY <1>2, <1>4, <2>3, <3>1 DEF Current
    <3> QED
      BY <1>9, <2>1, <2>3, <3>2, <3>3, <3>4 DEF AttemptOK
  <2>4. CASE u[1] # c
    <3>1. tries'[u[1]] = tries[u[1]] /\ outbox'[u[1]] = outbox[u[1]]
      BY <1>2, <1>3, <1>7, <2>4
    <3>2. Current(u)' = Current(u)
      BY <3>1 DEF Current
    <3>3. Outcome(u) => Outcome(u)'
      BY <1>9, <2>1, <3>1 DEF Outcome, Accepted
    <3> QED
      BY <1>9, <2>1, <3>1, <3>2, <3>3 DEF AttemptOK
  <2> QED
    BY <2>2, <2>3, <2>4
<1>11. prompt.pc # "idle" /\ prompt.turn[1] = c => Withdrawn(prompt.turn) /\ ~Current(prompt.turn)'
  <2> SUFFICES ASSUME prompt.pc # "idle", prompt.turn[1] = c
               PROVE  Withdrawn(prompt.turn) /\ ~Current(prompt.turn)'
    OBVIOUS
  <2>1. PICK p \in Attempts : p = prompt.turn /\ (Current(p) \/ Withdrawn(p))
    BY DEF PromptInv
  <2>2. AttemptOK(p) /\ Executing(p)
    BY <2>1 DEF AttemptsInv, Executing
  <2>3. verdict[p] = "none" /\ p[2] <= tries[p[1]]
    BY <1>7, <2>2 DEF AttemptOK
  <2>4. Withdrawn(p)
    BY <1>6, <2>1, <2>3
  <2>5. p[1] = c /\ p[2] \in Nat /\ p[2] # tries'[c]
    BY <1>2, <1>7, <2>1, <2>3
  <2> QED
    BY <1>1, <2>1, <2>4, <2>5 DEF Current
<1>12. PromptInv'
  <2>1. CASE prompt.pc = "idle"
    BY <1>1, <2>1 DEF PromptInv
  <2>2. CASE prompt.pc # "idle" /\ prompt.turn[1] = c
    BY <1>1, <1>9, <1>11, <2>2 DEF PromptInv, Withdrawn, docs, world
  <2>3. CASE prompt.pc # "idle" /\ prompt.turn[1] # c
    <3>1. prompt.turn \in Attempts /\ prompt' = prompt
      BY <1>1, <2>3 DEF PromptInv
    <3>2. outbox'[prompt.turn[1]] = outbox[prompt.turn[1]] /\ tries'[prompt.turn[1]] = tries[prompt.turn[1]]
      BY <1>2, <1>3, <1>7, <2>3, <3>1
    <3>3. PromptRecord' = PromptRecord
      BY <3>1, <3>2 DEF PromptRecord
    <3>4. doc' = doc /\ agent' = agent
      BY <1>1 DEF docs, world
    <3> QED
      BY <1>9, <2>3, <3>1, <3>2, <3>3, <3>4 DEF PromptInv, Current, Accepted
  <2> QED
    BY <2>1, <2>2, <2>3
<1>13. CancelInv'
  <2>1. CASE cancel.pc = "idle"
    BY <1>1, <2>1 DEF CancelInv
  <2>2. CASE cancel.pc # "idle"
    <3>1. PICK u \in Attempts : u = cancel.turn /\ ~IsPrompt(u) /\ Current(u)
      BY <2>2 DEF CancelInv
    <3>2. verdict[u] = "none"
      BY <3>1 DEF AttemptsInv, AttemptOK, Executing
    <3>3. u[1] # c
      <4>1. ~Withdrawn(u)
        BY <3>1 DEF Withdrawn, PromptInv
      <4> QED
        BY <1>6, <3>1, <3>2, <4>1
    <3>4. tries'[u[1]] = tries[u[1]] /\ outbox'[u[1]] = outbox[u[1]] /\ cancel' = cancel
          /\ doc' = doc /\ agent' = agent
      BY <1>1, <1>2, <1>3, <1>7, <3>3 DEF docs, world
    <3>5. CancelRecord' = CancelRecord
      BY <3>1, <3>4 DEF CancelRecord
    <3> QED
      BY <2>2, <3>1, <3>4, <3>5 DEF CancelInv, Current
  <2> QED
    BY <2>1, <2>2
<1>14. LoopInv'
  <2>1. prompt.pc \in Late => PromptRecord' = PromptRecord
    <3> SUFFICES ASSUME prompt.pc \in Late PROVE PromptRecord' = PromptRecord
      OBVIOUS
    <3>1. prompt.turn \in Attempts /\ prompt.turn[1] # c
      BY <1>11 DEF Late, Withdrawn, PromptInv
    <3> QED
      BY <1>1, <1>3, <1>7, <3>1 DEF PromptRecord
  <2> QED
    BY <1>1, <2>1 DEF LoopInv, world
<1>15. DocInv'
  BY <1>1 DEF DocInv, docs
<1>16. ReserveBalance'
  <2>1. inflight \in Nat /\ Len(queue) \in Nat /\ Len(deferred) \in Nat /\ Len(queue') = Len(queue) + 1
    BY <1>1, <1>2, PromptTurnAssumption DEF TypeOK, PromptTurnAssumption
  <2> QED
    BY <1>1, <2>1 DEF ReserveBalance
<1>17. LineInv'
  <2>1. backlog' = deferred' \o queue'
    <3>1. backlog' = Append(deferred \o queue, t) /\ queue' = Append(queue, t) /\ deferred' = deferred
      BY <1>1 DEF LineInv
    <3> QED
      BY <1>2, <3>1, AppendBehind DEF TypeOK
  <2>2. /\ Len(backlog) \in Nat /\ DOMAIN backlog = 1..Len(backlog)
        /\ DOMAIN backlog' = 1..(Len(backlog) + 1)
        /\ \A i \in 1..Len(backlog) : backlog'[i] = backlog[i] /\ backlog[i] \in Attempts
        /\ backlog'[Len(backlog) + 1] = t
    BY <1>1, <1>2 DEF TypeOK
  <2>3. \A i \in 1..Len(backlog) : backlog[i][1] # c
    <3>1. \A i \in 1..Len(backlog) :
             Current(backlog[i]) /\ verdict[backlog[i]] = "none" /\ ~Executing(backlog[i])
      BY <2>2 DEF LineInv
    <3>2. \A i \in 1..Len(backlog) : ~Withdrawn(backlog[i])
      BY <3>1 DEF Executing, Withdrawn
    <3> QED
      BY <1>6, <2>2, <3>1, <3>2
  <2>4. ASSUME NEW i \in 1..(Len(backlog) + 1)
        PROVE  /\ tries'[backlog'[i][1]] = backlog'[i][2] /\ verdict'[backlog'[i]] = "none"
               /\ backlog'[i] \notin {prompt'.turn, cancel'.turn}
    <3>1. CASE i = Len(backlog) + 1
      BY <1>1, <1>2, <1>4, <1>5, <2>2, <3>1 DEF Executing
    <3>2. CASE i # Len(backlog) + 1
      <4>1. i \in 1..Len(backlog)
        BY <2>2, <3>2
      <4>2. Current(backlog[i]) /\ verdict[backlog[i]] = "none" /\ ~Executing(backlog[i])
        BY <2>2, <4>1 DEF LineInv
      <4>3. backlog[i] \in Attempts /\ backlog[i][1] # c /\ backlog'[i] = backlog[i]
        BY <2>2, <2>3, <4>1
      <4> QED
        BY <1>1, <1>2, <1>7, <4>2, <4>3 DEF Current, Executing
    <3> QED
      BY <3>1, <3>2
  <2>5. ASSUME NEW i \in 1..(Len(backlog) + 1), NEW j \in 1..(Len(backlog) + 1),
               backlog'[i] = backlog'[j]
        PROVE  i = j
    <3>1. \A k \in 1..(Len(backlog) + 1) : k = Len(backlog) + 1 \/ k \in 1..Len(backlog)
      BY <2>2
    <3>2. \A k, l \in 1..Len(backlog) : backlog[k] = backlog[l] => k = l
      BY <2>2 DEF LineInv
    <3>3. \A k \in 1..Len(backlog) : backlog[k] # t
      BY <1>4, <2>3
    <3> QED
      BY <2>2, <2>5, <3>1, <3>2, <3>3
  <2> QED
    BY <2>1, <2>2, <2>4, <2>5 DEF LineInv, Current, Executing
<1> QED
  BY <1>8, <1>10, <1>12, <1>13, <1>14, <1>15, <1>16, <1>17

LEMMA Removed ==
    ASSUME NEW s \in Seq(Attempts), NEW i \in 1..Len(s)
    PROVE  /\ Len(RemoveAt(s, i)) = Len(s) - 1
           /\ \A k \in 1..(Len(s) - 1) : RemoveAt(s, i)[k] = s[IF k < i THEN k ELSE k + 1]
<1> DEFINE front == SubSeq(s, 1, i - 1)
           rear == SubSeq(s, i + 1, Len(s))
           n == Len(s)
<1>1. n \in Nat /\ i \in Nat /\ 1 <= i /\ i <= n /\ \A k \in 1..n : s[k] \in Attempts
  OBVIOUS
<1> HIDE DEF n
<1>2. /\ front \in Seq(Attempts) /\ Len(front) = i - 1
      /\ \A k \in 1..(i - 1) : front[k] = s[k]
  <2>1. \A k \in 1..(i - 1) : s[k] \in Attempts
    BY <1>1
  <2>2. 1 \in Int /\ i - 1 \in Int
    BY <1>1
  <2>3. /\ front \in Seq(Attempts) /\ Len(front) = IF 1 <= i - 1 THEN (i - 1) - 1 + 1 ELSE 0
        /\ \A k \in 1..((i - 1) - 1 + 1) : front[k] = s[1 + k - 1]
    BY <2>1, <2>2, SubSeqProperties
  <2> QED
    BY <1>1, <2>3
<1>3. /\ rear \in Seq(Attempts) /\ Len(rear) = n - i
      /\ \A k \in 1..(n - i) : rear[k] = s[i + k]
  <2>1. \A k \in (i + 1)..n : s[k] \in Attempts
    BY <1>1
  <2>2. i + 1 \in Int /\ n \in Int
    BY <1>1
  <2>3. /\ rear \in Seq(Attempts) /\ Len(rear) = IF i + 1 <= n THEN n - (i + 1) + 1 ELSE 0
        /\ \A k \in 1..(n - (i + 1) + 1) : rear[k] = s[(i + 1) + k - 1]
    BY <2>1, <2>2, SubSeqProperties DEF n
  <2> QED
    BY <1>1, <2>3
<1> HIDE DEF front, rear
<1>4. /\ Len(front \o rear) = n - 1
      /\ \A k \in 1..(n - 1) : (front \o rear)[k] = IF k <= i - 1 THEN front[k] ELSE rear[k - (i - 1)]
  BY <1>1, <1>2, <1>3, ConcatProperties
<1>5. ASSUME NEW k \in 1..(n - 1)
      PROVE  (front \o rear)[k] = s[IF k < i THEN k ELSE k + 1]
  <2>1. CASE k < i
    BY <1>1, <1>2, <1>4, <2>1
  <2>2. CASE ~(k < i)
    <3>1. k - (i - 1) \in 1..(n - i) /\ i + (k - (i - 1)) = k + 1 /\ ~(k <= i - 1)
      BY <1>1, <2>2
    <3> QED
      BY <1>3, <1>4, <2>2, <3>1
  <2> QED
    BY <2>1, <2>2
<1> QED
  BY <1>4, <1>5 DEF RemoveAt, front, rear, n

\* A command that was waiting is begun, alone or, if it is a cancel, in the wait of the prompt
\* that the registry holds.
LEMMA BeginStep ==
    ASSUME IInv, cancel = NoCancel, NEW t \in Attempts, Begin(t),
           backlog' = deferred' \o queue',
           queue' \in Seq(Attempts), deferred' \in Seq(Attempts),
           Len(queue') + Len(deferred') + 1 = Len(queue) + Len(deferred),
           UNCHANGED <<plan, outbox, tries, inflight, loop, active, response, docs, world, verdict>>,
           IsPrompt(t) => prompt = NoPrompt,
           prompt = NoPrompt \/ active = prompt.turn
    PROVE  IInv'
<1> USE DEF IInv
<1>1. PICK i \in DOMAIN backlog : backlog[i] = t /\ backlog' = RemoveAt(backlog, i)
  BY DEF Begin
<1>2. \/ /\ IsPrompt(t) /\ cancel' = cancel
         /\ prompt' = [turn |-> t, pc |-> "register", note |-> None]
      \/ /\ ~IsPrompt(t) /\ prompt' = prompt
         /\ cancel' = [turn |-> t, pc |-> "intent", target |-> None]
  BY DEF Begin
<1>3. /\ Current(t) /\ verdict[t] = "none" /\ ~Executing(t)
      /\ AttemptOK(t) /\ Accepted(t[1]) /\ Untouched(t)
  <2>1. Current(t) /\ verdict[t] = "none" /\ ~Executing(t) /\ AttemptOK(t)
    BY <1>1 DEF LineInv, AttemptsInv
  <2> QED
    BY <2>1 DEF AttemptOK, Outcome
<1>4. prompt = NoPrompt => active = None /\ loop = "off" /\ ~Loading(doc)
  BY DEF LoopInv, DocInv, NoPrompt, Late
<1>5. tries' = tries /\ outbox' = outbox /\ doc' = doc /\ agent' = agent /\ verdict' = verdict
  BY DEF docs, world
<1>6. /\ Len(backlog) \in Nat /\ DOMAIN backlog = 1..Len(backlog)
      /\ \A k \in 1..Len(backlog) : backlog[k] \in Attempts
  BY DEF TypeOK
<1>7. /\ Len(backlog') = Len(backlog) - 1 /\ backlog' \in Seq(Attempts)
      /\ DOMAIN backlog' = 1..(Len(backlog) - 1)
      /\ \A k \in 1..(Len(backlog) - 1) : backlog'[k] = backlog[IF k < i THEN k ELSE k + 1]
  <2>1. backlog' \in Seq(Attempts)
    BY ConcatProperties
  <2>2. backlog \in Seq(Attempts) /\ i \in 1..Len(backlog)
    BY <1>6 DEF TypeOK
  <2>3. /\ Len(backlog') = Len(backlog) - 1
        /\ \A k \in 1..(Len(backlog) - 1) : backlog'[k] = backlog[IF k < i THEN k ELSE k + 1]
    BY <1>1, <2>2, Removed, Zenon
  <2>4. DOMAIN backlog' = 1..(Len(backlog) - 1)
    BY <2>1, <2>3
  <2> QED
    BY <2>1, <2>3, <2>4, Zenon
<1>8. TypeOK'
  <2>1. prompt' \in [turn : Attempts \cup {None}, pc : PromptPcs, note : Codes \cup Stops \cup {None}]
    BY <1>2 DEF TypeOK, PromptPcs
  <2>2. cancel' \in [turn : Attempts \cup {None}, pc : CancelPcs, target : Attempts \cup {None}]
    BY <1>2 DEF TypeOK, CancelPcs
  <2> QED
    BY <1>7, <2>1, <2>2 DEF TypeOK, docs, world
<1>9. \A u \in Attempts \ {t} : /\ Executing(u)' = Executing(u)
                                /\ Withdrawn(u) => Withdrawn(u)'
  <2>1. IsPrompt(t) => prompt.turn = None /\ prompt.pc = "idle"
    BY DEF NoPrompt
  <2>2. cancel.turn = None
    BY DEF NoCancel
  <2> QED
    BY <1>2, <2>1, <2>2, NoneIsNoAttempt DEF Executing, Withdrawn
<1>10. AttemptsInv'
  <2>1. OnlyAbout({t})
    BY <1>5, <1>9 DEF OnlyAbout, AgentKept
  <2>2. \A u \in Attempts \ {t} : AttemptOK(u)'
    BY <1>3, <2>1, OthersKept
  <2>3. AttemptOK(t)'
    <3>1. Executing(t)'
      BY <1>2 DEF Executing
    <3>2. tries[t[1]] = t[2] /\ t[2] \in Nat
      BY <1>3 DEF Current, Attempts
    <3> QED
      BY <1>3, <1>5, <3>1, <3>2 DEF AttemptOK, Current, Untouched
  <2> QED
    BY <2>2, <2>3 DEF AttemptsInv
<1>11. PromptInv' /\ CancelInv'
  <2>1. CASE IsPrompt(t)
    <3>1. prompt'.turn = t /\ prompt'.pc = "register" /\ cancel' = NoCancel
      BY <1>2, <2>1
    <3> QED
      BY <1>3, <1>5, <2>1, <3>1 DEF PromptInv, CancelInv, NoCancel, Current, Accepted, Untouched
  <2>2. CASE ~IsPrompt(t)
    <3>1. cancel'.turn = t /\ cancel'.pc = "intent" /\ prompt' = prompt
      BY <1>2, <2>2
    <3>2. PromptRecord' = PromptRecord /\ CancelRecord' = outbox[t[1]]
      BY <1>5, <3>1 DEF PromptRecord, CancelRecord
    <3>3. PromptInv'
      BY <1>5, <3>1, <3>2 DEF PromptInv, Current, Withdrawn, Accepted, Untouched
    <3>4. CancelInv'
      BY <1>3, <1>5, <2>2, <3>1, <3>2 DEF CancelInv, Current, Accepted, Untouched
    <3> QED
      BY <3>3, <3>4
  <2> QED
    BY <2>1, <2>2
<1>12. LoopInv'
  <2>1. CASE prompt = NoPrompt
    <3>1. active' = None /\ loop' = "off"
      BY <1>4, <2>1
    <3>2. prompt'.pc # "idle" => cancel'.pc = "idle"
      BY <1>2, <2>1 DEF NoPrompt, NoCancel
    <3> QED
      BY <3>1, <3>2 DEF LoopInv
  <2>2. CASE prompt # NoPrompt
    <3>1. prompt' = prompt /\ PromptRecord' = PromptRecord
      BY <1>2, <1>5, <2>2 DEF PromptRecord
    <3>2. active # None
      BY <2>2, NoneIsNoAttempt DEF PromptInv
    <3> QED
      BY <1>5, <3>1, <3>2 DEF LoopInv
  <2> QED
    BY <2>1, <2>2
<1>13. DocInv'
  <2>1. CASE prompt = NoPrompt
    BY <1>4, <1>5, <2>1, NoneIsNoAttempt DEF DocInv, NoPrompt
  <2>2. CASE prompt # NoPrompt
    BY <1>2, <1>5, <2>2 DEF DocInv
  <2> QED
    BY <2>1, <2>2
<1>14. ReserveBalance'
  <2>1. /\ inflight \in Nat /\ Len(queue) \in Nat /\ Len(deferred) \in Nat
        /\ Len(queue') \in Nat /\ Len(deferred') \in Nat
    BY PromptTurnAssumption DEF TypeOK, PromptTurnAssumption
  <2>2. \/ prompt = NoPrompt /\ prompt' # NoPrompt /\ cancel' = NoCancel
        \/ prompt' = prompt /\ cancel' # NoCancel
    BY <1>2 DEF NoPrompt, NoCancel
  <2>3. inflight = Len(queue) + Len(deferred) + (IF prompt = NoPrompt THEN 0 ELSE 1)
    BY <2>1 DEF ReserveBalance
  <2>4. inflight' = inflight
    OBVIOUS
  <2>5. inflight' = Len(queue') + Len(deferred') + 1 + (IF prompt = NoPrompt THEN 0 ELSE 1)
    BY <2>1, <2>3, <2>4
  <2>6. CASE prompt = NoPrompt /\ prompt' # NoPrompt /\ cancel' = NoCancel
    BY <2>1, <2>5, <2>6 DEF ReserveBalance
  <2>7. CASE prompt' = prompt /\ cancel' # NoCancel
    BY <2>1, <2>5, <2>7 DEF ReserveBalance
  <2> QED
    BY <2>2, <2>6, <2>7
<1>15. LineInv'
  <2> DEFINE before(k) == IF k < i THEN k ELSE k + 1
  <2>1. \A k \in 1..(Len(backlog) - 1) :
           before(k) \in 1..Len(backlog) /\ before(k) # i /\ backlog'[k] = backlog[before(k)]
    <3>1. \A k \in 1..(Len(backlog) - 1) : before(k) \in 1..Len(backlog) /\ before(k) # i
      BY <1>6
    <3> QED
      BY <1>7, <3>1
  <2>2. \A k, l \in 1..(Len(backlog) - 1) : before(k) = before(l) => k = l
    BY <1>6
  <2> HIDE DEF before
  <2>3. \A k, l \in 1..Len(backlog) : backlog[k] = backlog[l] => k = l
    BY <1>6 DEF LineInv
  <2>4. ASSUME NEW k \in 1..(Len(backlog) - 1)
        PROVE  /\ tries'[backlog'[k][1]] = backlog'[k][2] /\ verdict'[backlog'[k]] = "none"
               /\ backlog'[k] \notin {prompt'.turn, cancel'.turn}
    <3>1. PICK u \in Attempts : u = backlog'[k] /\ u = backlog[before(k)]
      BY <1>6, <2>1
    <3>2. u # t
      BY <1>1, <1>6, <2>1, <2>3, <3>1
    <3>3. Current(u) /\ verdict[u] = "none" /\ ~Executing(u)
      BY <1>6, <2>1, <3>1 DEF LineInv
    <3> QED
      BY <1>5, <1>9, <3>1, <3>2, <3>3 DEF Current, Executing
  <2>5. ASSUME NEW k \in 1..(Len(backlog) - 1), NEW l \in 1..(Len(backlog) - 1),
               backlog'[k] = backlog'[l]
        PROVE  k = l
    <3>1. before(k) = before(l)
      BY <2>1, <2>3, <2>5, Zenon
    <3> QED
      BY <2>2, <3>1, Zenon
  <2> QED
    BY <1>7, <2>4, <2>5 DEF LineInv, Current, Executing
<1> QED
  BY <1>8, <1>10, <1>11, <1>12, <1>13, <1>14, <1>15

LEMMA StartNextStep == IInv /\ StartNext => IInv'
<1> SUFFICES ASSUME IInv, StartNext PROVE IInv'
  OBVIOUS
<1>1. /\ prompt = NoPrompt /\ cancel = NoCancel
      /\ UNCHANGED <<plan, outbox, tries, inflight, loop, active, response, docs, world, verdict>>
  BY DEF StartNext
<1>2. /\ deferred \in Seq(Attempts) /\ queue \in Seq(Attempts) /\ backlog = deferred \o queue
  BY DEF IInv, TypeOK, LineInv
<1>3. CASE deferred # <<>> /\ Begin(Head(deferred)) /\ deferred' = Tail(deferred) /\ queue' = queue
  <2>1. PICK t \in Attempts : t = Head(deferred)
    BY <1>2, <1>3, HeadTailProperties
  <2>2. /\ deferred' \in Seq(Attempts) /\ queue' \in Seq(Attempts)
        /\ Len(queue') + Len(deferred') + 1 = Len(queue) + Len(deferred)
    BY <1>2, <1>3
  <2>3. backlog' = deferred' \o queue'
    <3>1. PICK i \in DOMAIN backlog : backlog[i] = t /\ backlog' = RemoveAt(backlog, i)
      BY <1>3, <2>1 DEF Begin
    <3>2. backlog[1] = t /\ 1 \in DOMAIN backlog
      BY <1>2, <1>3, <2>1
    <3>3. i = 1
      BY <3>1, <3>2 DEF IInv, LineInv
    <3> QED
      BY <1>2, <1>3, <3>1, <3>3, TakenFromFront
  <2> QED
    BY <1>1, <1>3, <2>1, <2>2, <2>3, BeginStep
<1>4. CASE deferred = <<>> /\ queue # <<>> /\ Begin(Head(queue)) /\ queue' = Tail(queue)
           /\ deferred' = deferred
  <2>1. PICK t \in Attempts : t = Head(queue)
    BY <1>2, <1>4, HeadTailProperties
  <2>2. /\ deferred' \in Seq(Attempts) /\ queue' \in Seq(Attempts)
        /\ Len(queue') + Len(deferred') + 1 = Len(queue) + Len(deferred)
    BY <1>2, <1>4
  <2>3. backlog' = deferred' \o queue'
    <3>1. PICK i \in DOMAIN backlog : backlog[i] = t /\ backlog' = RemoveAt(backlog, i)
      BY <1>4, <2>1 DEF Begin
    <3>2. backlog[1] = t /\ 1 \in DOMAIN backlog
      BY <1>2, <1>4, <2>1
    <3>3. i = 1
      BY <3>1, <3>2 DEF IInv, LineInv
    <3>4. Len(deferred) + 1 = 1
      BY <1>4
    <3> QED
      BY <1>2, <1>4, <3>1, <3>3, <3>4, TakenFromBehind
  <2> QED
    BY <1>1, <1>4, <2>1, <2>2, <2>3, BeginStep
<1> QED
  BY <1>3, <1>4 DEF StartNext

LEMMA ReadNextStep == IInv /\ ReadNext => IInv'
<1> SUFFICES ASSUME IInv, ReadNext PROVE IInv'
  OBVIOUS
<1>1. /\ loop = "reading" /\ cancel = NoCancel /\ queue # <<>> /\ queue' = Tail(queue)
      /\ UNCHANGED <<plan, outbox, tries, inflight, active, response, docs, world, verdict>>
  BY DEF ReadNext
<1>2. /\ deferred \in Seq(Attempts) /\ queue \in Seq(Attempts) /\ backlog = deferred \o queue
      /\ queue' \in Seq(Attempts) /\ Len(queue') + 1 = Len(queue) /\ Len(deferred) \in Nat
      /\ Len(queue') \in Nat
  BY <1>1 DEF IInv, TypeOK, LineInv
<1>3. PICK t \in Attempts : t = Head(queue)
  BY <1>1, <1>2, HeadTailProperties
<1>4. CASE ~IsPrompt(t) /\ active = prompt.turn /\ Begin(t) /\ UNCHANGED <<deferred, loop>>
  <2>1. backlog' = deferred' \o queue'
    <3>1. PICK i \in DOMAIN backlog : backlog[i] = t /\ backlog' = RemoveAt(backlog, i)
      BY <1>4 DEF Begin
    <3>2. backlog[Len(deferred) + 1] = t /\ Len(deferred) + 1 \in DOMAIN backlog
      BY <1>1, <1>2, <1>3
    <3>3. i = Len(deferred) + 1
      BY <3>1, <3>2 DEF IInv, LineInv
    <3> QED
      BY <1>1, <1>2, <1>4, <3>1, <3>3, TakenFromBehind
  <2>2. Len(queue') + Len(deferred') + 1 = Len(queue) + Len(deferred)
    <3>1. \A k, l, m \in Nat : k + 1 = l => k + m + 1 = l + m
      OBVIOUS
    <3>2. Len(deferred') = Len(deferred) /\ Len(queue) \in Nat
      BY <1>2, <1>4
    <3>3. Len(queue') + Len(deferred) + 1 = Len(queue) + Len(deferred)
      BY <1>2, <3>1, <3>2, Zenon
    <3> QED
      BY <3>2, <3>3, Zenon
  <2> QED
    BY <1>1, <1>2, <1>4, <2>1, <2>2, BeginStep
<1>5. CASE PutAside(t) /\ loop' \in {loop, "awaiting"} /\ UNCHANGED <<prompt, cancel, backlog>>
  <2> USE DEF IInv
  <2>1. deferred' = Append(deferred, t) /\ deferred' \in Seq(Attempts)
        /\ Len(deferred') = Len(deferred) + 1
    BY <1>2, <1>5 DEF PutAside
  <2>2. backlog' = deferred' \o queue'
    BY <1>1, <1>2, <1>3, <1>5, <2>1, PutBehind
  <2>3. TypeOK'
    BY <1>1, <1>2, <1>5, <2>1 DEF TypeOK, docs, world
  <2>4. ReserveBalance'
    BY <1>1, <1>2, <1>5, <2>1 DEF ReserveBalance
  <2>5. LineInv'
    BY <1>1, <1>5, <2>2 DEF LineInv, Current, Executing
  <2>6. doc' = doc /\ agent' = agent /\ PromptRecord' = PromptRecord /\ CancelRecord' = CancelRecord
    BY <1>1, <1>5 DEF docs, world, PromptRecord, CancelRecord
  <2>7. AttemptsInv'
    BY <1>1, <1>5, <2>6 DEF AttemptsInv, AttemptOK, Outcome, Accepted, Untouched, Executing,
       Current, Withdrawn
  <2>8. PromptInv' /\ CancelInv'
    <3>1. PromptInv'
      BY <1>1, <1>5, <2>6 DEF PromptInv, Current, Withdrawn, Accepted, Untouched
    <3>2. CancelInv'
      BY <1>1, <1>5, <2>6 DEF CancelInv, Current
    <3> QED
      BY <3>1, <3>2
  <2>9. LoopInv' /\ DocInv'
    BY <1>1, <1>5, <2>6 DEF LoopInv, DocInv
  <2> QED
    BY <2>3, <2>4, <2>5, <2>7, <2>8, <2>9
<1> QED
  BY <1>3, <1>4, <1>5 DEF ReadNext

-----------------------------------------------------------------------------
(* The invariant.                                                          *)
LEMMA StutterStep == IInv /\ UNCHANGED vars => IInv'
<1> SUFFICES ASSUME IInv, UNCHANGED vars PROVE IInv'
  OBVIOUS
<1>1. doc' \in Doc /\ DocStep(doc, doc', {}, {})
  BY SameDocs DEF vars, IInv
<1>2. TypeOK'
  BY DEF IInv, TypeOK, vars, intake, docs, world
<1> QED
  BY <1>1, <1>2, WorldStep DEF vars, world, AgentKept

LEMMA PromptSteps == IInv /\ PromptStep => IInv'
BY RegisterEntryStep, PrepareStep, MarkNotDeliveredStep, ProjectNotDeliveredStep, ForwardStep,
   ActivateStep, TakeResponseStep, AdjudgeStep, ProjectTerminalStep, ConfirmExistingStep,
   CompleteEntryStep, CommitStep, MarkUnknownStep, FailTurnStep, GiveUpStep, Zenon DEF PromptStep

LEMMA CancelSteps == IInv /\ CancelStep => IInv'
BY CancelIntentStep, CancelMarkStep, CancelNothingActiveStep, CancelAckedStep,
   CancelNotDeliveredStep, CancelTimedOutStep, CancelSettleStep, CancelCommitStep,
   CancelBlurredStep, Zenon DEF CancelStep

LEMMA NextIInv == IInv /\ [Next]_vars => IInv'
<1> SUFFICES ASSUME IInv, [Next]_vars PROVE IInv'
  OBVIOUS
<1>1. CASE Executor
  BY <1>1, StartNextStep, ReadNextStep, PromptSteps, CancelSteps, HandlerStep, Zenon DEF Executor
<1>2. CASE DiscStep \/ ExitClear
  BY <1>2, HandlerStep, Zenon
<1>3. CASE Environment
  BY <1>3, SubmitStep, HandlerStep, Zenon DEF Environment
<1>4. CASE UNCHANGED vars
  BY <1>4, StutterStep
<1> QED
  BY <1>1, <1>2, <1>3, <1>4, Zenon DEF Next

\* The conjunction holds in every reachable state: record, agent, entry and answer of each
\* command agree on where its executions stand, and the executor, the active turn and the
\* documents on which turn runs.
THEOREM Invariance == Spec => []IInv
BY InitIInv, NextIInv, PTL DEF Spec

\* At most one execution of a command ever reaches or may still reach the agent, however many
\* of them were submitted: the ones that are not current are away.
THEOREM DeliveredOnce == Spec => []AtMostOnce
<1>1. IInv => AtMostOnce
  <2> SUFFICES ASSUME IInv, NEW c \in Commands, NEW m \in 1..MaxTries, NEW n \in 1..MaxTries,
                      agent[<<c, m>>] # "away", agent[<<c, n>>] # "away"
               PROVE  m = n
    BY DEF AtMostOnce
  <2>1. ASSUME NEW k \in 1..MaxTries, agent[<<c, k>>] # "away" PROVE tries[c] = k
    <3>1. PICK t \in Attempts : t = <<c, k>>
      BY DEF Attempts
    <3>2. t[1] = c /\ t[2] = k /\ k \in Int /\ tries[c] \in Int
      BY <3>1 DEF IInv, TypeOK
    <3>3. AttemptOK(t)
      BY DEF IInv, AttemptsInv
    <3> QED
      BY <2>1, <3>1, <3>2, <3>3 DEF AttemptOK, Untouched
  <2> QED
    BY <2>1
<1> QED
  BY <1>1, Invariance, PTL

\* What a client was told is what happened, and the record a resubmission will meet says the same.
THEOREM AnswersTrue == Spec => []AnswersAreTrue
<1>1. IInv => AnswersAreTrue
  <2> SUFFICES ASSUME IInv, NEW t \in Attempts
               PROVE  LET r == outbox[t[1]]
                      IN  /\ verdict[t] \in {"retryable", "failed"} => agent[t] = "away"
                          /\ verdict[t] = "committed" =>
                                /\ agent[t] \in {"running", "answered"}
                                /\ r.status = "completed"
                                /\ IsPrompt(t) => doc.entry[t] = "completed"
                          /\ verdict[t] = "failed" => r.status = "failed"
                          /\ verdict[t] = "unknown" => r.status = "delivery_unknown"
                          /\ verdict[t] = "retryable" => r = Absent \/ tries[t[1]] > t[2]
                          /\ doc.entry[t] = "failed_not_delivered" => agent[t] = "away"
    BY DEF AnswersAreTrue
  <2>1. AttemptOK(t)
    BY DEF IInv, AttemptsInv
  <2>2. doc.entry[t] = "failed_not_delivered" => agent[t] = "away"
    BY <2>1 DEF AttemptOK
  <2>3. CASE verdict[t] = "none"
    BY <2>2, <2>3
  <2>4. CASE verdict[t] # "none"
    <3>1. t[2] \in Int /\ tries[t[1]] \in Int
      BY DEF Attempts, IInv, TypeOK
    <3>2. ~Executing(t) /\ ~Withdrawn(t)
      BY <2>1, <2>4 DEF AttemptOK, Executing, Withdrawn
    <3>3. CASE Current(t)
      BY <2>1, <2>2, <3>2, <3>3 DEF AttemptOK, Outcome, Reached
    <3>4. CASE ~Current(t)
      <4>1. t[2] < tries[t[1]]
        BY <2>1, <2>4, <3>1, <3>4 DEF AttemptOK, Current
      <4> QED
        BY <2>1, <2>2, <3>2, <4>1 DEF AttemptOK
    <3> QED
      BY <3>3, <3>4
  <2> QED
    BY <2>3, <2>4
<1> QED
  BY <1>1, Invariance, PTL

\* Between two commands no turn is active or loading and no entry is left pending: the early
\* return of a prompt that meets another active turn is never taken.
THEOREM NothingLeftBehind == Spec => []OneTurnAtATime
<1>1. IInv => OneTurnAtATime
  <2> SUFFICES ASSUME IInv, prompt.pc \in {"idle", "register"}, cancel = NoCancel
               PROVE  /\ active = None
                      /\ ~Loading(doc)
                      /\ \A t \in Attempts : doc.entry[t] = "pending" => doc.assistant[t] = "terminal"
    BY DEF OneTurnAtATime
  <2>1. active = None
    BY DEF IInv, LoopInv, Late
  <2>2. ~Loading(doc)
    BY DEF IInv, DocInv
  <2>3. ASSUME NEW t \in Attempts, doc.entry[t] = "pending" PROVE doc.assistant[t] = "terminal"
    <3>1. t # prompt.turn
      BY <2>3, NoneIsNoAttempt DEF IInv, PromptInv, NoPrompt, Untouched
    <3> QED
      BY <2>3, <3>1 DEF IInv, DocInv
  <2> QED
    BY <2>1, <2>2, <2>3
<1> QED
  BY <1>1, Invariance, PTL

\* Types; every reserved place belongs to a command that is waiting, put aside or executed; and
\* a cancel that runs inside the wait of a prompt finds that prompt at the agent.
THEOREM QueueCorrect == Spec => []QueueInv
<1>1. IInv => QueueInv
  <2>1. IInv => CancelAfterDispatch
    <3> SUFFICES ASSUME IInv, prompt # NoPrompt, cancel # NoCancel
                 PROVE  agent[prompt.turn] \in Reached /\ PromptRecord.dispatchedAt
      BY DEF CancelAfterDispatch, Reached
    <3>1. prompt.pc # "idle" /\ cancel.pc # "idle"
      BY DEF IInv, PromptInv, CancelInv
    <3> QED
      BY <3>1 DEF IInv, LoopInv
  <2> QED
    BY <2>1 DEF IInv, QueueInv
<1> QED
  BY <1>1, Invariance, PTL

-----------------------------------------------------------------------------
(* Steps.                                                                  *)
LEMMA LineMoves ==
    ASSUME [Next]_vars
    PROVE  \/ UNCHANGED backlog
           \/ StartNext \/ ReadNext
           \/ \E c \in Commands : Submit(c)
<1> SUFFICES ASSUME ~StartNext, ~ReadNext, \A c \in Commands : ~Submit(c)
             PROVE  backlog' = backlog
  OBVIOUS
<1> USE DEF intake
<1>1. CASE PromptStep
  BY <1>1 DEF PromptStep, RegisterEntry, Prepare, MarkNotDelivered, ProjectNotDelivered,
     ForwardAcked, ForwardError, Activate, TakeResponse, StopWaiting, Adjudge, ProjectTerminal,
     ConfirmExisting, CompleteEntry, Commit, MarkUnknown, FailTurn, GiveUp
<1>2. CASE CancelStep
  BY <1>2 DEF CancelStep, CancelIntent, CancelMark, CancelNothingActive, CancelAcked,
     CancelNotDelivered, CancelTimedOut, CancelSettle, CancelCommit, CancelBlurred
<1>3. CASE EnterLoop \/ DiscStep \/ ExitClear
  BY <1>3 DEF EnterLoop, DiscStep, DiscRead, DiscInterrupt, DiscClear, ExitClear
<1>4. CASE Environment
  BY <1>4 DEF Environment, Disconnect, Reconnect, ProcessExit, WireDelivers, AgentAnswers,
     AgentStreams, AgentEndsTurn, PermissionAsked, PermissionAnswered
<1>5. CASE UNCHANGED vars
  BY <1>5 DEF vars
<1> QED
  BY <1>1, <1>2, <1>3, <1>4, <1>5 DEF Next, Executor

\* Commands start in the order they were accepted; only a cancel overtakes, and only into the
\* wait of the turn that is active.
THEOREM InOrder == Spec => ServedInOrder
<1> DEFINE Order ==
      Len(backlog') < Len(backlog) =>
          \/ backlog' = Tail(backlog)
          \/ /\ cancel = NoCancel /\ cancel' # NoCancel
             /\ active # None /\ active = prompt.turn
<1>1. IInv /\ [Next]_vars => [Order]_vars
  <2> SUFFICES ASSUME IInv, [Next]_vars, Len(backlog') < Len(backlog)
               PROVE  \/ backlog' = Tail(backlog)
                      \/ /\ cancel = NoCancel /\ cancel' # NoCancel
                         /\ active # None /\ active = prompt.turn
    OBVIOUS
  <2>1. /\ deferred \in Seq(Attempts) /\ queue \in Seq(Attempts) /\ backlog = deferred \o queue
        /\ backlog \in Seq(Attempts) /\ Len(backlog) \in Nat
    BY DEF IInv, TypeOK, LineInv
  <2>2. backlog' # backlog
    BY <2>1
  <2>3. ASSUME NEW c \in Commands, Submit(c) PROVE FALSE
    <3>1. \E t : backlog' = Append(backlog, t)
      BY <2>3 DEF Submit
    <3> QED
      BY <2>1, <3>1
  <2>4. CASE StartNext
    <3>1. PICK t : /\ backlog # <<>> /\ t = Head(backlog)
                   /\ \E i \in DOMAIN backlog : backlog[i] = t /\ backlog' = RemoveAt(backlog, i)
      <4>1. \/ deferred # <<>> /\ Begin(Head(deferred))
            \/ deferred = <<>> /\ queue # <<>> /\ Begin(Head(queue))
        BY <2>4 DEF StartNext
      <4>2. /\ deferred # <<>> => backlog # <<>> /\ Head(backlog) = Head(deferred)
            /\ deferred = <<>> => backlog = queue
        BY <2>1
      <4> QED
        BY <4>1, <4>2 DEF Begin
    <3>2. PICK i \in DOMAIN backlog : backlog[i] = t /\ backlog' = RemoveAt(backlog, i)
      BY <3>1
    <3>3. 1 \in DOMAIN backlog /\ backlog[1] = t
      BY <2>1, <3>1
    <3>4. i = 1
      BY <3>2, <3>3 DEF IInv, LineInv
    <3>5. RemoveAt(backlog, 1) = Tail(backlog)
      <4>1. <<>> \in Seq(Attempts) /\ backlog \o <<>> = backlog
            /\ Tail(backlog) \in Seq(Attempts) /\ Tail(backlog) \o <<>> = Tail(backlog)
        BY <2>1, <3>1
      <4> QED
        BY <2>1, <3>1, <4>1, TakenFromFront
    <3> QED
      BY <3>2, <3>4, <3>5
  <2>5. CASE ReadNext
    <3>1. /\ cancel = NoCancel /\ active = prompt.turn
          /\ \E t : ~IsPrompt(t) /\ Begin(t)
      BY <2>2, <2>5 DEF ReadNext
    <3>2. cancel' # NoCancel
      BY <3>1 DEF Begin, NoCancel
    <3>3. prompt.turn # None
      <4>1. prompt.pc # "idle"
        BY <2>5 DEF ReadNext, IInv, LoopInv, Late
      <4> QED
        BY <4>1, NoneIsNoAttempt DEF IInv, PromptInv
    <3> QED
      BY <3>1, <3>2, <3>3
  <2> QED
    BY <2>2, <2>3, <2>4, <2>5, LineMoves
<1> QED
  BY <1>1, Invariance, PTL DEF Spec, ServedInOrder

\* What is over in d is over in the same way in e, unless e shows another turn.
TurnKept(d, e) == d.turn # None /\ e.turn = d.turn /\ ~Loading(d) => e.status = d.status

LEMMA TurnKeptByCommands ==
    ASSUME NEW d \in Doc, NEW t \in Attempts
    PROVE  /\ TurnKept(d, d)
           /\ TurnKept(d, MarkInterrupted(d, t)) /\ TurnKept(d, MarkCancelling(d, t))
           /\ \A status \in TerminalTurn : TurnKept(d, SetTerminal(d, t, status))
           /\ TurnKept(d, EntryCompleted(d, t)) /\ TurnKept(d, EntryUnknown(d, t))
           /\ TurnKept(d, EntryNotDelivered(d, t))
<1>1. TurnKept(d, d)
  BY DEF TurnKept
<1>2. /\ TurnKept(d, MarkInterrupted(d, t)) /\ TurnKept(d, MarkCancelling(d, t))
      /\ \A status \in TerminalTurn : TurnKept(d, SetTerminal(d, t, status))
  BY DEF TurnKept, MarkInterrupted, MarkCancelling, SetTerminal, Owns
<1>3. EntryCompleted(d, t).status = d.status /\ EntryUnknown(d, t).status = d.status
  BY DEF EntryCompleted, EntryUnknown, Doc
<1>4. ~Loading(d) => EntryNotDelivered(d, t).status = d.status
  BY DEF EntryNotDelivered, Doc, Owns
<1> QED
  BY <1>1, <1>2, <1>3, <1>4 DEF TurnKept

\* What the agent may make of a turn that was interrupted.
Calibrated ==
    /\ doc.status = "interrupted" /\ doc'.status \in FinalTurn
    /\ agent[doc.turn] \in {"running", "answered"}

\* No step but a registration shows another turn, and a registration shows one that is new;
\* no step but a report of the agent gives a turn that is over another end.
LEMMA TurnKeptByNext == IInv /\ [Next]_vars => TurnKept(doc, doc') \/ Calibrated
<1> SUFFICES ASSUME IInv, [Next]_vars PROVE TurnKept(doc, doc') \/ Calibrated
  OBVIOUS
<1>1. doc \in Doc
  BY DEF IInv, TypeOK
<1>2. CASE UNCHANGED doc
  BY <1>2 DEF TurnKept
<1>3. CASE RegisterEntry
  <2>1. PICK p \in Attempts : p = prompt.turn
    BY <1>3, PromptFacts DEF RegisterEntry
  <2>2. doc' = Register(doc, p) /\ doc.entry[p] = "none"
    BY <1>3, <2>1 DEF RegisterEntry, PromptAt, Write, IInv, PromptInv, Untouched
  <2>3. doc'.turn = p
    BY <1>1, <2>2 DEF Register, Doc
  <2> QED
    BY <2>1, <2>2, <2>3 DEF TurnKept, IInv, DocInv
<1>4. CASE ProjectNotDelivered \/ ProjectTerminal \/ CompleteEntry \/ MarkUnknown \/ FailTurn
  <2>1. /\ prompt.pc \in {"undeliver", "terminal", "entry", "unknown", "downgrade"}
        /\ prompt.turn \in Attempts
    BY <1>4 DEF ProjectNotDelivered, ProjectTerminal, CompleteEntry, MarkUnknown, FailTurn,
       PromptAt, IInv, PromptInv
  <2>2. CASE ProjectTerminal
    <3>1. prompt.note \in TerminalTurn
      BY <2>2, PromptTurnAssumption
         DEF ProjectTerminal, PromptAt, IInv, PromptInv, PromptTurnAssumption, TerminalTurn
    <3>2. doc' = SetTerminal(doc, prompt.turn, prompt.note)
      BY <2>2 DEF ProjectTerminal, Write
    <3> QED
      BY <1>1, <2>1, <3>1, <3>2, TurnKeptByCommands
  <2>3. CASE FailTurn
    <3>1. doc' = SetTerminal(doc, prompt.turn, "failed") /\ "failed" \in TerminalTurn
      BY <2>3 DEF FailTurn, Write, TerminalTurn
    <3> QED
      BY <1>1, <2>1, <3>1, TurnKeptByCommands
  <2>4. CASE ProjectNotDelivered \/ CompleteEntry \/ MarkUnknown
    <3>1. doc' \in {EntryNotDelivered(doc, prompt.turn), EntryCompleted(doc, prompt.turn),
                    EntryUnknown(doc, prompt.turn)}
      BY <2>4 DEF ProjectNotDelivered, CompleteEntry, MarkUnknown, Write
    <3> QED
      BY <1>1, <2>1, <3>1, TurnKeptByCommands
  <2> QED
    BY <1>4, <2>2, <2>3, <2>4
<1>5. CASE CancelMark \/ CancelSettle
  <2>1. doc' # doc => cancel.target \in Attempts
    BY <1>5 DEF CancelMark, CancelSettle, IInv, TypeOK, docs
  <2>2. doc' \in {doc, MarkCancelling(doc, cancel.target),
                  SetTerminal(doc, cancel.target, "cancelled")}
    BY <1>5 DEF CancelMark, CancelSettle, Write, docs
  <2>3. "cancelled" \in TerminalTurn
    BY DEF TerminalTurn
  <2> QED
    BY <1>1, <1>2, <2>1, <2>2, <2>3, TurnKeptByCommands
<1>6. CASE DiscInterrupt
  <2>1. doc' = MarkInterrupted(doc, disc.turn) /\ disc.turn \in Attempts \cup {None}
    BY <1>6 DEF DiscInterrupt, IInv, TypeOK
  <2>2. disc.turn = None => doc' = doc
    BY <2>1 DEF MarkInterrupted, Owns, IInv, DocInv
  <2> QED
    BY <1>1, <1>2, <2>1, <2>2, TurnKeptByCommands
<1>7. CASE ProcessExit
  BY <1>1, <1>7 DEF ProcessExit, TurnKept, EndChat, Doc
<1>8. CASE AgentStreams
  <2>1. AcceptsDelta(doc) /\ doc' = Delta(doc)
    BY <1>8 DEF AgentStreams
  <2>2. doc'.status = doc.status
    BY <1>1, <2>1 DEF Delta, Doc
  <2> QED
    BY <2>2 DEF TurnKept
<1>9. ASSUME ~(PromptStep \/ CancelStep \/ DiscStep \/ ProcessExit \/ AgentStreams
                 \/ PermissionAsked \/ PermissionAnswered),
             ~(\E t \in Attempts, status \in Stops \cap FinalTurn : AgentEndsTurn(t, status))
      PROVE  UNCHANGED doc
  <2>1. CASE StartNext \/ EnterLoop \/ ReadNext \/ ExitClear \/ UNCHANGED vars
    BY <2>1 DEF StartNext, EnterLoop, ReadNext, ExitClear, vars, docs
  <2>2. CASE \/ \E c \in Commands : Submit(c)
             \/ Disconnect \/ Reconnect
             \/ \E t \in Attempts : WireDelivers(t)
             \/ \E t \in Attempts, stop \in Stops : AgentAnswers(t, stop)
    BY <2>2 DEF Submit, Disconnect, Reconnect, WireDelivers, AgentAnswers, docs
  <2> QED
    BY <1>9, <2>1, <2>2 DEF Next, Executor, Environment
<1>10. CASE PromptStep
  <2>1. CASE Prepare \/ MarkNotDelivered \/ ForwardAcked \/ ForwardError \/ Activate
             \/ TakeResponse \/ StopWaiting \/ Adjudge \/ ConfirmExisting \/ Commit \/ GiveUp
    BY <1>2, <2>1 DEF Prepare, MarkNotDelivered, ForwardAcked, ForwardError, Activate,
       TakeResponse, StopWaiting, Adjudge, ConfirmExisting, Commit, GiveUp, docs
  <2> QED
    BY <1>3, <1>4, <1>10, <2>1 DEF PromptStep
<1>11. CASE CancelStep
  <2>1. CASE CancelIntent \/ CancelNothingActive \/ CancelAcked \/ CancelNotDelivered
             \/ CancelTimedOut \/ CancelCommit \/ CancelBlurred
    BY <1>2, <2>1 DEF CancelIntent, CancelNothingActive, CancelAcked, CancelNotDelivered,
       CancelTimedOut, CancelCommit, CancelBlurred, docs
  <2> QED
    BY <1>5, <1>11, <2>1 DEF CancelStep
<1>12. CASE DiscStep
  <2>1. CASE DiscRead \/ DiscClear
    BY <1>2, <2>1 DEF DiscRead, DiscClear, docs
  <2> QED
    BY <1>6, <1>12, <2>1 DEF DiscStep
<1>13. CASE PermissionAsked \/ PermissionAnswered
  BY <1>13 DEF PermissionAsked, PermissionAnswered, StatusIf, TurnKept, Loading, LoadingTurn
<1>14. ASSUME NEW t \in Attempts, NEW status \in FinalTurn, AgentEndsTurn(t, status)
       PROVE  TurnKept(doc, doc') \/ Calibrated
  <2>1. /\ agent[t] \in {"running", "answered"} /\ doc.turn = t
        /\ Loading(doc) \/ doc.status = "interrupted"
        /\ doc' = Settle(doc, t, status)
    BY <1>14 DEF AgentEndsTurn, Calibrates
  <2>2. doc'.status = status
    BY <1>1, <2>1 DEF Settle, Doc
  <2> QED
    BY <2>1, <2>2 DEF TurnKept, Calibrated
<1> QED
  BY <1>2, <1>7, <1>8, <1>9, <1>10, <1>11, <1>12, <1>13, <1>14

\* Only its commit answers a cancel with success, and then the turn it found is over and out of
\* the registry.
LEMMA StoppedByNext ==
    ASSUME IInv, [Next]_vars, NEW t \in Attempts, t = cancel.turn,
           cancel.target # None, verdict'[t] = "committed"
    PROVE  ~Owns(doc', cancel.target) /\ active' # cancel.target
<1>1. verdict[t] = "none" /\ verdict \in [Attempts -> {"none", "committed", "retryable", "failed", "unknown"}]
  BY DEF IInv, AttemptsInv, AttemptOK, Executing, TypeOK
<1>2. verdict' # verdict
  BY <1>1
<1>3. cancel # NoCancel
  BY NoneIsNoAttempt DEF NoCancel
<1>4. CancelStep
  <2>1. ~PromptStep
    BY <1>3 DEF PromptStep, PromptAt, RegisterEntry, Prepare, MarkNotDelivered,
       ProjectNotDelivered, ForwardAcked, ForwardError, Activate, TakeResponse, StopWaiting,
       Adjudge, ProjectTerminal, ConfirmExisting, CompleteEntry, Commit, MarkUnknown, FailTurn, GiveUp
  <2>2. ~(StartNext \/ EnterLoop \/ ReadNext \/ DiscStep \/ ExitClear \/ UNCHANGED vars)
    BY <1>2 DEF StartNext, EnterLoop, ReadNext, DiscStep, DiscRead, DiscInterrupt, DiscClear,
       ExitClear, vars
  <2>3. ~Environment
    BY <1>2 DEF Environment, Submit, Disconnect, Reconnect, ProcessExit, WireDelivers,
       AgentAnswers, AgentStreams, AgentEndsTurn, PermissionAsked, PermissionAnswered
  <2> QED
    BY <2>1, <2>2, <2>3 DEF Next, Executor
<1>5. CancelCommit
  <2>1. ~(CancelNothingActive \/ CancelAcked \/ CancelSettle)
    BY <1>2 DEF CancelNothingActive, CancelAcked, CancelSettle
  <2>2. ASSUME NEW v, NEW registry, v # "committed", EndCancel(v, registry) PROVE FALSE
    BY <1>1, <2>2 DEF EndCancel, Answer
  <2>3. ~(CancelIntent \/ CancelMark)
    BY <1>2, <2>2 DEF CancelIntent, CancelMark
  <2>4. ~(CancelNotDelivered \/ CancelTimedOut \/ CancelBlurred)
    BY <2>2 DEF CancelNotDelivered, CancelTimedOut, CancelBlurred
  <2> QED
    BY <1>4, <2>1, <2>3, <2>4 DEF CancelStep
<1>6. doc' = doc /\ active' = None /\ cancel.pc = "close"
  BY <1>5 DEF CancelCommit, EndCancel, CancelAt, docs
<1> QED
  BY <1>6 DEF IInv, CancelInv

\* A turn that was shown as over stays over in the same way, but for an interrupted one whose
\* end the agent reports later, once; and a committed cancel has stopped the turn it found.
THEOREM TurnsEndWell == Spec => TurnsEnd
<1>1. IInv /\ [Next]_vars =>
        [doc.turn # None /\ doc'.turn = doc.turn /\ ~Loading(doc) =>
            \/ doc'.status = doc.status
            \/ /\ doc.status = "interrupted" /\ doc'.status \in FinalTurn
               /\ agent[doc.turn] \in {"running", "answered"}]_vars
  BY TurnKeptByNext DEF TurnKept, Calibrated
<1>2. Spec => TurnEndsOnce
  BY <1>1, Invariance, PTL DEF Spec, TurnEndsOnce
<1>3. IInv /\ [Next]_vars =>
        [\A t \in Attempts :
            t = cancel.turn /\ cancel.target # None /\ verdict'[t] = "committed"
               => ~Owns(doc', cancel.target) /\ active' # cancel.target]_vars
  BY StoppedByNext
<1>4. Spec => CancelStopsTurn
  BY <1>3, Invariance, PTL DEF Spec, CancelStopsTurn
<1> QED
  BY <1>2, <1>4 DEF TurnsEnd

-----------------------------------------------------------------------------
(* The refinement of CommandPromise.                                       *)

\* The agent has heard nothing of a command whose record is missing, nor of one whose
\* execution is about to be forwarded.
LEMMA NotHeard ==
    ASSUME IInv, NEW c \in Commands,
           \/ outbox[c].status = "absent"
           \/ prompt.pc = "forward" /\ c = prompt.turn[1]
           \/ cancel.pc = "forward" /\ c = cancel.turn[1]
    PROVE  \A t \in Attempts : t[1] = c => agent[t] = "away"
<1> SUFFICES ASSUME NEW t \in Attempts, t[1] = c
             PROVE  agent[t] = "away"
  OBVIOUS
<1>1. AttemptOK(t) /\ t[2] \in Int /\ tries[c] \in Int
  BY DEF IInv, TypeOK, AttemptsInv, Attempts
<1>2. ~Current(t) => agent[t] = "away"
  BY <1>1 DEF AttemptOK, Current, Untouched
<1>3. CASE prompt.pc = "forward" /\ c = prompt.turn[1]
  <2>1. prompt.turn \in Attempts /\ Current(prompt.turn) /\ agent[prompt.turn] = "away"
    BY <1>3 DEF IInv, PromptInv, Withdrawn
  <2> QED
    BY <1>2, <1>3, <2>1, AttemptEq DEF Current
<1>4. CASE cancel.pc = "forward" /\ c = cancel.turn[1]
  <2>1. cancel.turn \in Attempts /\ Current(cancel.turn) /\ agent[cancel.turn] = "away"
    BY <1>4 DEF IInv, CancelInv
  <2> QED
    BY <1>2, <1>4, <2>1, AttemptEq DEF Current
<1>5. CASE outbox[c].status = "absent" /\ Current(t)
  <2>1. CASE t = prompt.turn
    <3>1. prompt.pc # "idle" /\ PromptRecord.status = "absent" /\ ~Accepted(t[1])
      BY <1>5, <2>1, NoneIsNoAttempt DEF IInv, PromptInv, NoPrompt, PromptRecord, Accepted
    <3>2. prompt.pc \in {"failing", "undeliver"} => agent[t] = "away"
      BY <2>1, <3>1 DEF IInv, PromptInv
    <3>3. prompt.pc \in PromptPcs \ {"idle"}
      BY <3>1 DEF IInv, TypeOK
    <3> QED
      BY <2>1, <3>1, <3>2, <3>3 DEF IInv, PromptInv, PromptPcs
  <2>2. CASE t = cancel.turn
    <3>1. cancel.pc # "idle" /\ CancelRecord.status = "absent"
      BY <1>5, <2>2, NoneIsNoAttempt DEF IInv, CancelInv, NoCancel, CancelRecord
    <3>2. cancel.pc \in CancelPcs \ {"idle"}
      BY <3>1 DEF IInv, TypeOK
    <3> QED
      BY <3>1, <3>2 DEF IInv, CancelInv, CancelPcs
  <2>3. CASE ~Executing(t)
    <3>1. Outcome(t)
      BY <1>1, <1>5, <2>3 DEF AttemptOK
    <3>2. verdict[t] \in {"none", "committed", "retryable", "failed", "unknown"}
      BY DEF IInv, TypeOK
    <3> QED
      BY <1>5, <3>1, <3>2 DEF Outcome, Accepted
  <2> QED
    BY <2>1, <2>2, <2>3 DEF Executing
<1> QED
  BY <1>2, <1>3, <1>4, <1>5

\* What is executed is accepted and not answered.
LEMMA UnderWay ==
    ASSUME IInv, NEW t \in Attempts, Executing(t)
    PROVE  t \in Abstract!Attempts /\ Abstract!Open(t)
<1>1. AttemptOK(t) /\ t[2] \in Int /\ tries[t[1]] \in Int
  BY DEF IInv, TypeOK, AttemptsInv, Attempts
<1> QED
  BY <1>1 DEF AttemptOK, Abstract!Open, Abstract!Attempts, Attempts

\* What a step does to the place of one frame.
LEMMA FrameMoves ==
    ASSUME IInv, NEW t \in Attempts, NEW where \in {"wire", "running", "answered"},
           agent' = [agent EXCEPT ![t] = where]
    PROVE  [s \in Attempts |-> FrameOf(s)]'
               = [[s \in Attempts |-> FrameOf(s)] EXCEPT ![t] = "sent"]
<1>1. \A s \in Attempts : FrameOf(s)' = IF s = t THEN "sent" ELSE FrameOf(s)
  BY DEF IInv, TypeOK, FrameOf
<1> QED
  BY <1>1

\* A frame the agent hears of, at once or later, is the first of its command.
LEMMA RefinesSend ==
    ASSUME IInv, NEW t \in Attempts, UNCHANGED tries,
           \/ prompt.pc = "forward" /\ t = prompt.turn
           \/ cancel.pc = "forward" /\ t = cancel.turn,
           NEW where \in {"wire", "running"}, agent' = [agent EXCEPT ![t] = where],
           verdict' \in {verdict, [verdict EXCEPT ![t] = "unknown"]}
    PROVE  Abstract!Next
<1>1. t \in Abstract!Attempts /\ Abstract!Open(t)
  BY UnderWay DEF Executing
<1>2. \A s \in Attempts : s[1] = t[1] => agent[s] = "away"
  <2>1. t[1] \in Commands
    BY DEF Attempts
  <2> QED
    BY <2>1, NotHeard
<1>3. Abstract!Unheard(t[1])
  BY <1>2 DEF Abstract!Unheard, Abstract!Attempts, Attempts, FrameOf
<1>4. [s \in Attempts |-> FrameOf(s)]' = [[s \in Attempts |-> FrameOf(s)] EXCEPT ![t] = "sent"]
  BY FrameMoves
<1>5. Abstract!Send(t)
  BY <1>1, <1>3, <1>4 DEF Abstract!Send
<1> QED
  BY <1>1, <1>5 DEF Abstract!Next

LEMMA RefinesAnswer ==
    ASSUME IInv, NEW t \in Attempts, Executing(t), UNCHANGED <<tries, agent>>,
           NEW v \in {"committed", "retryable", "failed", "unknown"},
           verdict' = [verdict EXCEPT ![t] = v],
           v = "committed" => agent[t] \in Reached,
           v \in {"retryable", "failed"} => agent[t] = "away"
    PROVE  Abstract!Next
<1>1. t \in Abstract!Attempts /\ Abstract!Open(t)
  BY UnderWay
<1>2. Abstract!True(t, v)
  BY DEF Abstract!True, FrameOf, Reached
<1>3. Abstract!Answer(t)
  BY <1>1, <1>2 DEF Abstract!Answer, FrameOf
<1> QED
  BY <1>1, <1>3 DEF Abstract!Next

\* The steps of a prompt that the agent or the client hears of.
LEMMA PromptRefines ==
    ASSUME IInv, PromptStep
    PROVE  Abstract!Next \/ UNCHANGED <<tries, agent, verdict>>
<1>1. UNCHANGED tries
  BY DEF PromptStep, RegisterEntry, Prepare, MarkNotDelivered, ProjectNotDelivered, ForwardAcked,
         ForwardError, Activate, TakeResponse, StopWaiting, Adjudge, ProjectTerminal,
         ConfirmExisting, CompleteEntry, Commit, MarkUnknown, FailTurn, GiveUp, intake
<1>2. prompt.pc # "idle" => prompt.turn \in Attempts /\ Executing(prompt.turn)
  BY DEF IInv, PromptInv, Executing
<1>3. CASE ForwardAcked
  <2>1. prompt.pc = "forward" /\ UNCHANGED verdict
        /\ agent' = [agent EXCEPT ![prompt.turn] = "running"]
    BY <1>3 DEF ForwardAcked, PromptAt
  <2> QED
    BY <1>1, <1>2, <2>1, RefinesSend
<1>4. CASE ForwardError
  <2>1. prompt.pc = "forward" /\ UNCHANGED verdict
    BY <1>4 DEF ForwardError, PromptAt
  <2>2. PICK where \in {"away", "wire"} : agent' = [agent EXCEPT ![prompt.turn] = where]
    BY <1>4 DEF ForwardError
  <2>3. CASE where = "away"
    <3>1. agent[prompt.turn] = "away" /\ agent \in [Attempts -> {"away", "wire", "running", "answered"}]
      BY <2>1 DEF IInv, TypeOK, PromptInv
    <3>2. UNCHANGED agent
      BY <2>2, <2>3, <3>1
    <3> QED
      BY <1>1, <2>1, <3>2
  <2>4. CASE where = "wire"
    BY <1>1, <1>2, <2>1, <2>2, <2>4, RefinesSend
  <2> QED
    BY <2>2, <2>3, <2>4
<1>5. CASE ProjectNotDelivered
  <2>1. PICK v \in {"retryable", "failed"} : verdict' = [verdict EXCEPT ![prompt.turn] = v]
    BY <1>5 DEF ProjectNotDelivered, EndPrompt, Answer
  <2>2. prompt.pc = "undeliver" /\ agent[prompt.turn] = "away" /\ UNCHANGED agent
    BY <1>5 DEF ProjectNotDelivered, PromptAt, IInv, PromptInv, world
  <2> QED
    BY <1>1, <1>2, <2>1, <2>2, RefinesAnswer
<1>6. CASE Commit
  <2>1. verdict' = [verdict EXCEPT ![prompt.turn] = "committed"] /\ UNCHANGED agent
        /\ prompt.pc = "close"
    BY <1>6 DEF Commit, PromptAt, EndPrompt, Answer, world
  <2>2. agent[prompt.turn] \in Reached
    BY <2>1 DEF IInv, PromptInv
  <2> QED
    BY <1>1, <1>2, <2>1, <2>2, RefinesAnswer
<1>7. CASE GiveUp
  <2>1. verdict' = [verdict EXCEPT ![prompt.turn] = "unknown"] /\ UNCHANGED agent
        /\ prompt.pc = "giveup"
    BY <1>7 DEF GiveUp, PromptAt, EndPrompt, Answer, world
  <2> QED
    BY <1>1, <1>2, <2>1, RefinesAnswer
<1>8. CASE \/ RegisterEntry \/ Prepare \/ MarkNotDelivered \/ Activate \/ TakeResponse
           \/ StopWaiting \/ Adjudge \/ ProjectTerminal \/ ConfirmExisting \/ CompleteEntry
           \/ MarkUnknown \/ FailTurn
  BY <1>1, <1>8 DEF RegisterEntry, Prepare, MarkNotDelivered, Activate, TakeResponse, StopWaiting,
                    Adjudge, ProjectTerminal, ConfirmExisting, CompleteEntry, MarkUnknown,
                    FailTurn, world
<1> QED
  BY <1>3, <1>4, <1>5, <1>6, <1>7, <1>8 DEF PromptStep

\* The same of a cancel; one whose forward times out is sent and answered at once.
LEMMA CancelRefines ==
    ASSUME IInv, CancelStep
    PROVE  Abstract!Next \/ UNCHANGED <<tries, agent, verdict>>
<1>1. UNCHANGED tries
  BY DEF CancelStep, CancelIntent, CancelMark, CancelNothingActive, CancelAcked,
         CancelNotDelivered, CancelTimedOut, CancelSettle, CancelCommit, CancelBlurred, intake
<1>2. cancel.pc # "idle" => cancel.turn \in Attempts /\ Executing(cancel.turn)
  BY DEF IInv, CancelInv, Executing
<1>3. CASE CancelIntent \/ CancelMark \/ CancelNotDelivered
  <2>1. cancel.pc \in {"intent", "mark", "forward"} /\ UNCHANGED agent
    BY <1>3 DEF CancelIntent, CancelMark, CancelNotDelivered, CancelAt, world
  <2>2. UNCHANGED verdict \/ \E v \in {"retryable", "failed"} :
                                verdict' = [verdict EXCEPT ![cancel.turn] = v]
    <3>1. CASE CancelIntent
      BY <3>1 DEF CancelIntent, EndCancel, Answer
    <3>2. CASE CancelMark
      BY <3>2 DEF CancelMark, EndCancel, Answer
    <3>3. CASE CancelNotDelivered
      BY <3>3 DEF CancelNotDelivered, EndCancel, Answer
    <3> QED
      BY <1>3, <3>1, <3>2, <3>3
  <2>3. agent[cancel.turn] = "away"
    BY <2>1 DEF IInv, CancelInv
  <2> QED
    BY <1>1, <1>2, <2>1, <2>2, <2>3, RefinesAnswer
<1>4. CASE CancelAcked
  <2>1. cancel.pc = "forward" /\ UNCHANGED verdict
        /\ agent' = [agent EXCEPT ![cancel.turn] = "running"]
    BY <1>4 DEF CancelAcked, CancelAt
  <2> QED
    BY <1>1, <1>2, <2>1, RefinesSend
<1>5. CASE CancelTimedOut
  <2>1. cancel.pc = "forward" /\ verdict' = [verdict EXCEPT ![cancel.turn] = "unknown"]
    BY <1>5 DEF CancelTimedOut, CancelAt, EndCancel, Answer
  <2>2. PICK where \in {"away", "wire"} : agent' = [agent EXCEPT ![cancel.turn] = where]
    BY <1>5 DEF CancelTimedOut
  <2>3. CASE where = "away"
    <3>1. agent[cancel.turn] = "away" /\ agent \in [Attempts -> {"away", "wire", "running", "answered"}]
      BY <2>1 DEF IInv, TypeOK, CancelInv
    <3>2. UNCHANGED agent
      BY <2>2, <2>3, <3>1
    <3> QED
      BY <1>1, <1>2, <2>1, <3>2, RefinesAnswer
  <2>4. CASE where = "wire"
    BY <1>1, <1>2, <2>1, <2>2, <2>4, RefinesSend
  <2> QED
    BY <2>2, <2>3, <2>4
<1>6. CASE CancelCommit
  <2>1. verdict' = [verdict EXCEPT ![cancel.turn] = "committed"] /\ UNCHANGED agent
        /\ cancel.pc = "close"
    BY <1>6 DEF CancelCommit, CancelAt, EndCancel, Answer, world
  <2>2. agent[cancel.turn] \in Reached
    BY <2>1 DEF IInv, CancelInv
  <2> QED
    BY <1>1, <1>2, <2>1, <2>2, RefinesAnswer
<1>7. CASE CancelBlurred
  <2>1. verdict' = [verdict EXCEPT ![cancel.turn] = "unknown"] /\ UNCHANGED agent
        /\ cancel.pc = "blurred"
    BY <1>7 DEF CancelBlurred, CancelAt, EndCancel, Answer, world
  <2> QED
    BY <1>1, <1>2, <2>1, RefinesAnswer
<1>8. CASE CancelNothingActive \/ CancelSettle
  BY <1>1, <1>8 DEF CancelNothingActive, CancelSettle, world
<1> QED
  BY <1>3, <1>4, <1>5, <1>6, <1>7, <1>8 DEF CancelStep

LEMMA RefinesAccept ==
    ASSUME IInv, NEW c \in Commands, Submit(c)
    PROVE  Abstract!Next
<1>1. /\ outbox[c].status = "absent" /\ tries' = [tries EXCEPT ![c] = @ + 1]
      /\ tries[c] < plan.tries[c] /\ UNCHANGED <<agent, verdict>>
  BY DEF Submit, CanInsert, Present, world
<1>2. \A t \in Attempts : t[1] = c => agent[t] = "away"
  BY <1>1, NotHeard
<1>3. Abstract!Unheard(c)
  BY <1>2 DEF Abstract!Unheard, Abstract!Attempts, Attempts, FrameOf
<1>4. tries[c] < MaxTries
  <2>1. plan.tries[c] \in 0..MaxTries /\ tries[c] \in 0..MaxTries
    BY PromptTurnAssumption DEF PromptTurnAssumption, IInv, TypeOK
  <2> QED
    BY <1>1, <2>1, PromptTurnAssumption DEF PromptTurnAssumption
<1>5. Abstract!Accept(c)
  BY <1>1, <1>3, <1>4 DEF Abstract!Accept, FrameOf
<1> QED
  BY <1>5 DEF Abstract!Next

\* Prompts and cancels keep the promise of CommandPromise: of all executions of a command one
\* at most reaches the agent, each is answered once and truly, and none is accepted after the
\* agent has heard of the command.
THEOREM PromptsKeepPromise == Spec => KeepsPromise
<1>1. Init => Abstract!Init
  BY DEF Init, Abstract!Init, Abstract!Attempts, Attempts, FrameOf
<1>2. ASSUME IInv, [Next]_vars
      PROVE  [Abstract!Next]_(Abstract!vars)
  <2> DEFINE Goal == Abstract!Next \/ UNCHANGED Abstract!vars
  <2>1. ASSUME UNCHANGED <<tries, agent, verdict>>
        PROVE  Goal
    BY <2>1 DEF Abstract!vars, FrameOf
  <2>2. ASSUME NEW c \in Commands, Submit(c)
        PROVE  Goal
    BY <1>2, <2>2, RefinesAccept
  <2>3. ASSUME PromptStep \/ CancelStep
        PROVE  Goal
    BY <1>2, <2>1, <2>3, PromptRefines, CancelRefines
  <2>4. ASSUME NEW t \in Attempts, WireDelivers(t) \/ \E stop \in Stops : AgentAnswers(t, stop)
        PROVE  Goal
    <3>1. UNCHANGED <<tries, verdict>> /\ agent[t] \in {"wire", "running"}
      BY <2>4 DEF WireDelivers, AgentAnswers, intake
    <3>2. PICK where \in {"wire", "running", "answered"} : agent' = [agent EXCEPT ![t] = where]
      BY <2>4 DEF WireDelivers, AgentAnswers
    <3>3. [s \in Attempts |-> FrameOf(s)]'
              = [[s \in Attempts |-> FrameOf(s)] EXCEPT ![t] = "sent"]
      BY <1>2, <3>2, FrameMoves
    <3>4. [s \in Attempts |-> FrameOf(s)]' = [s \in Attempts |-> FrameOf(s)]
      BY <3>1, <3>3 DEF FrameOf
    <3> QED
      BY <3>1, <3>4 DEF Abstract!vars
  <2>5. ASSUME \/ StartNext \/ EnterLoop \/ ReadNext \/ DiscStep \/ ExitClear \/ Disconnect
               \/ Reconnect \/ ProcessExit \/ AgentStreams \/ PermissionAsked
               \/ PermissionAnswered \/ UNCHANGED vars
               \/ \E t \in Attempts, status \in Stops \cap FinalTurn : AgentEndsTurn(t, status)
        PROVE  UNCHANGED <<tries, agent, verdict>>
    BY <2>5 DEF StartNext, EnterLoop, ReadNext, DiscStep, DiscRead, DiscInterrupt, DiscClear,
                ExitClear, Disconnect, Reconnect, ProcessExit, AgentStreams, PermissionAsked,
                PermissionAnswered, AgentEndsTurn, vars, intake, world
  <2> HIDE DEF Goal
  <2>6. Goal
    BY <1>2, <2>1, <2>2, <2>3, <2>4, <2>5 DEF Next, Executor, Environment
  <2> QED
    BY <2>6 DEF Goal
<1> QED
  BY <1>1, <1>2, InitIInv, NextIInv, PTL DEF Spec, KeepsPromise, Abstract!Spec
=============================================================================
