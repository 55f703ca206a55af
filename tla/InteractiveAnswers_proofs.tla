---------------------- MODULE InteractiveAnswers_proofs ----------------------
(***************************************************************************)
(* What the agent is told and what users are told agree, for forms and for *)
(* questions: for any commands, requests and answers, and any number of    *)
(* executions, lost connections, failed writes and forms sent twice.       *)
(*                                                                         *)
(* An answer is sent by an execution that the document has chosen.  For a  *)
(* question the document chooses once.  For a form it may choose the same  *)
(* action again, but the claim keeps other commands out until the form is  *)
(* sent a second time, and the outbox lets one command send once.          *)
(*                                                                         *)
(* The last part shows that this is the promise of CommandPromise: nothing *)
(* is resumed after the agent has heard of it (RaisedInv).                 *)
(***************************************************************************)
EXTENDS InteractiveAnswers, FiniteSetTheorems, TLAPS

Form == kind = "elicitation"
Busy == exec.pc # "idle"
P(c) == asked[c].req

Final == {"completed", "failed", "delivery_unknown"}
Moving == {"dispatched", "delivery_confirmed", "projection_committed"}
Decided == {"responding", "resolved", "expired"}
Early == {"check", "claim", "cas", "barrier", "forward"}
Told == {"finish", "complete", "settle"}
Chosen == {"barrier", "forward"} \cup Told

ExecTypes ==
    /\ exec = Idle \/ (exec.turn \in Attempts /\ Busy)
    /\ IsFiniteSet(table)

\* A command that has an execution has a record, and its request has been shown.
KnownInv ==
    \A c \in Commands : /\ tries[c] > 0 => Present(outbox[c])
                        /\ Present(outbox[c]) => status[P(c)] # "none"

\* The executions of a command take place in the order of their numbers, each once.
LineInv ==
    /\ \A i \in DOMAIN queue :
          /\ queue[i][2] <= tries[queue[i][1]]
          /\ agent[queue[i]] = "away" /\ verdict[queue[i]] = None
    /\ \A i, j \in DOMAIN queue :
          i < j /\ queue[i][1] = queue[j][1] => queue[i][2] < queue[j][2]
    /\ Busy => /\ exec.turn[2] <= tries[Cmd] /\ verdict[exec.turn] = None
               /\ \A i \in DOMAIN queue : queue[i][1] = Cmd => exec.turn[2] < queue[i][2]
    /\ \A t \in Attempts : agent[t] # "away" \/ verdict[t] # None => t[2] <= tries[t[1]]
    /\ \A t \in Attempts : verdict[t] # None =>
          /\ \A i \in DOMAIN queue : queue[i][1] = t[1] => t[2] < queue[i][2]
          /\ Busy /\ Cmd = t[1] => t[2] < exec.turn[2]

\* A form for which a command holds recovery material has been decided, or just will be.
RecordInv ==
    \A c \in Commands :
        /\ Present(outbox[c]) => outbox[c].type = CommandType
        /\ outbox[c].status \in {"absent", "received", "accepted"} =>
              outbox[c].barrier = FALSE /\ outbox[c].recovery = None
        /\ Form /\ outbox[c].recovery # None /\ status[P(c)] \in {"none", "pending"} =>
              chat = "closed" \/ (exec.pc = "cas" /\ Cmd = c)
        /\ outbox[c].status \in Moving => exec.pc \in {"complete", "settle"} /\ Cmd = c
        /\ c \in fallbacks => outbox[c].status \in Final

ClaimInv == \A r \in Requests : status[r] = "none" => claim[r] = None /\ r \notin replayed

\* The document shows what the command says.
Agreed(c) ==
    /\ SameAnswer(stored[P(c)], asked[c])
    /\ status[P(c)] \in Decided
    /\ kind = "question" => status[P(c)] = "resolved"

Owned(c) == claim[P(c)] = c \/ P(c) \in replayed

Retryable(r) == r.status = "intent_durable" /\ r.recovery # None /\ r.barrier = FALSE

\* Where the execution under way is and what the agent, its record and the document say.
StageInv ==
    /\ exec.pc \in Early => agent[exec.turn] = "away"
    /\ exec.pc \in Told => agent[exec.turn] = "taken"
    /\ exec.pc \in {"claim", "complete", "settle"} => Form
    /\ exec.pc \in Chosen => Agreed(Cmd)
    /\ Form /\ exec.pc \in {"cas"} \cup Chosen => Owned(Cmd)

ReadyInv ==
    /\ exec.pc \in {"forward", "finish"} => Rec.status = "intent_durable"
    /\ ~Form /\ exec.pc \in {"cas", "barrier"} => Rec.status = "intent_durable"
    /\ exec.pc = "check" => exec.resumed = FALSE
    /\ exec.pc = "claim" =>
          IF exec.resumed THEN Rec.recovery # None
          ELSE /\ Rec.status = "intent_durable"
               /\ Rec.barrier = FALSE /\ Rec.recovery = None
    /\ Form /\ exec.pc \in {"cas", "barrier"} =>
          Rec.recovery # None /\ Rec.status \in {"intent_durable"} \cup Final
    /\ Form /\ exec.pc = "cas" /\ status[Req] = "pending" /\ chat # "closed" =>
          Retryable(Rec)
    /\ exec.pc \in {"complete", "settle"} => Rec.status = "delivery_confirmed"

AnswerInv ==
    exec.pc = "publish" =>
        /\ exec.answer # None
        /\ exec.answer \in {"retryable", "failed"} => agent[exec.turn] = "away"
        /\ exec.answer = "committed" => agent[exec.turn] = "taken"
        /\ exec.answer = "duplicate" => agent[exec.turn] = (IF Form THEN "taken" ELSE "away")
        /\ exec.answer = "retryable" /\ Form => Retryable(Rec)
        /\ exec.answer = "unknown" => Rec.status \in Final

\* What has been sent was chosen; a form by the command that has the claim, which is over.
SentInv ==
    /\ \A t \in Attempts : MayReach(t) => Agreed(t[1])
    /\ \A t \in Attempts : Form /\ MayReach(t) =>
          /\ Owned(t[1])
          /\ outbox[t[1]].status \in Final \/ (exec.pc \in Told /\ exec.turn = t)
    /\ \A s, t \in Attempts :
          Form /\ MayReach(s) /\ MayReach(t) /\ s[1] = t[1] => s = t

\* A question chooses one execution.
Winner(t) == MayReach(t) \/ (exec.pc \in Chosen /\ exec.turn = t)
OneWinner ==
    \A s, t \in Attempts :
        ~Form /\ Winner(s) /\ Winner(t) /\ Answered(s) = Answered(t) => s = t

ResolvedInv ==
    \A r \in Requests : Form /\ status[r] = "resolved" =>
        \E t \in Attempts : agent[t] = "taken" /\ Answered(t) = r
                            /\ SameAnswer(stored[r], asked[t[1]])

VerdictInv ==
    /\ \A t \in Attempts :
          /\ verdict[t] \in {"retryable", "failed"} => agent[t] = "away"
          /\ verdict[t] = "committed" => agent[t] = "taken"
          /\ verdict[t] = "duplicate" => agent[t] = (IF Form THEN "taken" ELSE "away")
    /\ \A c \in Commands :
          Form /\ tries[c] > 0 /\ verdict[<<c, tries[c]>>] = "retryable" =>
              Retryable(outbox[c])

\* The timers of questions, the table, and the handlers that clear it.
WorldInv ==
    /\ \A r \in Requests : timer[r] # "off" => ~Form
    /\ \A r \in Requests : timer[r] = "send" \/ expiry[r] # "away" =>
          ~Form /\ status[r] = "expired"
    /\ Form /\ reg # None =>
          IF status[reg] = "none" THEN reg \in table \cup lost ELSE reg \in replayed
    /\ chat = "alive" => cleanup["exit"] = "idle"
    /\ \A r \in Requests : ~Form /\ status[r] = "pending" => r \in table \cup lost \/ reg = r
    /\ ShownIsAnswerable

Core ==
    /\ KnownInv /\ LineInv /\ RecordInv /\ ClaimInv
    /\ StageInv /\ ReadyInv /\ AnswerInv
    /\ SentInv /\ OneWinner /\ ResolvedInv /\ VerdictInv

IInv == TypeOK /\ ExecTypes /\ Core /\ WorldInv

-----------------------------------------------------------------------------
(* What the methods of the outbox leave of a record.                       *)
LEMMA ErrorTyped == \A code \in Codes : FromErrorCode(code) \in Errors
<1>1. \A code : DefaultRetryable(code) \in BOOLEAN
  BY DEF DefaultRetryable
<1> QED
  BY <1>1 DEF FromErrorCode, Errors

LEMMA AbsentTyped ==
    /\ Absent \in Record /\ Absent.status = "absent"
    /\ Absent.barrier = FALSE /\ Absent.recovery = None
BY DEF Absent, Record, CommandTypes, OneShotTypes, Statuses, LiveStatuses, Terminal, NoError,
       Errors, Codes

LEMMA FreshTyped ==
    ASSUME NEW type \in OneShotTypes
    PROVE  LET s == MarkAccepted(Insert(type))
           IN  /\ s \in Record /\ s.type = type /\ s.status = "accepted"
               /\ s.barrier = FALSE /\ s.recovery = None
BY DEF MarkAccepted, Insert, Move, Absent, Record, CommandTypes, OneShotTypes, Statuses,
       LiveStatuses, Terminal, NoError, Errors, Codes

\* Steps before the answer is sent.
LEMMA EarlySteps ==
    ASSUME NEW r \in Record
    PROVE  /\ LET s == MarkIntentDurable(r)
              IN  /\ s \in Record /\ s.type = r.type /\ s.status = "intent_durable"
                  /\ s.barrier = r.barrier /\ s.recovery = r.recovery
           /\ \A ev \in Evidence :
                 LET s == SetRecovery(r, ev)
                 IN  /\ s \in Record /\ s.type = r.type /\ s.status = r.status
                     /\ s.barrier = r.barrier /\ s.recovery = ev
           /\ LET s == RaiseBarrier(r)
              IN  /\ s \in Record /\ s.type = r.type /\ s.status = r.status
                  /\ s.recovery = r.recovery
           /\ \A code \in Codes :
                 LET s == LowerBarrier(r, FromErrorCode(code))
                 IN  /\ s \in Record /\ s.type = r.type /\ s.status = r.status
                     /\ s.barrier = FALSE /\ s.recovery = r.recovery
<1> USE DEF Record, Statuses, LiveStatuses, Terminal, Move
<1>1. LET s == MarkIntentDurable(r)
      IN  /\ s \in Record /\ s.type = r.type /\ s.status = "intent_durable"
          /\ s.barrier = r.barrier /\ s.recovery = r.recovery
  BY DEF MarkIntentDurable
<1>2. \A ev \in Evidence :
         LET s == SetRecovery(r, ev)
         IN  /\ s \in Record /\ s.type = r.type /\ s.status = r.status
             /\ s.barrier = r.barrier /\ s.recovery = ev
  BY DEF SetRecovery
<1>3. LET s == RaiseBarrier(r)
      IN  /\ s \in Record /\ s.type = r.type /\ s.status = r.status
          /\ s.recovery = r.recovery
  BY DEF RaiseBarrier
<1>4. ASSUME NEW code \in Codes
      PROVE  LET s == LowerBarrier(r, FromErrorCode(code))
             IN  /\ s \in Record /\ s.type = r.type /\ s.status = r.status
                 /\ s.barrier = FALSE /\ s.recovery = r.recovery
  BY ErrorTyped DEF LowerBarrier
<1> QED
  BY <1>1, <1>2, <1>3, <1>4

\* Steps after it.
LEMMA LateSteps ==
    ASSUME NEW r \in Record
    PROVE  /\ LET s == MarkDeliveryConfirmed(MarkDispatched(r))
              IN  /\ s \in Record /\ s.type = r.type /\ s.status = "delivery_confirmed"
                  /\ s.recovery = r.recovery
           /\ LET s == MarkDeliveryUnknown(r)
              IN  /\ s \in Record /\ s.type = r.type /\ s.status = "delivery_unknown"
                  /\ s.recovery = r.recovery
           /\ LET s == MarkCompleted(r)
              IN  /\ s \in Record /\ s.type = r.type /\ s.status = "completed"
                  /\ s.recovery = r.recovery
           /\ LET s == MarkCompleted(MarkProjectionCommitted(ClearRecovery(r)))
              IN  /\ s \in Record /\ s.type = r.type /\ s.status = "completed"
                  /\ s.recovery = None
           /\ LET s == MarkFailed(r, [code |-> "INVALID_STATE", retryable |-> FALSE])
              IN  /\ s \in Record /\ s.type = r.type /\ s.status = "failed"
                  /\ s.recovery = r.recovery
<1> USE DEF Record, Statuses, LiveStatuses, Terminal, Move
<1>1. LET s == MarkDeliveryConfirmed(MarkDispatched(r))
      IN  /\ s \in Record /\ s.type = r.type /\ s.status = "delivery_confirmed"
          /\ s.recovery = r.recovery
  <2>1. r.attempts + 1 \in Nat
    OBVIOUS
  <2> QED
    BY <2>1 DEF MarkDispatched, MarkDeliveryConfirmed
<1>2. LET s == MarkDeliveryUnknown(r)
      IN  /\ s \in Record /\ s.type = r.type /\ s.status = "delivery_unknown"
          /\ s.recovery = r.recovery
  <2>1. FromErrorCode("DELIVERY_UNKNOWN") \in Errors
    BY ErrorTyped DEF Codes
  <2> QED
    BY <2>1 DEF MarkDeliveryUnknown
<1>3. LET s == MarkCompleted(r)
      IN  /\ s \in Record /\ s.type = r.type /\ s.status = "completed"
          /\ s.recovery = r.recovery
  BY DEF MarkCompleted
<1>4. LET s == MarkCompleted(MarkProjectionCommitted(ClearRecovery(r)))
      IN  /\ s \in Record /\ s.type = r.type /\ s.status = "completed"
          /\ s.recovery = None
  BY DEF MarkCompleted, MarkProjectionCommitted, ClearRecovery
<1>5. LET s == MarkFailed(r, [code |-> "INVALID_STATE", retryable |-> FALSE])
      IN  /\ s \in Record /\ s.type = r.type /\ s.status = "failed"
          /\ s.recovery = r.recovery
  <2>1. [code |-> "INVALID_STATE", retryable |-> FALSE] \in Errors
    BY DEF Errors, Codes
  <2> QED
    BY <2>1 DEF MarkFailed
<1> QED
  BY <1>1, <1>2, <1>3, <1>4, <1>5

-----------------------------------------------------------------------------
(* What the types say.                                                     *)
Statuses2 == {"none", "pending", "responding", "resolved", "expired"}
ExecSet == [turn : Attempts \cup {None}, pc : Pcs, resumed : BOOLEAN, replay : BOOLEAN,
            answer : Verdicts2 \cup {None}]

LEMMA Typed ==
    ASSUME TypeOK, ExecTypes
    PROVE  /\ \A c \in Commands : /\ asked[c] \in Asks /\ P(c) \in Requests
                                  /\ outbox[c] \in Record /\ tries[c] \in Nat
           /\ \A t \in Attempts : /\ t[1] \in Commands /\ t[2] \in 1..MaxTries
                                  /\ t[2] \in Nat /\ t[2] > 0
                                  /\ t = <<t[1], t[2]>> /\ Answered(t) = P(t[1])
                                  /\ Answered(t) \in Requests
                                  /\ agent[t] \in Reach
           /\ Busy => /\ exec.turn \in Attempts /\ Cmd \in Commands /\ Cmd = exec.turn[1]
                      /\ Req = P(Cmd) /\ Ask = asked[Cmd] /\ Ask \in Asks /\ Req \in Requests
                      /\ Rec = outbox[Cmd] /\ Rec \in Record
           /\ exec \in ExecSet
           /\ None \notin Requests /\ None \notin Commands /\ None \notin Asks
<1>1. \A c \in Commands : asked[c] \in Asks /\ outbox[c] \in Record /\ tries[c] \in Nat
  <2>1. ASSUME NEW c \in Commands
        PROVE  tries[c] \in Nat
    <3>1. tries[c] \in 0..MaxTries
      BY DEF TypeOK
    <3> QED
      BY <3>1, InteractiveAssumption DEF InteractiveAssumption
  <2> QED
    BY <2>1 DEF TypeOK
<1>2. \A a \in Asks : a.req \in Requests
  BY InteractiveAssumption DEF InteractiveAssumption
<1>3. Busy => exec.turn \in Attempts
  BY DEF ExecTypes, Busy, Idle
<1>4. exec \in ExecSet
  BY DEF TypeOK, ExecSet
<1>5. None \notin Requests /\ None \notin Commands /\ None \notin Asks
  BY NoneIsNothing, InteractiveAssumption DEF NoneIsNothing, InteractiveAssumption
<1>6. \A t \in Attempts : /\ t[1] \in Commands /\ t[2] \in 1..MaxTries /\ t = <<t[1], t[2]>>
                          /\ t[2] \in Nat /\ t[2] > 0 /\ agent[t] \in Reach
  BY InteractiveAssumption DEF Attempts, InteractiveAssumption, TypeOK
<1> QED
  BY <1>1, <1>2, <1>3, <1>4, <1>5, <1>6 DEF P, Cmd, Req, Ask, Rec, Answered

LEMMA Queued ==
    ASSUME TypeOK, NEW i \in DOMAIN queue
    PROVE  queue[i] \in Attempts /\ queue[i][1] \in Commands /\ queue[i][2] \in Nat
<1>1. queue \in Seq(Attempts)
  BY DEF TypeOK
<1>2. queue[i] \in Attempts
  <2> HIDE DEF Attempts
  <2> QED
    BY <1>1
<1> QED
  BY <1>2, InteractiveAssumption DEF Attempts, InteractiveAssumption

\* Where a step of the executor goes.
LEMMA GotoIs ==
    ASSUME TypeOK, NEW pc \in Pcs, Goto(pc)
    PROVE  exec' \in ExecSet /\ exec'.pc = pc /\ exec'.turn = exec.turn
           /\ exec'.resumed = exec.resumed /\ exec'.answer = exec.answer
BY DEF TypeOK, Goto, ExecSet

LEMMA FinishIs ==
    ASSUME TypeOK, NEW answer \in Verdicts2, Finish(answer)
    PROVE  exec' \in ExecSet /\ exec'.pc = "publish" /\ exec'.turn = exec.turn
           /\ exec'.answer = answer
BY DEF TypeOK, Finish, ExecSet, Pcs

LEMMA StoreIs ==
    ASSUME TypeOK, Cmd \in Commands
    PROVE  /\ Keep => outbox' = [outbox EXCEPT ![Cmd] = Rec]
           /\ \A s : Store(s) => outbox' = [outbox EXCEPT ![Cmd] = s]
<1>1. outbox \in [Commands -> Record]
  BY DEF TypeOK
<1>2. [outbox EXCEPT ![Cmd] = outbox[Cmd]] = outbox
  BY <1>1
<1> QED
  BY <1>2 DEF Keep, Store, Rec

-----------------------------------------------------------------------------
(* Answers of unknown delivery and refusals end an execution.              *)
Ended(s, answers) ==
    /\ s \in Record /\ s.type = Rec.type
    /\ outbox' = [outbox EXCEPT ![Cmd] = s]
    /\ s = Rec \/ s.status \in Final
    /\ Rec.status \in Final => s.status \in Final
    /\ s.recovery = Rec.recovery
    /\ \E a \in answers : /\ exec' \in ExecSet /\ exec'.pc = "publish"
                          /\ exec'.turn = exec.turn /\ exec'.answer = a
                          /\ a = "unknown" => s.status \in Final

LEMMA UnknownIs ==
    ASSUME TypeOK, ExecTypes, Busy, Unknown,
           Rec.status \in {"intent_durable", "delivery_confirmed"} \cup Final
    PROVE  \E s : s.status \in Final /\ Ended(s, {"unknown"})
<1>1. Cmd \in Commands /\ Rec \in Record
  BY Typed
<1>2. Finish("unknown")
  BY DEF Unknown
<1>3. exec' \in ExecSet /\ exec'.pc = "publish" /\ exec'.turn = exec.turn
      /\ exec'.answer = "unknown"
  BY <1>2, FinishIs DEF Verdicts2
<1>4. CASE CanMarkDeliveryUnknown(Rec)
  <2>1. outbox' = [outbox EXCEPT ![Cmd] = MarkDeliveryUnknown(Rec)]
    BY <1>1, <1>4, StoreIs DEF Unknown
  <2>2. PICK s : s = MarkDeliveryUnknown(Rec)
    OBVIOUS
  <2>3. /\ s \in Record /\ s.type = Rec.type /\ s.status = "delivery_unknown"
        /\ s.recovery = Rec.recovery
    BY <1>1, <2>2, LateSteps
  <2>4. Ended(s, {"unknown"})
    BY <1>3, <2>1, <2>2, <2>3 DEF Ended, Final
  <2> QED
    BY <2>3, <2>4 DEF Final
<1>5. CASE ~CanMarkDeliveryUnknown(Rec)
  <2>1. outbox' = [outbox EXCEPT ![Cmd] = Rec]
    BY <1>1, <1>5, StoreIs DEF Unknown
  <2>2. Rec.status \in Final
    BY <1>5 DEF CanMarkDeliveryUnknown, CanMove, AllowedTransition
  <2>3. Ended(Rec, {"unknown"})
    BY <1>1, <1>3, <2>1, <2>2 DEF Ended
  <2> QED
    BY <2>2, <2>3
<1> QED
  BY <1>4, <1>5

LEMMA FailIs ==
    ASSUME TypeOK, ExecTypes, Busy, FailBeforeDelivery, Present(Rec)
    PROVE  \E s : s.status \in Final /\ Ended(s, {"failed", "unknown"})
<1> DEFINE err == [code |-> "INVALID_STATE", retryable |-> FALSE]
<1>1. Cmd \in Commands /\ Rec \in Record
  BY Typed
<1>2. CASE CanMarkFailed(Rec, err)
  <2>1. Store(MarkFailed(Rec, err)) /\ Finish("failed")
    BY <1>2 DEF FailBeforeDelivery
  <2>2. PICK s : s = MarkFailed(Rec, err)
    OBVIOUS
  <2>3. /\ s \in Record /\ s.type = Rec.type /\ s.status = "failed"
        /\ s.recovery = Rec.recovery
    BY <1>1, <2>2, LateSteps
  <2>4. outbox' = [outbox EXCEPT ![Cmd] = s]
    BY <1>1, <2>1, <2>2, StoreIs
  <2>5. exec' \in ExecSet /\ exec'.pc = "publish" /\ exec'.turn = exec.turn
        /\ exec'.answer = "failed"
    BY <2>1, FinishIs DEF Verdicts2
  <2>6. Ended(s, {"failed", "unknown"})
    BY <2>3, <2>4, <2>5 DEF Ended, Final
  <2> QED
    BY <2>3, <2>6 DEF Final
<1>3. CASE ~CanMarkFailed(Rec, err)
  <2>1. Unknown
    BY <1>3 DEF FailBeforeDelivery
  <2>2. Rec.status \in Final
    BY <1>1, <1>3 DEF CanMarkFailed, Live, Present, Record, Statuses, Terminal, Final
  <2>3. PICK s : s.status \in Final /\ Ended(s, {"unknown"})
    BY <2>1, <2>2, UnknownIs
  <2>4. Ended(s, {"failed", "unknown"})
    BY <2>3 DEF Ended
  <2> QED
    BY <2>3, <2>4
<1> QED
  BY <1>2, <1>3

LEMMA HasRecord ==
    ASSUME TypeOK, ExecTypes, KnownInv, LineInv, Busy
    PROVE  Present(Rec) /\ status[Req] # "none"
<1>1. /\ exec.turn \in Attempts /\ Cmd \in Commands /\ Cmd = exec.turn[1] /\ Req = P(Cmd)
      /\ Rec = outbox[Cmd] /\ exec.turn[2] \in Nat /\ exec.turn[2] > 0 /\ tries[Cmd] \in Nat
  BY Typed
<1>2. exec.turn[2] <= tries[Cmd]
  BY DEF LineInv
<1>3. tries[Cmd] > 0
  BY <1>1, <1>2
<1> QED
  BY <1>1, <1>3 DEF KnownInv

-----------------------------------------------------------------------------
(* A step of the execution under way: it moves the record of its command,  *)
(* the document and the claim of its request, and what the agent has of    *)
(* its attempt.                                                            *)
Step(s, w) ==
    /\ Busy
    /\ UNCHANGED <<kind, asked, tries, queue, verdict, fallbacks, others, reg, timer, expiry,
                   chat, link, stale, cleanup, drops, replays, replayed, lost>>
    /\ exec' \in ExecSet /\ exec'.turn = exec.turn /\ exec'.pc # "idle"
    /\ s \in Record /\ s.type = Rec.type /\ outbox' = [outbox EXCEPT ![Cmd] = s]
    /\ s = Rec \/ s.status \notin {"absent", "received", "accepted"}
    /\ Rec.status \in Final => s.status \in Final
    /\ s.status \in Moving => exec'.pc \in {"complete", "settle"}
    /\ Form /\ s.recovery # None =>
          status'[Req] \notin {"none", "pending"} \/ chat = "closed" \/ exec'.pc = "cas"
    /\ w \in Reach /\ agent' = [agent EXCEPT ![exec.turn] = w]
    /\ w = agent[exec.turn] \/ exec.pc = "forward"
    /\ Form /\ w # "away" => exec'.pc \in Told \/ s.status \in Final
    /\ status' \in [Requests -> Statuses2] /\ stored' \in [Requests -> Asks \cup {None}]
    /\ \A r \in Requests :
          \/ status'[r] = status[r]
          \/ status[r] = "pending" /\ status'[r] = (IF Form THEN "responding" ELSE "resolved")
          \/ /\ r = Req /\ exec.pc = "complete"
             /\ status[r] = "responding" /\ status'[r] = "resolved"
    /\ \A r \in Requests : stored'[r] = stored[r] \/ status[r] = "pending"
    /\ claim' \in [Requests -> Commands \cup {None}]
    /\ \A r \in Requests :
          claim'[r] = claim[r] \/ (claim[r] \in {None, Cmd} /\ claim'[r] = Cmd /\ r = Req)
    /\ ~Form /\ exec'.pc \in Chosen => exec.pc \in Chosen \/ status[Req] = "pending"
    /\ table' = table \/ (table' = table \ {Req} /\ status[Req] \in Decided)
    /\ faults' \in 0..MaxFaults /\ (faults' = 0 => faults = 0)

\* What the document has decided it keeps, and so do owners.
LEMMA AgreedKept ==
    ASSUME UNCHANGED <<kind, asked>>, NEW c \in Commands, P(c) \in Requests, Agreed(c),
           \A r \in Requests : stored'[r] = stored[r] \/ status[r] \in {"none", "pending"},
           \A r \in Requests :
               \/ status'[r] = status[r] \/ status[r] \in {"none", "pending"}
               \/ status[r] = "responding" /\ status'[r] \in {"resolved", "expired"}
    PROVE  Agreed(c)'
<1>1. P(c)' = P(c) /\ asked'[c] = asked[c]
  BY DEF P
<1>2. stored'[P(c)] = stored[P(c)]
  BY DEF Agreed, Decided
<1>3. status'[P(c)] \in Decided /\ (kind = "question" => status'[P(c)] = "resolved")
  BY DEF Agreed, Decided
<1> QED
  BY <1>1, <1>2, <1>3 DEF Agreed, SameAnswer

LEMMA StepBasics ==
    ASSUME IInv, NEW s, NEW w, Step(s, w)
    PROVE  /\ TypeOK /\ ExecTypes /\ exec.turn \in Attempts /\ Cmd \in Commands
           /\ Cmd = exec.turn[1] /\ Req = P(Cmd) /\ Req \in Requests
           /\ Cmd' = Cmd /\ Req' = Req /\ Ask' = Ask /\ Rec' = s /\ Form' = Form
           /\ Busy'
           /\ \A c \in Commands : P(c)' = P(c) /\ outbox'[c] = IF c = Cmd THEN s ELSE outbox[c]
           /\ \A t \in Attempts : /\ Answered(t)' = Answered(t)
                                  /\ agent'[t] = IF t = exec.turn THEN w ELSE agent[t]
           /\ \A c \in Commands : Agreed(c) => Agreed(c)'
           /\ \A c \in Commands : Owned(c) => Owned(c)'
<1>1. TypeOK /\ ExecTypes /\ Busy
  BY DEF IInv, Step
<1>2. /\ exec.turn \in Attempts /\ Cmd \in Commands /\ Cmd = exec.turn[1] /\ Req = P(Cmd)
      /\ Req \in Requests
  BY <1>1, Typed
<1>3. outbox \in [Commands -> Record] /\ agent \in [Attempts -> Reach]
  BY <1>1 DEF TypeOK
<1>4. Cmd' = Cmd /\ Req' = Req /\ Ask' = Ask /\ Form' = Form /\ Busy'
  BY DEF Step, Cmd, Req, Ask, Form, Busy
<1>5. \A c \in Commands : P(c)' = P(c) /\ outbox'[c] = IF c = Cmd THEN s ELSE outbox[c]
  BY <1>3 DEF Step, P
<1>6. \A t \in Attempts : /\ Answered(t)' = Answered(t)
                          /\ agent'[t] = IF t = exec.turn THEN w ELSE agent[t]
  BY <1>3 DEF Step, Answered
<1>7. Rec' = s
  BY <1>2, <1>4, <1>5 DEF Rec
<1>8. ASSUME NEW c \in Commands, Agreed(c)
      PROVE  Agreed(c)'
  <2>1. P(c) \in Requests
    BY <1>1, Typed
  <2> QED
    BY <1>8, <2>1, AgreedKept DEF Step
<1>9. ASSUME NEW c \in Commands, Owned(c)
      PROVE  Owned(c)'
  <2>1. P(c) \in Requests /\ c # None
    BY <1>1, Typed
  <2> QED
    BY <1>2, <1>5, <1>9, <2>1 DEF Step, Owned
<1> QED
  BY <1>1, <1>2, <1>4, <1>5, <1>6, <1>7, <1>8, <1>9

LEMMA StepTypes ==
    ASSUME IInv, NEW s, NEW w, Step(s, w)
    PROVE  TypeOK' /\ ExecTypes'
<1>1. TypeOK /\ ExecTypes /\ exec.turn \in Attempts /\ Cmd \in Commands
  BY StepBasics
<1>2. table' \subseteq table /\ IsFiniteSet(table)
  BY <1>1 DEF Step, ExecTypes
<1>3. /\ IsFiniteSet(table') /\ Cardinality(table') <= Cardinality(table)
      /\ Cardinality(table') \in Nat /\ Cardinality(table) \in Nat
  BY <1>2, FS_Subset, FS_CardinalityType
<1>4. table' \subseteq Requests /\ others' \in 0..MaxPending
      /\ (kind' = "elicitation" => Cardinality(table') + others' <= MaxPending)
  BY <1>1, <1>2, <1>3, InteractiveAssumption DEF Step, TypeOK, InteractiveAssumption
<1>5. outbox' \in [Commands -> Record] /\ agent' \in [Attempts -> Reach]
  BY <1>1 DEF Step, TypeOK
<1>6. TypeOK'
  BY <1>1, <1>4, <1>5 DEF Step, TypeOK, ExecSet, Statuses2
<1>7. ExecTypes'
  BY <1>1, <1>3 DEF Step, ExecTypes, Busy
<1> QED
  BY <1>6, <1>7

LEMMA StepLine ==
    ASSUME IInv, NEW s, NEW w, Step(s, w)
    PROVE  KnownInv' /\ LineInv'
<1>0. KnownInv /\ LineInv
  BY DEF IInv, Core
<1>1. KnownInv'
  <2>1. ASSUME NEW c \in Commands
        PROVE  /\ tries[c] > 0 => Present(outbox'[c])
               /\ Present(outbox'[c]) => status'[P(c)] # "none"
    <3>1. P(c) \in Requests /\ (Present(outbox'[c]) => Present(outbox[c]))
      <4>1. Present(Rec)
        BY <1>0, StepBasics, HasRecord DEF Step
      <4> QED
        BY <4>1, StepBasics, Typed DEF Rec
    <3>2. Present(outbox[c]) => Present(outbox'[c])
      BY StepBasics DEF Step, Present, Rec
    <3>3. status[P(c)] # "none" => status'[P(c)] # "none"
      BY <3>1 DEF Step
    <3> QED
      BY <1>0, <3>1, <3>2, <3>3 DEF KnownInv
  <2> QED
    BY <2>1, StepBasics DEF Step, KnownInv
<1>2. LineInv'
  <2>0. Busy /\ UNCHANGED <<tries, queue, verdict>> /\ exec'.turn = exec.turn
    BY DEF Step
  <2>1. ASSUME NEW i \in DOMAIN queue
        PROVE  agent'[queue[i]] = "away"
    <3>1. queue[i] \in Attempts /\ queue[i][1] \in Commands /\ queue[i][2] \in Nat
      BY StepBasics, Queued
    <3>2. queue[i] # exec.turn
      BY <1>0, <2>0, <2>1, <3>1, StepBasics DEF LineInv
    <3> QED
      BY <1>0, <2>1, <3>1, <3>2, StepBasics DEF LineInv
  <2>2. ASSUME NEW t \in Attempts, agent'[t] # "away" \/ verdict[t] # None
        PROVE  t[2] <= tries[t[1]]
    BY <1>0, <2>0, <2>2, StepBasics DEF LineInv
  <2>3. Busy' /\ Cmd' = Cmd
    BY StepBasics
  <2> QED
    BY <1>0, <2>0, <2>1, <2>2, <2>3 DEF LineInv
<1> QED
  BY <1>1, <1>2

LEMMA StepRecords ==
    ASSUME IInv, NEW s, NEW w, Step(s, w)
    PROVE  RecordInv' /\ ClaimInv'
<1>0. KnownInv /\ LineInv /\ RecordInv /\ ClaimInv
  BY DEF IInv, Core
<1>1. Rec = outbox[Cmd] /\ Cmd \in Commands
  BY StepBasics DEF Rec
<1>2. CommandType' = CommandType
  BY DEF Step, CommandType
<1>3. Present(Rec) /\ status[Req] # "none"
  BY <1>0, StepBasics, HasRecord DEF Step
<1>4. ASSUME NEW c \in Commands
      PROVE  /\ Present(outbox'[c]) => outbox'[c].type = CommandType
             /\ outbox'[c].status \in {"absent", "received", "accepted"} =>
                   outbox'[c].barrier = FALSE /\ outbox'[c].recovery = None
             /\ Form /\ outbox'[c].recovery # None /\ status'[P(c)] \in {"none", "pending"} =>
                   chat = "closed" \/ (exec'.pc = "cas" /\ Cmd = c)
             /\ outbox'[c].status \in Moving => exec'.pc \in {"complete", "settle"} /\ Cmd = c
             /\ c \in fallbacks => outbox'[c].status \in Final
  <2>1. CASE c = Cmd
    <3>1. outbox'[c] = s /\ P(c) = Req
      BY <2>1, StepBasics
    <3>2. s.type = CommandType
      BY <1>0, <1>1, <1>3 DEF Step, RecordInv
    <3>3. s.status \in {"absent", "received", "accepted"} =>
              s.barrier = FALSE /\ s.recovery = None
      BY <1>0, <1>1 DEF Step, RecordInv
    <3>4. c \in fallbacks => s.status \in Final
      BY <1>0, <1>1, <2>1 DEF Step, RecordInv
    <3> QED
      BY <2>1, <3>1, <3>2, <3>3, <3>4 DEF Step
  <2>2. CASE c # Cmd
    <3>1. outbox'[c] = outbox[c] /\ P(c) \in Requests
      BY <2>2, StepBasics, Typed
    <3>2. status'[P(c)] \in {"none", "pending"} => status[P(c)] \in {"none", "pending"}
      BY <3>1 DEF Step
    <3> QED
      BY <1>0, <2>2, <3>1, <3>2 DEF RecordInv
  <2> QED
    BY <2>1, <2>2
<1>5. RecordInv'
  BY <1>2, <1>4, StepBasics DEF Step, RecordInv
<1>6. ClaimInv'
  BY <1>0, <1>3 DEF Step, ClaimInv
<1> QED
  BY <1>5, <1>6

LEMMA StepSent ==
    ASSUME IInv, NEW s, NEW w, Step(s, w)
    PROVE  SentInv'
<1>0. SentInv /\ StageInv /\ ReadyInv
  BY DEF IInv, Core
<1>1. Rec = outbox[Cmd] /\ exec.turn \in Attempts /\ Cmd = exec.turn[1] /\ Cmd \in Commands
  BY StepBasics DEF Rec
<1>2. ASSUME NEW t \in Attempts, agent'[t] # "away"
      PROVE  agent[t] # "away" \/ (t = exec.turn /\ exec.pc = "forward")
  BY <1>2, StepBasics DEF Step
<1>3. ASSUME NEW t \in Attempts, agent'[t] # "away"
      PROVE  Agreed(t[1])' /\ (Form => Owned(t[1])')
  <2>1. t[1] \in Commands
    BY StepBasics, Typed
  <2>2. Agreed(t[1]) /\ (Form => Owned(t[1]))
    BY <1>0, <1>1, <1>2, <1>3 DEF SentInv, StageInv, Chosen, MayReach
  <2> QED
    BY <2>1, <2>2, StepBasics
<1>4. ASSUME NEW t \in Attempts, agent'[t] # "away", Form
      PROVE  outbox'[t[1]].status \in Final \/ (exec'.pc \in Told /\ exec'.turn = t)
  <2>1. t[1] \in Commands
    BY StepBasics, Typed
  <2>2. CASE t = exec.turn
    <3>0. agent'[exec.turn] = w /\ outbox'[Cmd] = s
      BY <1>1, StepBasics
    <3>1. w # "away" /\ outbox'[t[1]] = s
      BY <1>1, <1>4, <2>2, <3>0
    <3> QED
      BY <1>4, <2>2, <3>1 DEF Step
  <2>3. CASE t # exec.turn
    <3>1. outbox[t[1]].status \in Final
      BY <1>0, <1>2, <1>4, <2>3 DEF SentInv, MayReach
    <3> QED
      BY <1>1, <2>1, <3>1, StepBasics DEF Step
  <2> QED
    BY <2>2, <2>3
<1>5. ASSUME NEW t \in Attempts, NEW u \in Attempts, Form,
             agent'[t] # "away", agent'[u] # "away", t[1] = u[1], t # u
      PROVE  FALSE
  <2>1. ASSUME NEW x \in Attempts, NEW y \in Attempts, agent'[x] # "away", x[1] = y[1],
               x # y, y = exec.turn, exec.pc = "forward"
        PROVE  FALSE
    <3>1. agent[x] # "away"
      BY <1>2, <2>1
    <3>2. outbox[Cmd].status \in Final
      BY <1>0, <1>1, <1>5, <2>1, <3>1 DEF SentInv, MayReach, Told
    <3> QED
      BY <1>0, <1>1, <2>1, <3>2 DEF ReadyInv, Final
  <2>2. agent[t] # "away" /\ agent[u] # "away"
    BY <1>2, <1>5, <2>1
  <2> QED
    BY <1>0, <1>5, <2>2 DEF SentInv, MayReach
<1>6. Form' = Form
  BY StepBasics
<1> QED
  BY <1>3, <1>4, <1>5, <1>6 DEF SentInv, MayReach

LEMMA StepWinner ==
    ASSUME IInv, NEW s, NEW w, Step(s, w)
    PROVE  OneWinner'
<1>0. SentInv /\ StageInv /\ OneWinner /\ TypeOK /\ ExecTypes
  BY StepBasics DEF IInv, Core
<1>1. exec.turn \in Attempts /\ Cmd = exec.turn[1] /\ Cmd \in Commands /\ Req = P(Cmd)
  BY StepBasics
<1>2. ASSUME NEW t \in Attempts, ~Form, Winner(t)
      PROVE  status[Answered(t)] = "resolved"
  <2>1. Agreed(t[1])
    BY <1>0, <1>1, <1>2 DEF SentInv, StageInv, Winner
  <2>2. Answered(t) = P(t[1])
    BY <1>0, Typed
  <2> QED
    BY <1>0, <1>2, <2>1, <2>2 DEF Agreed, Form, TypeOK
<1>3. ASSUME NEW t \in Attempts, Winner(t)', ~Form, ~Winner(t)
      PROVE  t = exec.turn /\ status[Req] = "pending"
  <2>1. CASE agent'[t] # "away"
    <3>1. agent[t] # "away" \/ (t = exec.turn /\ exec.pc = "forward")
      BY <2>1, StepBasics DEF Step
    <3> QED
      BY <1>3, <3>1 DEF Winner, MayReach, Chosen
  <2>2. CASE exec'.pc \in Chosen /\ exec'.turn = t
    BY <1>3, <2>2 DEF Step, Winner
  <2> QED
    BY <1>3, <2>1, <2>2 DEF Winner, MayReach
<1>4. ASSUME NEW t \in Attempts, NEW u \in Attempts, ~Form, Winner(t)', Winner(u)',
             Answered(t) = Answered(u), t # u
      PROVE  FALSE
  <2>1. ASSUME NEW x \in Attempts, NEW y \in Attempts, Winner(x)', Winner(y)', x # y,
               Answered(x) = Answered(y), ~Winner(x)
        PROVE  FALSE
    <3>1. x = exec.turn /\ status[Req] = "pending" /\ Answered(x) = Req
      BY <1>0, <1>1, <1>3, <1>4, <2>1, Typed
    <3>2. Winner(y)
      BY <1>3, <1>4, <2>1, <3>1
    <3> QED
      BY <1>2, <1>4, <2>1, <3>1, <3>2
  <2>2. Winner(t) /\ Winner(u)
    BY <1>4, <2>1
  <2> QED
    BY <1>0, <1>4, <2>2 DEF OneWinner
<1>5. Form' = Form /\ \A t \in Attempts : Answered(t)' = Answered(t)
  BY StepBasics
<1> QED
  BY <1>4, <1>5 DEF OneWinner

LEMMA StepAnswers ==
    ASSUME IInv, NEW s, NEW w, Step(s, w)
    PROVE  ResolvedInv' /\ VerdictInv'
<1>0. StageInv /\ ResolvedInv /\ LineInv /\ VerdictInv /\ TypeOK /\ ExecTypes
  BY StepBasics DEF IInv, Core
<1>1. exec.turn \in Attempts /\ Cmd = exec.turn[1] /\ Cmd \in Commands /\ Req = P(Cmd)
      /\ Form' = Form /\ verdict' = verdict /\ tries' = tries /\ asked' = asked
  BY StepBasics DEF Step
<1>2. ASSUME NEW t \in Attempts, agent[t] = "taken"
      PROVE  agent'[t] = "taken"
  BY <1>0, <1>2, StepBasics DEF Step, StageInv, Early
<1>3. ASSUME NEW r \in Requests, Form, status'[r] = "resolved"
      PROVE  \E t \in Attempts : agent'[t] = "taken" /\ Answered(t)' = r
                                 /\ SameAnswer(stored[r], asked[t[1]])'
  <2>1. CASE status[r] = "resolved"
    <3>1. PICK t \in Attempts : agent[t] = "taken" /\ Answered(t) = r
                                /\ SameAnswer(stored[r], asked[t[1]])
      BY <1>0, <1>3, <2>1 DEF ResolvedInv
    <3>2. stored'[r] = stored[r] /\ kind' = kind
      BY <2>1 DEF Step
    <3>3. SameAnswer(stored[r], asked[t[1]])'
      BY <1>1, <3>1, <3>2 DEF SameAnswer
    <3> QED
      BY <1>2, <3>1, <3>3, StepBasics
  <2>2. CASE status[r] # "resolved"
    <3>1. r = Req /\ exec.pc = "complete"
      BY <1>3, <2>2 DEF Step
    <3>2. agent[exec.turn] = "taken" /\ Agreed(Cmd)
      BY <1>0, <3>1 DEF StageInv, Told, Chosen
    <3>3. PICK t \in Attempts : t = exec.turn
      BY <1>1
    <3>4. t[1] = Cmd /\ Answered(t) = r
      BY <1>0, <1>1, <3>1, <3>3, Typed
    <3>5. agent'[t] = "taken" /\ Answered(t)' = r
      BY <1>2, <3>2, <3>3, <3>4, StepBasics
    <3>6. SameAnswer(stored[r], asked[t[1]])
      BY <1>1, <3>1, <3>2, <3>4 DEF Agreed
    <3>7. stored'[r] = stored[r] /\ kind' = kind
      BY <1>3, <2>2 DEF Step
    <3>8. SameAnswer(stored[r], asked[t[1]])'
      BY <1>1, <3>6, <3>7 DEF SameAnswer
    <3> QED
      BY <3>5, <3>8
  <2> QED
    BY <2>1, <2>2
<1>4. ResolvedInv'
  BY <1>1, <1>3 DEF ResolvedInv
<1>5. ASSUME NEW t \in Attempts, verdict[t] # None
      PROVE  agent'[t] = agent[t]
  <2>1. t # exec.turn
    BY <1>0, <1>5 DEF LineInv, Step
  <2> QED
    BY <2>1, StepBasics
<1>6. ASSUME NEW t \in Attempts
      PROVE  /\ verdict[t] \in {"retryable", "failed"} => agent'[t] = "away"
             /\ verdict[t] = "committed" => agent'[t] = "taken"
             /\ verdict[t] = "duplicate" => agent'[t] = (IF Form THEN "taken" ELSE "away")
  <2>1. verdict[t] \in {"retryable", "failed", "committed", "duplicate"} => verdict[t] # None
    BY InteractiveAssumption DEF InteractiveAssumption, Verdicts2
  <2> QED
    BY <1>0, <1>5, <2>1 DEF VerdictInv
<1>7. ASSUME NEW c \in Commands, Form, tries[c] > 0, verdict[<<c, tries[c]>>] = "retryable"
      PROVE  Retryable(outbox'[c])
  <2>1. <<c, tries[c]>> \in Attempts /\ "retryable" # None
    <3>1. tries[c] \in 0..MaxTries /\ MaxTries \in Nat
      BY <1>0, InteractiveAssumption DEF TypeOK, InteractiveAssumption
    <3> QED
      BY <1>7, <3>1, InteractiveAssumption DEF Attempts, InteractiveAssumption, Verdicts2
  <2>2. PICK t \in Attempts : t = <<c, tries[c]>>
    BY <2>1
  <2>3. t[1] = c /\ t[2] = tries[c] /\ verdict[t] # None /\ tries[c] \in Nat
    BY <1>0, <1>7, <2>1, <2>2, Typed
  <2>4. c # Cmd
    <3>1. SUFFICES ASSUME c = Cmd PROVE FALSE
      OBVIOUS
    <3>2. t[2] < exec.turn[2] /\ exec.turn[2] <= tries[c]
      BY <1>0, <2>3, <3>1 DEF LineInv, Step
    <3>3. exec.turn[2] \in Nat
      BY <1>0, <1>1, Typed
    <3> QED
      BY <2>3, <3>2, <3>3
  <2>5. outbox'[c] = outbox[c]
    BY <2>4, StepBasics
  <2> QED
    BY <1>0, <1>7, <2>5 DEF VerdictInv
<1>8. VerdictInv'
  BY <1>1, <1>6, <1>7 DEF VerdictInv, Retryable
<1> QED
  BY <1>4, <1>8

LEMMA StepWorld ==
    ASSUME IInv, NEW s, NEW w, Step(s, w)
    PROVE  WorldInv'
<1>0. WorldInv /\ TypeOK /\ Req \in Requests /\ Form' = Form
  BY StepBasics DEF IInv
<1>1. /\ UNCHANGED <<reg, timer, expiry, chat, cleanup, replayed, lost>>
      /\ \A r \in Requests : /\ status[r] \in {"none", "expired"} => status'[r] = status[r]
                             /\ status'[r] \in {"none", "pending"} => status'[r] = status[r]
  BY DEF Step
<1>2. table' = table \/ (table' = table \ {Req} /\ status[Req] \in Decided)
  BY DEF Step
<1>3. /\ \A r \in Requests : timer'[r] # "off" => ~Form
      /\ \A r \in Requests : timer'[r] = "send" \/ expiry'[r] # "away" =>
            ~Form /\ status'[r] = "expired"
  BY <1>0, <1>1 DEF WorldInv
<1>4. Form /\ reg # None =>
          IF status'[reg] = "none" THEN reg \in table' \cup lost ELSE reg \in replayed
  <2>1. ASSUME Form, reg # None
        PROVE  IF status'[reg] = "none" THEN reg \in table' \cup lost ELSE reg \in replayed
    <3>1. reg \in Requests
      BY <1>0, <2>1 DEF TypeOK
    <3>2. CASE status'[reg] = "none"
      <4>1. status[reg] = "none" /\ reg \in table \cup lost
        BY <1>0, <1>1, <2>1, <3>1, <3>2 DEF WorldInv
      <4> QED
        BY <1>2, <3>2, <4>1 DEF Decided
    <3>3. CASE status'[reg] # "none"
      BY <1>0, <1>1, <2>1, <3>1, <3>3 DEF WorldInv
    <3> QED
      BY <3>2, <3>3
  <2> QED
    BY <2>1
<1>5. ASSUME NEW r \in Requests \ (replayed \cup lost'), status'[r] = "pending", chat # "closed"
      PROVE  r \in table' \/ reg = r \/ \E x \in Cleaners : cleanup[x] = "expire"
  <2>1. status[r] = "pending" /\ r \notin lost
    BY <1>1, <1>5 DEF Step
  <2>2. r \in table \/ reg = r \/ \E x \in Cleaners : cleanup[x] = "expire"
    BY <1>0, <1>5, <2>1 DEF WorldInv, ShownIsAnswerable
  <2> QED
    BY <1>2, <2>1, <2>2 DEF Decided
<1>6. ShownIsAnswerable'
  BY <1>1, <1>5 DEF ShownIsAnswerable
<1>7. \A r \in Requests : ~Form /\ status'[r] = "pending" => r \in table' \cup lost \/ reg = r
  BY <1>0, <1>1, <1>2 DEF WorldInv, Decided
<1> QED
  BY <1>0, <1>1, <1>3, <1>4, <1>6, <1>7 DEF WorldInv

\* What is left for each step of the executor is where it stands afterwards.
LEMMA StepKeeps ==
    ASSUME IInv, NEW s, NEW w, Step(s, w), StageInv', ReadyInv', AnswerInv'
    PROVE  IInv'
BY StepTypes, StepLine, StepRecords, StepSent, StepWinner, StepAnswers, StepWorld
   DEF IInv, Core

-----------------------------------------------------------------------------
(* The executor, an execution at a time.                                   *)
\* A step that neither sends nor touches the document.
LEMMA Quiet ==
    ASSUME TypeOK, ExecTypes, Busy,
           UNCHANGED <<status, stored, claim, table, faults, agent>>
    PROVE  /\ agent' = [agent EXCEPT ![exec.turn] = agent[exec.turn]]
           /\ agent[exec.turn] \in Reach
           /\ status' \in [Requests -> Statuses2] /\ stored' \in [Requests -> Asks \cup {None}]
           /\ claim' \in [Requests -> Commands \cup {None}]
           /\ table' = table /\ faults' \in 0..MaxFaults
BY Typed DEF TypeOK, Statuses2


\* What an execution leaves alone.
Frame == UNCHANGED <<kind, asked, tries, queue, verdict, fallbacks, others, reg, timer, expiry,
                     chat, link, stale, cleanup, drops, replays, replayed, lost>>

LEMMA EndIs ==
    ASSUME IInv, Busy, Frame, NEW s, NEW w, NEW answers, Ended(s, answers),
           UNCHANGED <<status, stored, claim, table, faults>>,
           w \in Reach, agent' = [agent EXCEPT ![exec.turn] = w],
           w = agent[exec.turn] \/ (exec.pc = "forward" /\ s.status \in Final),
           \A a \in answers : a = "unknown" \/ (a = "failed" /\ exec.pc \in Early \ {"forward"}),
           exec.pc \in Told => s.status \in Final,
           exec.pc \notin {"complete", "settle", "publish"},
           exec.pc = "cas" => chat = "closed" \/ status[Req] \notin {"none", "pending"}
    PROVE  IInv'
<1>0. /\ TypeOK /\ ExecTypes /\ StageInv /\ RecordInv /\ SentInv
      /\ exec.turn \in Attempts /\ Cmd \in Commands /\ Req = P(Cmd) /\ Rec = outbox[Cmd]
      /\ agent \in [Attempts -> Reach] /\ exec.pc \in Pcs
  BY Typed DEF IInv, Core, ExecSet, TypeOK
<1>1. PICK a \in answers : /\ exec' \in ExecSet /\ exec'.pc = "publish"
                           /\ exec'.turn = exec.turn /\ exec'.answer = a
                           /\ a = "unknown" => s.status \in Final
  BY DEF Ended
<1>2. Form /\ s.recovery # None =>
          status'[Req] \notin {"none", "pending"} \/ chat = "closed" \/ exec'.pc = "cas"
  <2>1. ASSUME Form, s.recovery # None, status[Req] \in {"none", "pending"}, chat # "closed"
        PROVE  FALSE
    <3>1. exec.pc = "cas"
      BY <1>0, <2>1 DEF Ended, RecordInv
    <3> QED
      BY <2>1, <3>1
  <2> QED
    BY <2>1
<1>3. s = Rec \/ s.status \notin {"absent", "received", "accepted"}
  BY DEF Ended, Final
<1>4. s.status \notin Moving
  BY <1>0 DEF Ended, RecordInv, Moving, Final
<1>5. Form /\ w # "away" => exec'.pc \in Told \/ s.status \in Final
  <2>1. CASE w = agent[exec.turn] /\ w # "away" /\ Form
    <3>1. Rec.status \in Final \/ exec.pc \in Told
      BY <1>0, <2>1 DEF SentInv, MayReach, Cmd, Rec
    <3> QED
      BY <3>1 DEF Ended
  <2> QED
    BY <2>1
<1>6. Step(s, w)
  <2>1. /\ status' \in [Requests -> Statuses2] /\ stored' \in [Requests -> Asks \cup {None}]
        /\ claim' \in [Requests -> Commands \cup {None}] /\ faults' \in 0..MaxFaults
    BY <1>0 DEF TypeOK, Statuses2
  <2>2. exec' \in ExecSet /\ exec'.turn = exec.turn /\ exec'.pc # "idle" /\ exec'.pc \notin Chosen
    BY <1>1 DEF Chosen, Told
  <2> QED
    BY <1>2, <1>3, <1>4, <1>5, <2>1, <2>2 DEF Step, Ended, Frame
<1>7. Rec' = s /\ agent'[exec.turn] = w
  BY <1>0, <1>6, StepBasics
<1>8. StageInv' /\ ReadyInv'
  BY <1>1 DEF StageInv, ReadyInv, Early, Told, Chosen
<1>9. AnswerInv'
  <2>1. a = "failed" => w = "away"
    BY <1>0 DEF StageInv, Early
  <2>2. a \in {"unknown", "failed"} /\ a # None
    BY InteractiveAssumption DEF InteractiveAssumption, Verdicts2
  <2> QED
    BY <1>1, <1>7, <2>1, <2>2 DEF AnswerInv
<1> QED
  BY <1>6, <1>8, <1>9, StepKeeps

\* A refusal before the barrier.
LEMMA RefuseIs ==
    ASSUME IInv, Busy, Frame, FailBeforeDelivery,
           UNCHANGED <<status, stored, claim, table, faults, agent>>,
           exec.pc \in {"check", "claim", "cas"},
           exec.pc = "cas" => chat = "closed" \/ status[Req] \notin {"none", "pending"}
    PROVE  IInv'
<1>0. TypeOK /\ ExecTypes
  BY DEF IInv
<1>1. Present(Rec)
  BY <1>0, HasRecord DEF IInv, Core
<1>2. PICK s : Ended(s, {"failed", "unknown"})
  BY <1>0, <1>1, FailIs
<1>3. /\ agent' = [agent EXCEPT ![exec.turn] = agent[exec.turn]] /\ agent[exec.turn] \in Reach
  BY <1>0, Quiet
<1> QED
  BY <1>2, <1>3, EndIs DEF Early, Told

\* An answer of failure that leaves the record alone.
LEMMA FailedIs ==
    ASSUME IInv, Busy, Frame, Finish("failed"), Keep,
           UNCHANGED <<status, stored, claim, table, faults, agent>>,
           exec.pc \in {"check", "cas"},
           exec.pc = "cas" => chat = "closed" \/ status[Req] \notin {"none", "pending"}
    PROVE  IInv'
<1>0. TypeOK /\ ExecTypes /\ Cmd \in Commands /\ Rec \in Record
  BY Typed DEF IInv
<1>1. exec' \in ExecSet /\ exec'.pc = "publish" /\ exec'.turn = exec.turn
      /\ exec'.answer = "failed"
  BY <1>0, FinishIs DEF Verdicts2
<1>2. outbox' = [outbox EXCEPT ![Cmd] = Rec]
  BY <1>0, StoreIs
<1>3. Ended(Rec, {"failed"})
  BY <1>0, <1>1, <1>2 DEF Ended
<1>4. /\ agent' = [agent EXCEPT ![exec.turn] = agent[exec.turn]] /\ agent[exec.turn] \in Reach
  BY <1>0, Quiet
<1> QED
  BY <1>3, <1>4, EndIs DEF Early, Told

\* An answer of unknown delivery where the record says at most that it was about to leave.
LEMMA LostIs ==
    ASSUME IInv, Busy, Frame, Unknown,
           UNCHANGED <<status, stored, claim, table, faults>>,
           NEW w \in Reach, agent' = [agent EXCEPT ![exec.turn] = w],
           Rec.status \in {"intent_durable"} \cup Final,
           w = agent[exec.turn] \/ exec.pc = "forward",
           exec.pc \in {"barrier", "forward"}
    PROVE  IInv'
<1>0. TypeOK /\ ExecTypes
  BY DEF IInv
<1>1. PICK s : s.status \in Final /\ Ended(s, {"unknown"})
  BY <1>0, UnknownIs
<1> QED
  BY <1>1, EndIs DEF Told

\* What every execution may rely on.
LEMMA Running ==
    ASSUME IInv, Busy
    PROVE  /\ TypeOK /\ ExecTypes /\ exec \in ExecSet
           /\ StageInv /\ ReadyInv /\ RecordInv /\ ClaimInv
           /\ exec.turn \in Attempts /\ Cmd \in Commands /\ Cmd = exec.turn[1]
           /\ Req = P(Cmd) /\ Req \in Requests /\ Ask = asked[Cmd] /\ Ask \in Asks /\ Ask # None
           /\ Rec = outbox[Cmd] /\ Rec \in Record /\ Req # None
           /\ Present(Rec) /\ Rec.type = CommandType /\ status[Req] # "none"
<1>1. TypeOK /\ ExecTypes /\ StageInv /\ ReadyInv /\ RecordInv /\ ClaimInv
  BY DEF IInv, Core
<1>2. /\ exec.turn \in Attempts /\ Cmd \in Commands /\ Cmd = exec.turn[1]
      /\ Req = P(Cmd) /\ Req \in Requests /\ Ask = asked[Cmd] /\ Ask \in Asks /\ Ask # None
      /\ Rec = outbox[Cmd] /\ Rec \in Record /\ Req # None /\ exec \in ExecSet
  BY <1>1, Typed
<1>4. Present(Rec) /\ status[Req] # "none"
  BY <1>1, HasRecord DEF IInv, Core
<1>5. Rec.type = CommandType
  BY <1>1, <1>2, <1>4 DEF RecordInv
<1> QED
  BY <1>1, <1>2, <1>4, <1>5

\* A step that leaves document and agent alone and goes on.
LEMMA OnIs ==
    ASSUME IInv, Busy, Frame, NEW s, s \in Record, s.type = Rec.type,
           outbox' = [outbox EXCEPT ![Cmd] = s],
           s = Rec \/ s.status \notin {"absent", "received", "accepted"},
           Rec.status \in Final => s.status \in Final,
           s.status \in Moving => exec'.pc \in {"complete", "settle"},
           s.recovery = Rec.recovery \/ exec'.pc = "cas",
           exec.pc # "cas" \/ status[Req] \notin {"none", "pending"},
           UNCHANGED <<status, stored, table, faults, agent>>,
           claim' \in [Requests -> Commands \cup {None}],
           \A r \in Requests :
               claim'[r] = claim[r] \/ (claim[r] \in {None, Cmd} /\ claim'[r] = Cmd /\ r = Req),
           exec' \in ExecSet, exec'.turn = exec.turn, exec'.pc # "idle",
           exec.pc \in Early \cup Told,
           exec.pc \in Told => exec'.pc \in Told,
           exec'.pc \in Chosen => exec.pc \in Chosen \/ Form
    PROVE  Step(s, agent[exec.turn])
<1>0. /\ TypeOK /\ ExecTypes /\ RecordInv /\ StageInv /\ Cmd \in Commands /\ Req = P(Cmd)
      /\ Rec = outbox[Cmd]
  BY Running
<1>1. /\ agent' = [agent EXCEPT ![exec.turn] = agent[exec.turn]] /\ agent[exec.turn] \in Reach
      /\ status' \in [Requests -> Statuses2] /\ stored' \in [Requests -> Asks \cup {None}]
      /\ faults' \in 0..MaxFaults
  BY <1>0, Typed DEF TypeOK, Statuses2
<1>2. Form /\ s.recovery # None =>
          status'[Req] \notin {"none", "pending"} \/ chat = "closed" \/ exec'.pc = "cas"
  <2>1. ASSUME Form, s.recovery # None, status[Req] \in {"none", "pending"}, chat # "closed",
               exec'.pc # "cas"
        PROVE  FALSE
    BY <1>0, <2>1 DEF RecordInv
  <2> QED
    BY <2>1
<1>3. agent[exec.turn] # "away" => exec'.pc \in Told
  BY <1>0 DEF StageInv
<1> QED
  BY <1>1, <1>2, <1>3 DEF Step, Frame

LEMMA CheckFormKeeps ==
    ASSUME IInv, CheckForm
    PROVE  IInv'
<1> USE DEF At
<1>0. /\ Busy /\ Form /\ exec.pc = "check" /\ Frame
      /\ UNCHANGED <<status, stored, claim, table, faults, agent>>
  BY DEF CheckForm, Busy, Form, Frame, docs, timers, world, counts
<1>1. /\ TypeOK /\ exec \in ExecSet /\ Cmd \in Commands /\ Rec \in Record /\ Rec = outbox[Cmd]
      /\ agent[exec.turn] = "away" /\ exec.resumed = FALSE /\ exec.turn \in Attempts
      /\ Rec.status = "accepted" => Rec.barrier = FALSE /\ Rec.recovery = None
      /\ claim' \in [Requests -> Commands \cup {None}]
  BY <1>0, Running DEF StageInv, ReadyInv, RecordInv, Early, TypeOK
<1>2. CASE Req \notin table
  <2>1. Finish("failed") /\ Keep
    BY <1>2 DEF CheckForm
  <2> QED
    BY <1>0, <2>1, FailedIs
<1>3. CASE Req \in table /\ Rec.recovery # None
  <2>1. exec' = [exec EXCEPT !.pc = "claim", !.resumed = TRUE] /\ Keep
    BY <1>3 DEF CheckForm
  <2>2. exec' \in ExecSet /\ exec'.pc = "claim" /\ exec'.turn = exec.turn /\ exec'.resumed = TRUE
    BY <1>1, <2>1 DEF ExecSet, Pcs
  <2>3. outbox' = [outbox EXCEPT ![Cmd] = Rec]
    BY <1>1, <2>1, StoreIs
  <2>4. Rec.status \notin Moving
    BY <1>0, <1>1, Running DEF RecordInv
  <2>5. Step(Rec, "away")
    BY <1>0, <1>1, <2>2, <2>3, <2>4, OnIs DEF Early, Told, Chosen
  <2>6. Rec' = Rec /\ agent' = agent
    BY <1>0, <2>5, StepBasics
  <2>7. StageInv' /\ ReadyInv' /\ AnswerInv'
    BY <1>0, <1>1, <1>3, <2>2, <2>6
       DEF StageInv, ReadyInv, AnswerInv, Early, Told, Chosen, Form, Frame
  <2> QED
    BY <2>5, <2>7, StepKeeps
<1>4. CASE Req \in table /\ Rec.recovery = None /\ CanMarkIntentDurable(Rec)
  <2>1. Store(MarkIntentDurable(Rec)) /\ Goto("claim")
    BY <1>4 DEF CheckForm
  <2>2. /\ exec' \in ExecSet /\ exec'.pc = "claim" /\ exec'.turn = exec.turn
        /\ exec'.resumed = FALSE
    BY <1>1, <2>1, GotoIs DEF Pcs
  <2>3. PICK s : s = MarkIntentDurable(Rec)
    OBVIOUS
  <2>4. outbox' = [outbox EXCEPT ![Cmd] = s]
    BY <1>1, <2>1, <2>3, StoreIs
  <2>5. /\ s \in Record /\ s.type = Rec.type /\ s.status = "intent_durable"
        /\ s.barrier = Rec.barrier /\ s.recovery = Rec.recovery
    BY <1>1, <2>3, EarlySteps
  <2>6. Rec.status = "accepted"
    BY <1>4 DEF CanMarkIntentDurable, CanMove, AllowedTransition
  <2>7. Step(s, "away")
    BY <1>0, <1>1, <2>2, <2>4, <2>5, <2>6, OnIs DEF Early, Told, Chosen, Moving, Final
  <2>8. Rec' = s
    BY <2>7, StepBasics
  <2>9. StageInv' /\ ReadyInv' /\ AnswerInv'
    BY <1>0, <1>1, <2>2, <2>5, <2>6, <2>8
       DEF StageInv, ReadyInv, AnswerInv, Early, Told, Chosen, Form, Frame
  <2> QED
    BY <2>7, <2>9, StepKeeps
<1>5. CASE Req \in table /\ Rec.recovery = None /\ ~CanMarkIntentDurable(Rec)
  <2>1. FailBeforeDelivery
    BY <1>5 DEF CheckForm
  <2> QED
    BY <1>0, <2>1, RefuseIs
<1> QED
  BY <1>2, <1>3, <1>4, <1>5

LEMMA ClaimFormKeeps ==
    ASSUME IInv, ClaimForm
    PROVE  IInv'
<1> USE DEF At
<1>0. /\ Busy /\ Form /\ exec.pc = "claim" /\ Frame
      /\ UNCHANGED <<status, stored, table, faults, agent>>
  BY DEF ClaimForm, Busy, Form, Frame, docs, timers, world, counts
<1>1. /\ TypeOK /\ exec \in ExecSet /\ Cmd \in Commands /\ Rec \in Record /\ Rec = outbox[Cmd]
      /\ agent[exec.turn] = "away" /\ exec.turn \in Attempts /\ Req \in Requests
      /\ Req = P(Cmd) /\ Req # None /\ Present(Rec) /\ ReadyInv /\ RecordInv
  BY <1>0, Running DEF StageInv, Early
<1>2. CASE ~Claimable(Req, Cmd)
  <2>1. UNCHANGED claim /\ FailBeforeDelivery
    BY <1>2 DEF ClaimForm
  <2> QED
    BY <1>0, <2>1, RefuseIs
<1>3. CASE Claimable(Req, Cmd)
  <2>1. claim' = [claim EXCEPT ![Req] = Cmd]
    BY <1>3 DEF ClaimForm
  <2>2. /\ claim' \in [Requests -> Commands \cup {None}] /\ claim'[Req] = Cmd
        /\ \A r \in Requests :
              claim'[r] = claim[r] \/ (claim[r] \in {None, Cmd} /\ claim'[r] = Cmd /\ r = Req)
    BY <1>1, <1>3, <2>1 DEF TypeOK, Claimable
  <2>3. (Req \in Evidence /\ CanSetRecovery(Rec, Req)) \/ exec.resumed
    BY <1>0, <1>1, InteractiveAssumption
       DEF ReadyInv, CanSetRecovery, InteractiveAssumption, ExecSet
  <2>4. PICK s : s = (IF exec.resumed THEN Rec ELSE SetRecovery(Rec, Req))
    OBVIOUS
  <2>5. Store(s) \/ (Keep /\ s = Rec)
    BY <1>3, <2>3, <2>4 DEF ClaimForm
  <2>6. Goto("cas")
    BY <1>3, <2>3 DEF ClaimForm
  <2>7. /\ s \in Record /\ s.type = Rec.type /\ s.status = Rec.status /\ s.recovery # None
        /\ exec.resumed \/ s.barrier = Rec.barrier
    BY <1>0, <1>1, <2>3, <2>4, EarlySteps DEF ReadyInv
  <2>8. outbox' = [outbox EXCEPT ![Cmd] = s]
    BY <1>1, <2>5, StoreIs
  <2>9. exec' \in ExecSet /\ exec'.pc = "cas" /\ exec'.turn = exec.turn
    BY <1>1, <2>6, GotoIs DEF Pcs
  <2>10. Rec.status \in {"intent_durable"} \cup Final
    <3>1. Rec.status \notin Moving
      BY <1>0, <1>1 DEF RecordInv
    <3>2. Rec.status \notin {"absent", "received", "accepted"}
      BY <1>0, <1>1 DEF RecordInv, ReadyInv
    <3> QED
      BY <1>1, <3>1, <3>2 DEF Record, Statuses, LiveStatuses, Terminal, Final, Moving
  <2>11. Step(s, "away")
    BY <1>0, <1>1, <2>2, <2>7, <2>8, <2>9, <2>10, OnIs DEF Early, Told, Chosen, Moving, Final
  <2>12. Rec' = s /\ Cmd' = Cmd /\ P(Cmd)' = P(Cmd) /\ Req' = Req
    BY <1>1, <2>11, StepBasics
  <2>13. StageInv'
    BY <1>0, <1>1, <2>2, <2>9, <2>12 DEF StageInv, Early, Told, Chosen, Form, Frame, Owned
  <2>14. status[Req] = "pending" /\ chat # "closed" => Retryable(s)
    <3>1. ASSUME status[Req] = "pending", chat # "closed"
          PROVE  exec.resumed = FALSE
      BY <1>0, <1>1, <3>1 DEF ReadyInv, RecordInv, ExecSet
    <3> QED
      BY <1>0, <1>1, <2>7, <3>1 DEF ReadyInv, Retryable
  <2>15. ReadyInv' /\ AnswerInv'
    BY <1>0, <2>7, <2>9, <2>10, <2>12, <2>14
       DEF ReadyInv, AnswerInv, Form, Frame, Retryable
  <2> QED
    BY <2>11, <2>13, <2>15, StepKeeps
<1> QED
  BY <1>2, <1>3

\* The document takes the answer: the execution goes on to the barrier, or, when the write
\* did not persist, tells its client to try again.
LEMMA Decides ==
    ASSUME IInv, exec.pc = "cas", Frame, UNCHANGED <<outbox, claim, table, agent>>,
           chat # "closed", status[Req] = "pending",
           status' = [status EXCEPT ![Req] = IF Form THEN "responding" ELSE "resolved"],
           stored' = [stored EXCEPT ![Req] = Ask],
           faults' \in 0..MaxFaults, faults' = 0 => faults = 0,
           Goto("barrier") \/ Finish("retryable")
    PROVE  IInv'
<1>0. Busy
  BY DEF Busy
<1>1. /\ TypeOK /\ exec \in ExecSet /\ Cmd \in Commands /\ Rec \in Record /\ Rec = outbox[Cmd]
      /\ agent[exec.turn] = "away" /\ exec.turn \in Attempts /\ Req \in Requests
      /\ Req = P(Cmd) /\ Ask = asked[Cmd] /\ Ask # None /\ Ask \in Asks
      /\ ReadyInv /\ RecordInv /\ StageInv
  BY <1>0, Running DEF StageInv, Early
<1>2. /\ exec' \in ExecSet /\ exec'.turn = exec.turn /\ exec'.pc \in {"barrier", "publish"}
      /\ exec'.pc = "publish" => exec'.answer = "retryable"
  BY <1>1, GotoIs, FinishIs DEF Pcs, Verdicts2
<1>3. /\ status' \in [Requests -> Statuses2] /\ stored' \in [Requests -> Asks \cup {None}]
      /\ claim' \in [Requests -> Commands \cup {None}]
      /\ agent' = [agent EXCEPT ![exec.turn] = agent[exec.turn]] /\ agent[exec.turn] \in Reach
      /\ outbox' = [outbox EXCEPT ![Cmd] = Rec]
      /\ stored'[Req] = Ask /\ status'[Req] = IF Form THEN "responding" ELSE "resolved"
  BY <1>1 DEF TypeOK, Statuses2, Reach
<1>4. \A r \in Requests :
         /\ status'[r] = status[r]
               \/ (status[r] = "pending" /\ status'[r] = (IF Form THEN "responding" ELSE "resolved"))
         /\ stored'[r] = stored[r] \/ status[r] = "pending"
  BY <1>1 DEF TypeOK
<1>5. Rec.status \notin Moving
  BY <1>1 DEF RecordInv
<1>6. Step(Rec, "away")
  BY <1>0, <1>1, <1>2, <1>3, <1>4, <1>5 DEF Step, Frame
<1>7. /\ Rec' = Rec /\ Cmd' = Cmd /\ P(Cmd)' = P(Cmd) /\ Req' = Req /\ Form' = Form
      /\ (Owned(Cmd) => Owned(Cmd)')
  BY <1>1, <1>6, StepBasics
<1>8. Agreed(Cmd)'
  <2>1. asked'[Cmd] = Ask /\ stored'[Req] = Ask /\ kind' = kind
    BY <1>1, <1>3 DEF Frame
  <2>2. SameAnswer(stored'[Req], asked'[Cmd])
    BY <1>1, <2>1 DEF SameAnswer
  <2>3. kind' = "question" => ~Form
    BY DEF Form, Frame
  <2> QED
    BY <1>1, <1>3, <1>7, <2>1, <2>3 DEF Agreed, SameAnswer, Decided
<1>9. StageInv'
  BY <1>1, <1>2, <1>3, <1>7, <1>8 DEF StageInv, Early, Told, Chosen
<1>10. Form => Retryable(Rec)
  BY <1>1 DEF ReadyInv
<1>11. ReadyInv' /\ AnswerInv'
  <2>1. "retryable" # None
    BY InteractiveAssumption DEF InteractiveAssumption, Verdicts2
  <2>2. ReadyInv'
    BY <1>1, <1>2, <1>7, <1>10 DEF ReadyInv, Retryable
  <2>3. AnswerInv'
    BY <1>1, <1>2, <1>7, <1>10, <2>1 DEF AnswerInv, Retryable
  <2> QED
    BY <2>2, <2>3
<1> QED
  BY <1>6, <1>9, <1>11, StepKeeps

LEMMA PersistedIs ==
    ASSUME TypeOK, faults' = faults \/ (faults < MaxFaults /\ faults' = faults + 1)
    PROVE  faults' \in 0..MaxFaults /\ (faults' = 0 => faults = 0)
BY InteractiveAssumption DEF TypeOK, InteractiveAssumption

LEMMA BeginFormKeeps ==
    ASSUME IInv, BeginForm
    PROVE  IInv'
<1>1. /\ Form /\ exec.pc = "cas" /\ chat # "closed" /\ status[Req] = "pending" /\ Frame
      /\ UNCHANGED <<outbox, claim, table, agent>>
      /\ stored' = [stored EXCEPT ![Req] = Ask]
      /\ status' = [status EXCEPT ![Req] = IF Form THEN "responding" ELSE "resolved"]
  BY DEF BeginForm, At, Form, Frame, SetStatus, timers, world
<1>2. Goto("barrier") \/ Finish("retryable")
  BY DEF BeginForm, Persisted
<1>3. faults' \in 0..MaxFaults /\ (faults' = 0 => faults = 0)
  BY PersistedIs DEF BeginForm, Persisted, IInv
<1> QED
  BY <1>1, <1>2, <1>3, Decides

LEMMA ResolveQuestionKeeps ==
    ASSUME IInv, ResolveQuestion
    PROVE  IInv'
<1>1. /\ ~Form /\ exec.pc = "cas" /\ chat # "closed" /\ status[Req] = "pending" /\ Frame
      /\ UNCHANGED <<outbox, claim, table, agent>>
      /\ stored' = [stored EXCEPT ![Req] = Ask]
      /\ status' = [status EXCEPT ![Req] = IF Form THEN "responding" ELSE "resolved"]
  BY DEF ResolveQuestion, OpenQuestion, At, Form, Frame, SetStatus, timers, world
<1>2. Goto("barrier") \/ Finish("retryable")
  BY DEF ResolveQuestion, Persisted
<1>3. faults' \in 0..MaxFaults /\ (faults' = 0 => faults = 0)
  BY PersistedIs DEF ResolveQuestion, Persisted, IInv
<1> QED
  BY <1>1, <1>2, <1>3, Decides

LEMMA BeginAgainKeeps ==
    ASSUME IInv, BeginAgain
    PROVE  IInv'
<1>0. /\ Busy /\ Form /\ exec.pc = "cas" /\ Frame /\ status[Req] # "pending"
      /\ UNCHANGED <<status, stored, claim, table, faults, agent>>
  BY DEF BeginAgain, At, Busy, Form, Frame, docs, timers, world, counts
<1>1. /\ TypeOK /\ exec \in ExecSet /\ Cmd \in Commands /\ Rec \in Record /\ Rec = outbox[Cmd]
      /\ agent[exec.turn] = "away" /\ exec.turn \in Attempts /\ Req = P(Cmd) /\ Ask = asked[Cmd]
      /\ status[Req] # "none" /\ ReadyInv /\ RecordInv /\ StageInv
      /\ claim' \in [Requests -> Commands \cup {None}]
  BY <1>0, Running DEF StageInv, Early, TypeOK
<1>2. CASE ~SameResponseAgain(Req)
  <2>1. FailBeforeDelivery
    BY <1>2 DEF BeginAgain
  <2> QED
    BY <1>0, <1>1, <2>1, RefuseIs
<1>3. CASE SameResponseAgain(Req)
  <2>1. exec' = [exec EXCEPT !.pc = "barrier", !.replay = TRUE] /\ Keep
    BY <1>3 DEF BeginAgain
  <2>2. exec' \in ExecSet /\ exec'.pc = "barrier" /\ exec'.turn = exec.turn
    BY <1>1, <2>1 DEF ExecSet, Pcs
  <2>3. outbox' = [outbox EXCEPT ![Cmd] = Rec]
    BY <1>1, <2>1, StoreIs
  <2>4. Rec.status \notin Moving
    BY <1>0, <1>1 DEF RecordInv
  <2>5. Step(Rec, "away")
    BY <1>0, <1>1, <2>2, <2>3, <2>4, OnIs DEF Early, Told, Chosen
  <2>6. /\ Rec' = Rec /\ Cmd' = Cmd /\ (Agreed(Cmd) => Agreed(Cmd)')
        /\ (Owned(Cmd) => Owned(Cmd)') /\ Form' = Form
    BY <1>1, <2>5, StepBasics
  <2>7. Agreed(Cmd)
    BY <1>0, <1>1, <1>3 DEF SameResponseAgain, Agreed, Decided, Form
  <2>8. StageInv'
    BY <1>0, <1>1, <2>2, <2>6, <2>7 DEF StageInv, Early, Told, Chosen
  <2>9. ReadyInv' /\ AnswerInv'
    BY <1>0, <1>1, <2>2, <2>6 DEF ReadyInv, AnswerInv
  <2> QED
    BY <2>5, <2>8, <2>9, StepKeeps
<1> QED
  BY <1>2, <1>3

LEMMA CheckQuestionKeeps ==
    ASSUME IInv, CheckQuestion
    PROVE  IInv'
<1> USE DEF At
<1>0. /\ Busy /\ ~Form /\ exec.pc = "check" /\ Frame
      /\ UNCHANGED <<status, stored, claim, table, faults, agent>>
  BY DEF CheckQuestion, Busy, Form, Frame, docs, timers, world, counts
<1>1. /\ TypeOK /\ exec \in ExecSet /\ Cmd \in Commands /\ Rec \in Record /\ Rec = outbox[Cmd]
      /\ agent[exec.turn] = "away" /\ exec.turn \in Attempts /\ agent[exec.turn] \in Reach
      /\ claim' \in [Requests -> Commands \cup {None}]
      /\ agent' = [agent EXCEPT ![exec.turn] = agent[exec.turn]]
      /\ status' \in [Requests -> Statuses2] /\ stored' \in [Requests -> Asks \cup {None}]
      /\ faults' \in 0..MaxFaults
      /\ Rec.status \notin Moving
  BY <1>0, Running DEF StageInv, RecordInv, Early, TypeOK, Reach, Statuses2
<1>2. CASE Req \notin table
  <2>1. Finish("failed") /\ Keep
    BY <1>2 DEF CheckQuestion
  <2> QED
    BY <1>0, <2>1, FailedIs
<1>3. CASE Req \in table /\ CanMarkIntentDurable(Rec)
  <2>1. Store(MarkIntentDurable(Rec)) /\ Goto("cas")
    BY <1>3 DEF CheckQuestion
  <2>2. exec' \in ExecSet /\ exec'.pc = "cas" /\ exec'.turn = exec.turn
    BY <1>1, <2>1, GotoIs DEF Pcs
  <2>3. PICK s : s = MarkIntentDurable(Rec)
    OBVIOUS
  <2>4. outbox' = [outbox EXCEPT ![Cmd] = s]
    BY <1>1, <2>1, <2>3, StoreIs
  <2>5. s \in Record /\ s.type = Rec.type /\ s.status = "intent_durable"
    BY <1>1, <2>3, EarlySteps
  <2>6. Rec.status = "accepted"
    BY <1>3 DEF CanMarkIntentDurable, CanMove, AllowedTransition
  <2>7. Step(s, "away")
    BY <1>0, <1>1, <2>2, <2>4, <2>5, <2>6, OnIs DEF Early, Told, Chosen, Moving, Final
  <2>8. Rec' = s /\ Form' = Form
    BY <2>7, StepBasics
  <2>9. StageInv' /\ ReadyInv' /\ AnswerInv'
    BY <1>0, <1>1, <2>2, <2>5, <2>8
       DEF StageInv, ReadyInv, AnswerInv, Early, Told, Chosen
  <2> QED
    BY <2>7, <2>9, StepKeeps
<1>4. CASE Req \in table /\ ~CanMarkIntentDurable(Rec)
  <2>1. Finish("retryable") /\ Keep
    BY <1>4 DEF CheckQuestion
  <2>2. /\ exec' \in ExecSet /\ exec'.pc = "publish" /\ exec'.turn = exec.turn
        /\ exec'.answer = "retryable"
    BY <1>1, <2>1, FinishIs DEF Verdicts2
  <2>3. outbox' = [outbox EXCEPT ![Cmd] = Rec]
    BY <1>1, <2>1, StoreIs
  <2>4. Step(Rec, "away")
    BY <1>0, <1>1, <2>2, <2>3, OnIs DEF Early, Told, Chosen
  <2>5. Rec' = Rec /\ Form' = Form /\ agent' = agent
    BY <1>0, <2>4, StepBasics
  <2>6. StageInv' /\ ReadyInv'
    BY <2>2 DEF StageInv, ReadyInv, Early, Told, Chosen
  <2>7. AnswerInv'
    BY <1>0, <1>1, <2>2, <2>5, InteractiveAssumption
       DEF AnswerInv, InteractiveAssumption, Verdicts2
  <2> QED
    BY <2>4, <2>6, <2>7, StepKeeps
<1> QED
  BY <1>2, <1>3, <1>4

LEMMA ResolvedBeforeKeeps ==
    ASSUME IInv, ResolvedBefore
    PROVE  IInv'
<1>0. /\ Busy /\ ~Form /\ exec.pc = "cas" /\ Frame /\ status[Req] # "pending"
      /\ UNCHANGED <<outbox, status, stored, claim, table, faults, agent>>
  BY DEF ResolvedBefore, At, OpenQuestion, Busy, Form, Frame, docs, timers, world, counts
<1>1. /\ TypeOK /\ ExecTypes /\ exec \in ExecSet /\ Cmd \in Commands /\ Rec \in Record
      /\ agent[exec.turn] = "away" /\ exec.turn \in Attempts /\ Rec = outbox[Cmd]
      /\ status[Req] # "none" /\ claim' \in [Requests -> Commands \cup {None}]
      /\ Rec.status \notin Moving
  BY <1>0, Running DEF StageInv, Early, RecordInv, TypeOK
<1>2. outbox' = [outbox EXCEPT ![Cmd] = Rec]
  BY <1>0, <1>1 DEF TypeOK
<1>3. PICK a \in {"duplicate", "failed"} : Finish(a)
  BY DEF ResolvedBefore
<1>4. exec' \in ExecSet /\ exec'.pc = "publish" /\ exec'.turn = exec.turn /\ exec'.answer = a
  BY <1>1, <1>3, FinishIs DEF Verdicts2
<1>5. Step(Rec, "away")
  BY <1>0, <1>1, <1>2, <1>4, OnIs DEF Early, Told, Chosen
<1>6. Form' = Form /\ agent' = agent
  BY <1>0, <1>5, StepBasics
<1>7. StageInv' /\ ReadyInv'
  BY <1>4 DEF StageInv, ReadyInv, Early, Told, Chosen
<1>8. AnswerInv'
  BY <1>0, <1>1, <1>4, <1>6, InteractiveAssumption
     DEF AnswerInv, InteractiveAssumption, Verdicts2
<1> QED
  BY <1>5, <1>7, <1>8, StepKeeps

LEMMA AnswerToClosedKeeps ==
    ASSUME IInv, AnswerToClosed
    PROVE  IInv'
<1>1. /\ Busy /\ exec.pc = "cas" /\ Frame /\ chat = "closed" /\ Finish("failed") /\ Keep
      /\ UNCHANGED <<status, stored, claim, table, faults, agent>>
  BY DEF AnswerToClosed, Busy, Frame, Keep, docs, timers, world, counts
<1> QED
  BY <1>1, FailedIs

LEMMA BarrierKeeps ==
    ASSUME IInv, Barrier
    PROVE  IInv'
<1>0. /\ Busy /\ exec.pc = "barrier" /\ Frame
      /\ UNCHANGED <<status, stored, claim, table, faults, agent>>
  BY DEF Barrier, Busy, Frame, docs, timers, world, counts
<1>1. /\ TypeOK /\ ExecTypes /\ exec \in ExecSet /\ Cmd \in Commands /\ Rec \in Record
      /\ agent[exec.turn] = "away" /\ exec.turn \in Attempts /\ Rec = outbox[Cmd]
      /\ agent[exec.turn] \in Reach /\ claim' \in [Requests -> Commands \cup {None}]
      /\ agent' = [agent EXCEPT ![exec.turn] = agent[exec.turn]]
      /\ Rec.status \in {"intent_durable"} \cup Final
      /\ Agreed(Cmd) /\ (Form => Owned(Cmd))
  BY <1>0, Running DEF StageInv, ReadyInv, Early, Chosen, TypeOK, Reach
<1>2. CASE (kind = "elicitation" => chat = "alive") /\ CanMarkNoRedeliveryBarrier(Rec)
  <2>1. Store(RaiseBarrier(Rec)) /\ Goto("forward")
    BY <1>2 DEF Barrier
  <2>2. exec' \in ExecSet /\ exec'.pc = "forward" /\ exec'.turn = exec.turn
    BY <1>1, <2>1, GotoIs DEF Pcs
  <2>3. PICK s : s = RaiseBarrier(Rec)
    OBVIOUS
  <2>4. outbox' = [outbox EXCEPT ![Cmd] = s]
    BY <1>1, <2>1, <2>3, StoreIs
  <2>5. s \in Record /\ s.type = Rec.type /\ s.status = Rec.status /\ s.recovery = Rec.recovery
    BY <1>1, <2>3, EarlySteps
  <2>6. Rec.status = "intent_durable"
    BY <1>2 DEF CanMarkNoRedeliveryBarrier
  <2>7. Step(s, "away")
    BY <1>0, <1>1, <2>2, <2>4, <2>5, <2>6, OnIs DEF Early, Told, Chosen, Moving
  <2>8. /\ Rec' = s /\ Cmd' = Cmd /\ Form' = Form
        /\ Agreed(Cmd)' /\ (Form => Owned(Cmd)')
    BY <1>1, <2>7, StepBasics
  <2>9. StageInv'
    BY <1>0, <1>1, <2>2, <2>8 DEF StageInv, Early, Told, Chosen
  <2>10. ReadyInv' /\ AnswerInv'
    BY <2>2, <2>5, <2>6, <2>8 DEF ReadyInv, AnswerInv
  <2> QED
    BY <2>7, <2>9, <2>10, StepKeeps
<1>3. CASE ~((kind = "elicitation" => chat = "alive") /\ CanMarkNoRedeliveryBarrier(Rec))
  <2>1. Unknown
    BY <1>3 DEF Barrier
  <2> QED
    BY <1>0, <1>1, <2>1, LostIs
<1> QED
  BY <1>2, <1>3

LEMMA ForwardAckedKeeps ==
    ASSUME IInv, ForwardAcked
    PROVE  IInv'
<1>0. /\ Busy /\ exec.pc = "forward" /\ Frame
      /\ UNCHANGED <<outbox, status, stored, claim, table, faults>>
      /\ agent' = [agent EXCEPT ![exec.turn] = "taken"] /\ Goto("finish")
  BY DEF ForwardAcked, Busy, Frame, docs, timers, world, counts
<1>1. /\ TypeOK /\ ExecTypes /\ exec \in ExecSet /\ Cmd \in Commands /\ Rec \in Record
      /\ exec.turn \in Attempts /\ Rec = outbox[Cmd] /\ Req \in Requests
      /\ claim' \in [Requests -> Commands \cup {None}]
      /\ status' \in [Requests -> Statuses2] /\ stored' \in [Requests -> Asks \cup {None}]
      /\ faults' \in 0..MaxFaults
      /\ Rec.status = "intent_durable" /\ Agreed(Cmd) /\ (Form => Owned(Cmd)) /\ Req = P(Cmd)
  BY <1>0, Running DEF StageInv, ReadyInv, Chosen, TypeOK, Statuses2
<1>2. exec' \in ExecSet /\ exec'.pc = "finish" /\ exec'.turn = exec.turn
  BY <1>0, <1>1, GotoIs DEF Pcs
<1>3. outbox' = [outbox EXCEPT ![Cmd] = Rec]
  BY <1>0, <1>1 DEF TypeOK
<1>4. Step(Rec, "taken")
  BY <1>0, <1>1, <1>2, <1>3 DEF Step, Frame, Agreed, Decided, Told, Chosen, Moving, Reach
<1>5. /\ Rec' = Rec /\ Cmd' = Cmd /\ Form' = Form /\ agent'[exec.turn] = "taken"
      /\ Agreed(Cmd)' /\ (Form => Owned(Cmd)')
  BY <1>1, <1>4, StepBasics
<1>6. StageInv'
  BY <1>2, <1>5 DEF StageInv, Early, Told, Chosen
<1>7. ReadyInv' /\ AnswerInv'
  BY <1>1, <1>2, <1>5 DEF ReadyInv, AnswerInv
<1> QED
  BY <1>4, <1>6, <1>7, StepKeeps

LEMMA ForwardNotDeliveredKeeps ==
    ASSUME IInv, ForwardNotDelivered
    PROVE  IInv'
<1>0. /\ Busy /\ exec.pc = "forward" /\ Frame
      /\ UNCHANGED <<status, stored, claim, table, faults, agent>>
  BY DEF ForwardNotDelivered, Busy, Frame, docs, timers, world, counts
<1>1. /\ TypeOK /\ ExecTypes /\ exec \in ExecSet /\ Cmd \in Commands /\ Rec \in Record
      /\ agent[exec.turn] = "away" /\ exec.turn \in Attempts /\ Rec = outbox[Cmd]
      /\ agent[exec.turn] \in Reach /\ claim' \in [Requests -> Commands \cup {None}]
      /\ agent' = [agent EXCEPT ![exec.turn] = agent[exec.turn]]
      /\ Rec.status = "intent_durable"
  BY <1>0, Running DEF StageInv, ReadyInv, Early, TypeOK, Reach
<1>2. PICK code \in {"AGENT_UNAVAILABLE", "INSTANCE_OFFLINE"} :
         \/ Unknown
         \/ /\ CanMarkRecoveryNotDelivered(Rec)
            /\ Store(LowerBarrier(Rec, FromErrorCode(code))) /\ Finish("retryable")
  BY DEF ForwardNotDelivered
<1>3. CASE Unknown
  BY <1>0, <1>1, <1>3, LostIs
<1>4. CASE /\ CanMarkRecoveryNotDelivered(Rec)
           /\ Store(LowerBarrier(Rec, FromErrorCode(code))) /\ Finish("retryable")
  <2>1. /\ exec' \in ExecSet /\ exec'.pc = "publish" /\ exec'.turn = exec.turn
        /\ exec'.answer = "retryable"
    BY <1>1, <1>4, FinishIs DEF Verdicts2
  <2>2. PICK s : s = LowerBarrier(Rec, FromErrorCode(code))
    OBVIOUS
  <2>3. outbox' = [outbox EXCEPT ![Cmd] = s]
    BY <1>1, <1>4, <2>2, StoreIs
  <2>4. /\ s \in Record /\ s.type = Rec.type /\ s.status = Rec.status /\ s.barrier = FALSE
        /\ s.recovery = Rec.recovery
    <3>1. code \in Codes
      BY DEF Codes
    <3> QED
      BY <1>1, <2>2, <3>1, EarlySteps
  <2>5. Rec.recovery # None
    BY <1>4 DEF CanMarkRecoveryNotDelivered
  <2>6. Step(s, "away")
    BY <1>0, <1>1, <2>1, <2>3, <2>4, OnIs DEF Early, Told, Chosen, Moving
  <2>7. Rec' = s /\ Form' = Form /\ agent' = agent
    BY <1>0, <2>6, StepBasics
  <2>8. StageInv' /\ ReadyInv'
    BY <2>1 DEF StageInv, ReadyInv, Early, Told, Chosen
  <2>9. AnswerInv'
    BY <1>1, <2>1, <2>4, <2>5, <2>7, InteractiveAssumption
       DEF AnswerInv, Retryable, InteractiveAssumption, Verdicts2
  <2> QED
    BY <2>6, <2>8, <2>9, StepKeeps
<1> QED
  BY <1>2, <1>3, <1>4

LEMMA ForwardUnknownKeeps ==
    ASSUME IInv, ForwardUnknown
    PROVE  IInv'
<1>0. /\ Busy /\ exec.pc = "forward" /\ Frame /\ Unknown
      /\ UNCHANGED <<status, stored, claim, table, faults>>
  BY DEF ForwardUnknown, TimeoutIsUnknown, Busy, Frame, docs, timers, world, counts
<1>1. PICK w \in {"away", "wire"} : agent' = [agent EXCEPT ![exec.turn] = w]
  BY DEF ForwardUnknown
<1>2. w \in Reach /\ Rec.status = "intent_durable"
  BY <1>0, Running DEF ReadyInv, Reach
<1> QED
  BY <1>0, <1>1, <1>2, LostIs

LEMMA ConfirmFormKeeps ==
    ASSUME IInv, ConfirmForm
    PROVE  IInv'
<1>0. /\ Busy /\ Form /\ exec.pc = "finish" /\ Frame
      /\ UNCHANGED <<status, stored, claim, table, faults, agent>>
  BY DEF ConfirmForm, At, Busy, Form, Frame, docs, timers, world, counts
<1>1. /\ TypeOK /\ ExecTypes /\ exec \in ExecSet /\ Cmd \in Commands /\ Rec \in Record
      /\ agent[exec.turn] = "taken" /\ exec.turn \in Attempts /\ Rec = outbox[Cmd]
      /\ claim' \in [Requests -> Commands \cup {None}]
      /\ Rec.status = "intent_durable" /\ Agreed(Cmd) /\ Owned(Cmd)
  BY <1>0, Running DEF StageInv, ReadyInv, Told, Chosen, TypeOK
<1>2. CanMarkDispatched(Rec)
  BY <1>1 DEF CanMarkDispatched, CanMove, AllowedTransition
<1>3. Store(MarkDeliveryConfirmed(MarkDispatched(Rec))) /\ Goto("complete")
  BY <1>2 DEF ConfirmForm
<1>4. exec' \in ExecSet /\ exec'.pc = "complete" /\ exec'.turn = exec.turn
  BY <1>1, <1>3, GotoIs DEF Pcs
<1>5. PICK s : s = MarkDeliveryConfirmed(MarkDispatched(Rec))
  OBVIOUS
<1>6. outbox' = [outbox EXCEPT ![Cmd] = s]
  BY <1>1, <1>3, <1>5, StoreIs
<1>7. /\ s \in Record /\ s.type = Rec.type /\ s.status = "delivery_confirmed"
      /\ s.recovery = Rec.recovery
  BY <1>1, <1>5, LateSteps
<1>8. Step(s, "taken")
  BY <1>0, <1>1, <1>4, <1>6, <1>7, OnIs DEF Early, Told, Chosen, Moving, Final
<1>9. /\ Rec' = s /\ Cmd' = Cmd /\ Form' = Form /\ Agreed(Cmd)' /\ Owned(Cmd)'
  BY <1>1, <1>8, StepBasics
<1>10. StageInv'
  BY <1>0, <1>1, <1>4, <1>9 DEF StageInv, Early, Told, Chosen
<1>11. ReadyInv' /\ AnswerInv'
  BY <1>4, <1>7, <1>9 DEF ReadyInv, AnswerInv
<1> QED
  BY <1>8, <1>10, <1>11, StepKeeps

LEMMA CompleteFormKeeps ==
    ASSUME IInv, CompleteForm
    PROVE  IInv'
<1>0. /\ Busy /\ Form /\ exec.pc = "complete" /\ Frame
      /\ UNCHANGED <<stored, claim, table, agent>>
  BY DEF CompleteForm, At, Busy, Form, Frame, docs, timers, world, counts
<1>1. /\ TypeOK /\ ExecTypes /\ exec \in ExecSet /\ Cmd \in Commands /\ Rec \in Record
      /\ agent[exec.turn] = "taken" /\ exec.turn \in Attempts /\ Rec = outbox[Cmd]
      /\ Req \in Requests /\ Req = P(Cmd)
      /\ claim' \in [Requests -> Commands \cup {None}]
      /\ agent' = [agent EXCEPT ![exec.turn] = agent[exec.turn]]
      /\ stored' \in [Requests -> Asks \cup {None}]
      /\ Rec.status = "delivery_confirmed" /\ Agreed(Cmd) /\ Owned(Cmd)
  BY <1>0, Running DEF StageInv, ReadyInv, Told, Chosen, TypeOK
<1>2. /\ status' \in [Requests -> Statuses2]
      /\ \A r \in Requests : status'[r] = status[r]
                             \/ (r = Req /\ status[r] = "responding" /\ status'[r] = "resolved")
      /\ status'[Req] \notin {"none", "pending"}
  BY <1>1 DEF CompleteForm, SetStatus, TypeOK, Statuses2, Agreed, Decided
<1>3. faults' \in 0..MaxFaults /\ (faults' = 0 => faults = 0)
  BY <1>1, PersistedIs DEF CompleteForm, Persisted
<1>4. CASE Goto("settle") /\ Keep
  <2>1. exec' \in ExecSet /\ exec'.pc = "settle" /\ exec'.turn = exec.turn
    BY <1>1, <1>4, GotoIs DEF Pcs
  <2>2. outbox' = [outbox EXCEPT ![Cmd] = Rec]
    BY <1>1, <1>4, StoreIs
  <2>3. Step(Rec, "taken")
    BY <1>0, <1>1, <1>2, <1>3, <2>1, <2>2 DEF Step, Frame, Told, Chosen, Reach, Final
  <2>4. /\ Rec' = Rec /\ Cmd' = Cmd /\ Form' = Form /\ Agreed(Cmd)' /\ Owned(Cmd)'
    BY <1>1, <2>3, StepBasics
  <2>5. StageInv'
    BY <1>0, <1>1, <2>1, <2>4 DEF StageInv, Early, Told, Chosen
  <2>6. ReadyInv' /\ AnswerInv'
    BY <1>1, <2>1, <2>4 DEF ReadyInv, AnswerInv
  <2> QED
    BY <2>3, <2>5, <2>6, StepKeeps
<1>5. CASE Unknown
  <2>1. PICK s : s.status \in Final /\ Ended(s, {"unknown"})
    BY <1>0, <1>1, <1>5, UnknownIs
  <2>2. exec' \in ExecSet /\ exec'.pc = "publish" /\ exec'.turn = exec.turn
        /\ exec'.answer = "unknown"
    BY <2>1 DEF Ended
  <2>3. Step(s, "taken")
    BY <1>0, <1>1, <1>2, <1>3, <2>1, <2>2
       DEF Step, Frame, Ended, Told, Chosen, Reach, Final, Moving
  <2>4. Rec' = s
    BY <2>3, StepBasics
  <2>5. StageInv' /\ ReadyInv'
    BY <2>2 DEF StageInv, ReadyInv, Early, Told, Chosen
  <2>6. AnswerInv'
    BY <2>1, <2>2, <2>4, InteractiveAssumption DEF AnswerInv, InteractiveAssumption, Verdicts2
  <2> QED
    BY <2>3, <2>5, <2>6, StepKeeps
<1>6. (Goto("settle") /\ Keep) \/ Unknown
  BY DEF CompleteForm, Persisted, Keep
<1> QED
  BY <1>4, <1>5, <1>6

LEMMA SettleFormKeeps ==
    ASSUME IInv, SettleForm
    PROVE  IInv'
<1>0. /\ Busy /\ Form /\ exec.pc = "settle" /\ Frame
      /\ UNCHANGED <<status, stored, claim, faults, agent>>
  BY DEF SettleForm, At, Busy, Form, Frame, docs, timers, world, counts
<1>1. /\ TypeOK /\ ExecTypes /\ exec \in ExecSet /\ Cmd \in Commands /\ Rec \in Record
      /\ agent[exec.turn] = "taken" /\ exec.turn \in Attempts /\ Rec = outbox[Cmd]
      /\ Req = P(Cmd) /\ agent' = [agent EXCEPT ![exec.turn] = agent[exec.turn]]
      /\ claim' \in [Requests -> Commands \cup {None}]
      /\ status' \in [Requests -> Statuses2] /\ stored' \in [Requests -> Asks \cup {None}]
      /\ faults' \in 0..MaxFaults
      /\ Rec.status = "delivery_confirmed" /\ Agreed(Cmd)
  BY <1>0, Running DEF StageInv, ReadyInv, Told, Chosen, TypeOK, Statuses2
<1>2. PICK a \in {"duplicate", "committed"} :
         /\ Store(MarkCompleted(MarkProjectionCommitted(ClearRecovery(Rec))))
         /\ table' = table \ {Req}
         /\ Finish(a)
  BY <1>1 DEF SettleForm, CanClearRecovery
<1>3. exec' \in ExecSet /\ exec'.pc = "publish" /\ exec'.turn = exec.turn /\ exec'.answer = a
  BY <1>1, <1>2, FinishIs DEF Verdicts2
<1>4. PICK s : s = MarkCompleted(MarkProjectionCommitted(ClearRecovery(Rec)))
  OBVIOUS
<1>5. outbox' = [outbox EXCEPT ![Cmd] = s]
  BY <1>1, <1>2, <1>4, StoreIs
<1>6. s \in Record /\ s.type = Rec.type /\ s.status = "completed" /\ s.recovery = None
  BY <1>1, <1>4, LateSteps
<1>7. status[Req] \in Decided
  BY <1>1 DEF Agreed
<1>8. Step(s, "taken")
  BY <1>0, <1>1, <1>2, <1>3, <1>5, <1>6, <1>7
     DEF Step, Frame, Told, Chosen, Reach, Final, Moving
<1>9. Form' = Form /\ agent'[exec.turn] = "taken"
  BY <1>1, <1>8, StepBasics
<1>10. StageInv' /\ ReadyInv'
  BY <1>3 DEF StageInv, ReadyInv, Early, Told, Chosen
<1>11. AnswerInv'
  BY <1>0, <1>3, <1>9, InteractiveAssumption DEF AnswerInv, InteractiveAssumption, Verdicts2
<1> QED
  BY <1>8, <1>10, <1>11, StepKeeps

LEMMA SettleQuestionKeeps ==
    ASSUME IInv, SettleQuestion
    PROVE  IInv'
<1>0. /\ Busy /\ ~Form /\ exec.pc = "finish" /\ Frame
      /\ UNCHANGED <<status, stored, claim, faults, agent>>
      /\ table' = table \ {Req} /\ Finish("committed")
  BY DEF SettleQuestion, At, Busy, Form, Frame, docs, timers, world, counts
<1>1. /\ TypeOK /\ ExecTypes /\ exec \in ExecSet /\ Cmd \in Commands /\ Rec \in Record
      /\ agent[exec.turn] = "taken" /\ exec.turn \in Attempts /\ Rec = outbox[Cmd]
      /\ Req = P(Cmd) /\ agent' = [agent EXCEPT ![exec.turn] = agent[exec.turn]]
      /\ claim' \in [Requests -> Commands \cup {None}]
      /\ status' \in [Requests -> Statuses2] /\ stored' \in [Requests -> Asks \cup {None}]
      /\ faults' \in 0..MaxFaults
      /\ Rec.status = "intent_durable" /\ Agreed(Cmd)
  BY <1>0, Running DEF StageInv, ReadyInv, Told, Chosen, TypeOK, Statuses2
<1>2. ~CanMarkCompleted(Rec)
  BY <1>1 DEF CanMarkCompleted, CanMove, AllowedTransition
<1>3. outbox' = [outbox EXCEPT ![Cmd] = Rec]
  BY <1>1, <1>2, StoreIs DEF SettleQuestion
<1>4. /\ exec' \in ExecSet /\ exec'.pc = "publish" /\ exec'.turn = exec.turn
      /\ exec'.answer = "committed"
  BY <1>0, <1>1, FinishIs DEF Verdicts2
<1>5. status[Req] \in Decided
  BY <1>1 DEF Agreed
<1>6. Step(Rec, "taken")
  BY <1>0, <1>1, <1>3, <1>4, <1>5 DEF Step, Frame, Told, Chosen, Reach, Final, Moving
<1>7. Form' = Form /\ agent'[exec.turn] = "taken"
  BY <1>1, <1>6, StepBasics
<1>8. StageInv' /\ ReadyInv'
  BY <1>4 DEF StageInv, ReadyInv, Early, Told, Chosen
<1>9. AnswerInv'
  BY <1>0, <1>4, <1>7, InteractiveAssumption DEF AnswerInv, InteractiveAssumption, Verdicts2
<1> QED
  BY <1>6, <1>8, <1>9, StepKeeps

-----------------------------------------------------------------------------
(* The queue of the executor.                                              *)
LEMMA Tails ==
    ASSUME NEW q \in Seq(Attempts), q # <<>>
    PROVE  /\ 1 \in DOMAIN q /\ Head(q) = q[1] /\ Tail(q) \in Seq(Attempts)
           /\ \A i \in DOMAIN Tail(q) : /\ i \in Nat /\ i > 0 /\ i + 1 \in DOMAIN q
                                        /\ Tail(q)[i] = q[i + 1]
<1> HIDE DEF Attempts
<1> QED
  OBVIOUS

LEMMA Appended ==
    ASSUME NEW q \in Seq(Attempts), NEW t \in Attempts
    PROVE  /\ Append(q, t) \in Seq(Attempts)
           /\ \A i \in DOMAIN Append(q, t) :
                 \/ i \in DOMAIN q /\ Append(q, t)[i] = q[i]
                 \/ i = Len(q) + 1 /\ Append(q, t)[i] = t
           /\ \A i \in DOMAIN q : i \in Nat /\ i <= Len(q)
           /\ Len(q) \in Nat
<1> HIDE DEF Attempts
<1> QED
  OBVIOUS

LEMMA StartNextKeeps ==
    ASSUME IInv, StartNext
    PROVE  IInv'
<1>0. /\ TypeOK /\ ExecTypes /\ LineInv /\ RecordInv /\ SentInv /\ exec = Idle
      /\ queue # <<>> /\ queue \in Seq(Attempts) /\ exec.pc = "idle"
  BY DEF IInv, Core, StartNext, TypeOK, Idle
<1>1. PICK t : t = queue[1]
  OBVIOUS
<1>2. t \in Attempts /\ 1 \in DOMAIN queue /\ t[1] \in Commands
  BY <1>0, <1>1, Tails, Queued
<1>3. exec' = [Idle EXCEPT !.turn = t, !.pc = "check"] /\ queue' = Tail(queue)
  BY <1>0, <1>1, Tails DEF StartNext
<1>4. exec' \in ExecSet /\ exec'.pc = "check" /\ exec'.turn = t /\ exec'.resumed = FALSE
  BY <1>2, <1>3 DEF Idle, ExecSet, Pcs
<1>5. /\ UNCHANGED <<kind, asked, outbox, tries, fallbacks, table, claim, others, status, stored,
                     reg, timer, expiry, agent, chat, link, stale, cleanup, faults, drops, replays,
                     replayed, lost, verdict>>
  BY DEF StartNext, docs, timers, world, counts
<1>6. \A i \in DOMAIN queue' : /\ i \in Nat /\ i > 0 /\ i + 1 \in DOMAIN queue
                               /\ queue'[i] = queue[i + 1]
  BY <1>0, <1>3, Tails
<1>7. TypeOK' /\ ExecTypes'
  <2>1. queue' \in Seq(Attempts)
    BY <1>0, <1>3, Tails
  <2> QED
    BY <1>0, <1>2, <1>4, <1>5, <2>1 DEF TypeOK, ExecTypes, ExecSet, Busy
<1>8. LineInv'
  <2>1. ASSUME NEW i \in DOMAIN queue'
        PROVE  /\ queue'[i][2] <= tries[queue'[i][1]]
               /\ agent[queue'[i]] = "away" /\ verdict[queue'[i]] = None
               /\ queue'[i][1] = t[1] => t[2] < queue'[i][2]
               /\ \A u \in Attempts : verdict[u] # None /\ queue'[i][1] = u[1] =>
                     u[2] < queue'[i][2]
    <3>1. i + 1 \in DOMAIN queue /\ queue'[i] = queue[i + 1] /\ 1 < i + 1
      BY <1>6, <2>1
    <3> QED
      BY <1>0, <1>1, <1>2, <3>1 DEF LineInv
  <2>2. ASSUME NEW i \in DOMAIN queue', NEW j \in DOMAIN queue', i < j,
               queue'[i][1] = queue'[j][1]
        PROVE  queue'[i][2] < queue'[j][2]
    <3>1. i + 1 \in DOMAIN queue /\ j + 1 \in DOMAIN queue /\ i + 1 < j + 1
          /\ queue'[i] = queue[i + 1] /\ queue'[j] = queue[j + 1]
      BY <1>6, <2>2
    <3> QED
      BY <1>0, <2>2, <3>1 DEF LineInv
  <2>3. /\ t[2] <= tries[t[1]] /\ verdict[t] = None
        /\ \A u \in Attempts : verdict[u] # None /\ t[1] = u[1] => u[2] < t[2]
    BY <1>0, <1>1, <1>2 DEF LineInv
  <2>4. exec'.turn[1] = t[1]
    BY <1>4
  <2>5. Busy' => /\ exec'.turn[2] <= tries'[Cmd'] /\ verdict'[exec'.turn] = None
                 /\ \A i \in DOMAIN queue' : queue'[i][1] = Cmd' => exec'.turn[2] < queue'[i][2]
    BY <1>4, <1>5, <2>1, <2>3 DEF Cmd
  <2>6. \A u \in Attempts : agent'[u] # "away" \/ verdict'[u] # None => u[2] <= tries'[u[1]]
    BY <1>0, <1>5 DEF LineInv
  <2>7. \A u \in Attempts : verdict'[u] # None =>
           /\ \A i \in DOMAIN queue' : queue'[i][1] = u[1] => u[2] < queue'[i][2]
           /\ Busy' /\ Cmd' = u[1] => u[2] < exec'.turn[2]
    BY <1>4, <1>5, <2>1, <2>3 DEF Cmd
  <2>8. \A i \in DOMAIN queue' :
          /\ queue'[i][2] <= tries'[queue'[i][1]]
          /\ agent'[queue'[i]] = "away" /\ verdict'[queue'[i]] = None
    BY <1>5, <2>1
  <2>9. \A i, j \in DOMAIN queue' :
            i < j /\ queue'[i][1] = queue'[j][1] => queue'[i][2] < queue'[j][2]
    BY <2>2
  <2> QED
    BY <2>5, <2>6, <2>7, <2>8, <2>9 DEF LineInv
<1>9. KnownInv' /\ ClaimInv' /\ ResolvedInv' /\ VerdictInv'
  BY <1>5 DEF IInv, Core, KnownInv, ClaimInv, ResolvedInv, VerdictInv, P, Answered, SameAnswer,
              Form, Retryable
<1>10. RecordInv'
  BY <1>0, <1>4, <1>5 DEF RecordInv, P, Form, CommandType
<1>11. StageInv' /\ ReadyInv' /\ AnswerInv'
  <2>1. agent[t] = "away"
    BY <1>0, <1>1, <1>2 DEF LineInv
  <2> QED
    BY <1>4, <1>5, <2>1 DEF StageInv, ReadyInv, AnswerInv, Early, Told, Chosen
<1>12. SentInv' /\ OneWinner'
  <2>1. \A c \in Commands : (Agreed(c)' <=> Agreed(c)) /\ (Owned(c)' <=> Owned(c))
    BY <1>5 DEF Agreed, Owned, P, SameAnswer
  <2>2. \A u \in Attempts : u[1] \in Commands
    BY <1>0, Typed
  <2>3. SentInv'
    BY <1>0, <1>5, <2>1, <2>2 DEF SentInv, MayReach, Form, Told
  <2>4. \A u \in Attempts : (Winner(u)' => Winner(u)) /\ Answered(u)' = Answered(u)
    BY <1>4, <1>5 DEF Winner, MayReach, Chosen, Told, Answered
  <2> QED
    BY <1>5, <2>3, <2>4 DEF IInv, Core, OneWinner, Form
<1>13. WorldInv'
  BY <1>5 DEF IInv, WorldInv, ShownIsAnswerable, Form
<1> QED
  BY <1>7, <1>8, <1>9, <1>10, <1>11, <1>12, <1>13 DEF IInv, Core

LEMMA PublishKeeps ==
    ASSUME IInv, Publish
    PROVE  IInv'
<1>0. Busy /\ exec.pc = "publish" /\ exec' = Idle /\ exec'.pc = "idle"
  BY DEF Publish, Busy, Idle
<1>1. /\ TypeOK /\ ExecTypes /\ exec.turn \in Attempts /\ Cmd \in Commands /\ Cmd = exec.turn[1]
      /\ Rec = outbox[Cmd] /\ LineInv /\ RecordInv /\ SentInv /\ AnswerInv /\ VerdictInv
      /\ exec \in ExecSet
  BY <1>0, Running DEF IInv, Core
<1>2. exec.answer \in Verdicts2 /\ exec.answer # None
  BY <1>0, <1>1 DEF AnswerInv, ExecSet
<1>3. /\ UNCHANGED <<kind, asked, outbox, tries, queue, table, claim, others, status, stored,
                     reg, timer, expiry, agent, chat, link, stale, cleanup, faults, drops, replays,
                     replayed, lost>>
      /\ verdict' = [verdict EXCEPT ![exec.turn] = exec.answer]
      /\ fallbacks' = fallbacks \/ (fallbacks' = fallbacks \cup {Cmd} /\ exec.answer = "unknown")
  BY DEF Publish, docs, timers, world, counts
<1>4. \A t \in Attempts : verdict'[t] = IF t = exec.turn THEN exec.answer ELSE verdict[t]
  BY <1>1, <1>3 DEF TypeOK
<1>5. TypeOK' /\ ExecTypes'
  <2>1. verdict' \in [Attempts -> Verdicts2 \cup {None}] /\ fallbacks' \subseteq Commands
    BY <1>1, <1>2, <1>3 DEF TypeOK
  <2>2. exec' \in ExecSet
    BY <1>0 DEF Idle, ExecSet, Pcs
  <2> QED
    BY <1>0, <1>1, <1>3, <2>1, <2>2 DEF TypeOK, ExecTypes, ExecSet
<1>6. LineInv'
  <2>1. ASSUME NEW i \in DOMAIN queue
        PROVE  verdict'[queue[i]] = None
    <3>1. queue[i] \in Attempts /\ queue[i] # exec.turn
      <4>1. queue[i] \in Attempts /\ queue[i][2] \in Nat
        BY <1>1, Queued
      <4> QED
        BY <1>0, <1>1, <4>1 DEF LineInv
    <3> QED
      BY <1>1, <1>4, <3>1 DEF LineInv
  <2>2. ASSUME NEW t \in Attempts, agent[t] # "away" \/ verdict'[t] # None
        PROVE  t[2] <= tries[t[1]]
    BY <1>0, <1>1, <1>4, <2>2 DEF LineInv
  <2>3. ASSUME NEW t \in Attempts, verdict'[t] # None, NEW i \in DOMAIN queue,
               queue[i][1] = t[1]
        PROVE  t[2] < queue[i][2]
    BY <1>0, <1>1, <1>4, <2>3 DEF LineInv
  <2>4. ~Busy'
    BY <1>0 DEF Busy
  <2> QED
    BY <1>1, <1>3, <2>1, <2>2, <2>3, <2>4 DEF LineInv
<1>7. KnownInv' /\ ClaimInv' /\ ResolvedInv'
  BY <1>3 DEF IInv, Core, KnownInv, ClaimInv, ResolvedInv, P, Answered, SameAnswer, Form
<1>8. RecordInv'
  <2>1. \A c \in Commands : c \in fallbacks' => outbox[c].status \in Final
    BY <1>0, <1>1, <1>3 DEF RecordInv, AnswerInv
  <2> QED
    BY <1>0, <1>1, <1>3, <2>1 DEF RecordInv, P, Form, CommandType
<1>9. StageInv' /\ ReadyInv' /\ AnswerInv'
  BY <1>0 DEF StageInv, ReadyInv, AnswerInv, Early, Told, Chosen
<1>10. SentInv' /\ OneWinner'
  <2>1. \A c \in Commands : (Agreed(c)' <=> Agreed(c)) /\ (Owned(c)' <=> Owned(c))
    BY <1>3 DEF Agreed, Owned, P, SameAnswer
  <2>2. \A u \in Attempts : u[1] \in Commands
    BY <1>1, Typed
  <2>3. SentInv'
    BY <1>0, <1>1, <1>3, <2>1, <2>2 DEF SentInv, MayReach, Form, Told
  <2>4. \A u \in Attempts : (Winner(u)' => Winner(u)) /\ Answered(u)' = Answered(u)
    BY <1>0, <1>3 DEF Winner, MayReach, Chosen, Told, Answered
  <2> QED
    BY <1>3, <2>3, <2>4 DEF IInv, Core, OneWinner, Form
<1>11. VerdictInv'
  <2>1. ASSUME NEW t \in Attempts
        PROVE  /\ verdict'[t] \in {"retryable", "failed"} => agent[t] = "away"
               /\ verdict'[t] = "committed" => agent[t] = "taken"
               /\ verdict'[t] = "duplicate" => agent[t] = (IF Form THEN "taken" ELSE "away")
    BY <1>0, <1>1, <1>4 DEF VerdictInv, AnswerInv
  <2>2. ASSUME NEW c \in Commands, Form, tries[c] > 0, verdict'[<<c, tries[c]>>] = "retryable"
        PROVE  Retryable(outbox[c])
    <3>1. <<c, tries[c]>> \in Attempts
      <4>1. tries[c] \in 0..MaxTries /\ MaxTries \in Nat
        BY <1>1, InteractiveAssumption DEF TypeOK, InteractiveAssumption
      <4> QED
        BY <2>2, <4>1 DEF Attempts
    <3>2. PICK t \in Attempts : t = <<c, tries[c]>>
      BY <3>1
    <3>3. CASE t = exec.turn
      BY <1>0, <1>1, <1>4, <2>2, <3>2, <3>3 DEF AnswerInv
    <3>4. CASE t # exec.turn
      BY <1>1, <1>4, <2>2, <3>2, <3>4 DEF VerdictInv
    <3> QED
      BY <3>3, <3>4
  <2> QED
    BY <1>3, <2>1, <2>2 DEF VerdictInv, Form, Retryable
<1>12. WorldInv'
  BY <1>3 DEF IInv, WorldInv, ShownIsAnswerable, Form
<1> QED
  BY <1>5, <1>6, <1>7, <1>8, <1>9, <1>10, <1>11, <1>12 DEF IInv, Core

-----------------------------------------------------------------------------
(* Submission.                                                             *)
LEMMA SubmitKeeps ==
    ASSUME IInv, NEW c \in Commands, Enqueue(c), status[P(c)] # "none",
           NEW s \in Record, outbox' = [outbox EXCEPT ![c] = s],
           \/ s = outbox[c] /\ Present(s)
           \/ /\ ~Present(outbox[c]) /\ s.status = "accepted" /\ s.type = CommandType
              /\ s.barrier = FALSE /\ s.recovery = None,
           UNCHANGED <<kind, asked, exec, fallbacks, table, claim, others, status, stored, reg,
                       timer, expiry, agent, chat, link, stale, cleanup, faults, drops, replays,
                       replayed, lost, verdict>>
    PROVE  IInv'
<1>0. /\ TypeOK /\ ExecTypes /\ KnownInv /\ LineInv /\ RecordInv /\ SentInv /\ VerdictInv
      /\ StageInv /\ ReadyInv /\ AnswerInv
  BY DEF IInv, Core
<1>1. PICK t : t = <<c, tries[c] + 1>>
  OBVIOUS
<1>2. /\ t \in Attempts /\ t[1] = c /\ t[2] = tries[c] + 1 /\ tries[c] \in Nat
      /\ tries' = [tries EXCEPT ![c] = tries[c] + 1] /\ tries[c] < MaxTries
      /\ queue' = Append(queue, t)
  <2>1. tries[c] \in 0..MaxTries /\ MaxTries \in Nat /\ tries[c] < MaxTries
    BY <1>0, InteractiveAssumption DEF TypeOK, InteractiveAssumption, Enqueue
  <2>2. tries[c] + 1 \in 1..MaxTries /\ tries[c] \in Nat
    BY <2>1
  <2> QED
    BY <1>1, <2>1, <2>2 DEF Attempts, Enqueue
<1>3. /\ \A d \in Commands : /\ outbox'[d] = IF d = c THEN s ELSE outbox[d]
                             /\ tries'[d] = IF d = c THEN tries[c] + 1 ELSE tries[d]
      /\ \A d \in Commands : tries[d] <= tries'[d] /\ tries[d] \in Nat
  <2>1. outbox \in [Commands -> Record] /\ tries \in [Commands -> 0..MaxTries]
    BY <1>0 DEF TypeOK
  <2>2. \A d \in Commands : /\ outbox'[d] = IF d = c THEN s ELSE outbox[d]
                            /\ tries'[d] = IF d = c THEN tries[c] + 1 ELSE tries[d]
    BY <1>2, <2>1
  <2> QED
    BY <1>0, <1>2, <2>2, Typed
<1>4. /\ queue \in Seq(Attempts) /\ queue' \in Seq(Attempts) /\ Len(queue) \in Nat
      /\ \A i \in DOMAIN queue' : \/ i \in DOMAIN queue /\ queue'[i] = queue[i]
                                  \/ i = Len(queue) + 1 /\ queue'[i] = t
      /\ \A i \in DOMAIN queue : i \in Nat /\ i <= Len(queue)
  BY <1>0, <1>2, Appended DEF TypeOK
<1>5. TypeOK' /\ ExecTypes'
  <2>1. outbox' \in [Commands -> Record]
    BY <1>0 DEF TypeOK
  <2>2. tries' \in [Commands -> 0..MaxTries]
    <3>1. tries[c] + 1 \in 0..MaxTries
      BY <1>2, InteractiveAssumption DEF InteractiveAssumption
    <3> QED
      BY <1>0, <1>2, <3>1 DEF TypeOK
  <2> QED
    BY <1>0, <1>4, <2>1, <2>2 DEF TypeOK, ExecTypes, Busy
<1>6. /\ \A u \in Attempts : u[1] = c /\ u[2] <= tries[u[1]] => u[2] < t[2]
      /\ \A u \in Attempts : u[1] \in Commands /\ u[2] \in Nat
      /\ agent[t] = "away" /\ verdict[t] = None
  <2>1. \A u \in Attempts : u[1] \in Commands /\ u[2] \in Nat
    BY <1>0, Typed
  <2>2. ~(t[2] <= tries[t[1]])
    BY <1>2
  <2> QED
    BY <1>0, <1>2, <2>1, <2>2 DEF LineInv
<1>7. \A i \in DOMAIN queue : queue[i] \in Attempts
  BY <1>0, Queued
<1>8. LineInv'
  <2>1. ASSUME NEW i \in DOMAIN queue'
        PROVE  /\ queue'[i][2] <= tries'[queue'[i][1]]
               /\ agent[queue'[i]] = "away" /\ verdict[queue'[i]] = None
               /\ \A u \in Attempts : verdict[u] # None /\ queue'[i][1] = u[1] =>
                     u[2] < queue'[i][2]
               /\ Busy /\ queue'[i][1] = Cmd => exec.turn[2] < queue'[i][2]
    <3>1. CASE i \in DOMAIN queue /\ queue'[i] = queue[i]
      <4>1. queue[i] \in Attempts /\ queue[i][2] <= tries[queue[i][1]]
        BY <1>0, <1>7, <3>1 DEF LineInv
      <4>2. queue[i][2] <= tries'[queue[i][1]]
        BY <1>2, <1>3, <1>6, <4>1
      <4> QED
        BY <1>0, <3>1, <4>1, <4>2 DEF LineInv
    <3>2. CASE queue'[i] = t
      <4>1. t[2] <= tries'[t[1]]
        BY <1>2, <1>3
      <4>2. \A u \in Attempts : verdict[u] # None /\ t[1] = u[1] => u[2] < t[2]
        BY <1>0, <1>2, <1>6 DEF LineInv
      <4>3. Busy /\ t[1] = Cmd => exec.turn[2] < t[2]
        BY <1>0, <1>2, <1>6, Typed DEF LineInv
      <4> QED
        BY <1>6, <3>2, <4>1, <4>2, <4>3
    <3> QED
      BY <1>4, <2>1, <3>1, <3>2
  <2>2. ASSUME NEW i \in DOMAIN queue', NEW j \in DOMAIN queue', i < j,
               queue'[i][1] = queue'[j][1]
        PROVE  queue'[i][2] < queue'[j][2]
    <3>1. CASE j \in DOMAIN queue /\ queue'[j] = queue[j]
      <4>1. i \in DOMAIN queue /\ queue'[i] = queue[i]
        BY <1>4, <2>2, <3>1
      <4> QED
        BY <1>0, <2>2, <3>1, <4>1 DEF LineInv
    <3>2. CASE j = Len(queue) + 1 /\ queue'[j] = t
      <4>1. i \in DOMAIN queue /\ queue'[i] = queue[i]
        BY <1>4, <2>2, <3>2
      <4>2. queue[i] \in Attempts /\ queue[i][2] <= tries[queue[i][1]] /\ queue[i][1] = c
        BY <1>0, <1>2, <1>7, <2>2, <3>2, <4>1 DEF LineInv
      <4> QED
        BY <1>6, <3>2, <4>1, <4>2
    <3> QED
      BY <1>4, <2>2, <3>1, <3>2
  <2>3. ASSUME NEW u \in Attempts, u[2] <= tries[u[1]]
        PROVE  u[2] <= tries'[u[1]]
    BY <1>3, <1>6, <2>3
  <2>4. \A u \in Attempts : agent'[u] # "away" \/ verdict'[u] # None => u[2] <= tries'[u[1]]
    BY <1>0, <2>3 DEF LineInv
  <2>5. Busy' => /\ exec'.turn[2] <= tries'[Cmd'] /\ verdict'[exec'.turn] = None
                 /\ \A i \in DOMAIN queue' : queue'[i][1] = Cmd' => exec'.turn[2] < queue'[i][2]
    <3>1. Busy => exec.turn \in Attempts /\ exec.turn[1] = Cmd
      BY <1>0, Typed
    <3>2. Busy => exec.turn[2] <= tries'[Cmd]
      BY <1>0, <2>3, <3>1 DEF LineInv
    <3> QED
      BY <1>0, <2>1, <3>2 DEF LineInv, Busy, Cmd
  <2>6. \A u \in Attempts : verdict'[u] # None =>
           /\ \A i \in DOMAIN queue' : queue'[i][1] = u[1] => u[2] < queue'[i][2]
           /\ Busy' /\ Cmd' = u[1] => u[2] < exec'.turn[2]
    BY <1>0, <2>1 DEF LineInv, Busy, Cmd
  <2>7. \A i \in DOMAIN queue' :
          /\ queue'[i][2] <= tries'[queue'[i][1]]
          /\ agent'[queue'[i]] = "away" /\ verdict'[queue'[i]] = None
    BY <2>1
  <2>8. \A i, j \in DOMAIN queue' :
            i < j /\ queue'[i][1] = queue'[j][1] => queue'[i][2] < queue'[j][2]
    BY <2>2
  <2> QED
    BY <2>4, <2>5, <2>6, <2>7, <2>8 DEF LineInv
<1>9. Present(s) /\ (outbox[c].status \in Final => s = outbox[c])
  BY DEF Present, Final
<1>10. KnownInv'
  <2>1. \A d \in Commands : /\ tries'[d] > 0 => Present(outbox'[d])
                            /\ Present(outbox'[d]) => status[P(d)] # "none"
    BY <1>0, <1>3, <1>9 DEF KnownInv
  <2> QED
    BY <2>1 DEF KnownInv, P
<1>11. Busy /\ Cmd = c => s = outbox[c]
  BY <1>0, HasRecord, Typed
<1>12. ClaimInv' /\ ResolvedInv'
  BY DEF IInv, Core, ClaimInv, ResolvedInv, P, Answered, SameAnswer, Form
<1>13. RecordInv'
  <2>1. ASSUME NEW d \in Commands
        PROVE  /\ Present(outbox'[d]) => outbox'[d].type = CommandType
               /\ outbox'[d].status \in {"absent", "received", "accepted"} =>
                     outbox'[d].barrier = FALSE /\ outbox'[d].recovery = None
               /\ Form /\ outbox'[d].recovery # None /\ status[P(d)] \in {"none", "pending"} =>
                     chat = "closed" \/ (exec.pc = "cas" /\ Cmd = d)
               /\ outbox'[d].status \in Moving => exec.pc \in {"complete", "settle"} /\ Cmd = d
               /\ d \in fallbacks => outbox'[d].status \in Final
    <3>1. CASE outbox'[d] = outbox[d]
      BY <1>0, <3>1 DEF RecordInv
    <3>2. CASE d = c /\ ~Present(outbox[c])
      <4>1. c \notin fallbacks
        BY <1>0, <3>2 DEF RecordInv, Present, Final
      <4> QED
        BY <1>3, <1>9, <3>2, <4>1 DEF Moving
    <3> QED
      BY <1>3, <3>1, <3>2
  <2> QED
    BY <2>1 DEF RecordInv, P, Form, CommandType, Cmd
<1>14. StageInv' /\ ReadyInv' /\ AnswerInv'
  <2>1. Busy => Rec' = Rec /\ Cmd' = Cmd /\ Req' = Req
    BY <1>0, <1>3, <1>11, Typed DEF Cmd, Rec, Req, Ask
  <2>2. \A d \in Commands : (Agreed(d) => Agreed(d)') /\ (Owned(d) => Owned(d)')
    BY DEF Agreed, Owned, P, SameAnswer
  <2>3. StageInv'
    BY <1>0, <2>1, <2>2, Typed DEF StageInv, Busy, Early, Told, Chosen, Form
  <2>4. ReadyInv' /\ AnswerInv'
    BY <1>0, <2>1 DEF ReadyInv, AnswerInv, Busy, Form, Chosen, Told
  <2> QED
    BY <2>3, <2>4
<1>15. SentInv' /\ OneWinner'
  <2>1. \A d \in Commands : (Agreed(d) => Agreed(d)') /\ (Owned(d) => Owned(d)')
    BY DEF Agreed, Owned, P, SameAnswer
  <2>2. \A d \in Commands : outbox[d].status \in Final => outbox'[d].status \in Final
    BY <1>3, <1>9
  <2>3. SentInv'
    BY <1>0, <1>6, <2>1, <2>2 DEF SentInv, MayReach, Form, Told
  <2>4. \A u \in Attempts : (Winner(u)' => Winner(u)) /\ Answered(u)' = Answered(u)
    BY DEF Winner, MayReach, Chosen, Told, Answered
  <2> QED
    BY <2>3, <2>4 DEF IInv, Core, OneWinner, Form
<1>16. VerdictInv'
  <2>1. ASSUME NEW d \in Commands, Form, tries'[d] > 0,
               verdict[<<d, tries'[d]>>] = "retryable"
        PROVE  Retryable(outbox'[d])
    <3>1. d # c
      BY <1>1, <1>3, <1>6, <2>1, InteractiveAssumption DEF InteractiveAssumption, Verdicts2
    <3> QED
      BY <1>0, <1>3, <2>1, <3>1 DEF VerdictInv
  <2> QED
    BY <1>0, <2>1 DEF VerdictInv, Form, Retryable
<1>17. WorldInv'
  BY DEF IInv, WorldInv, ShownIsAnswerable, Form
<1> QED
  BY <1>5, <1>8, <1>10, <1>12, <1>13, <1>14, <1>15, <1>16, <1>17 DEF IInv, Core

LEMMA SubmitNewKeeps ==
    ASSUME IInv, NEW c \in Commands, SubmitNew(c)
    PROVE  IInv'
<1>1. /\ Enqueue(c) /\ status[P(c)] # "none"
      /\ outbox' = [outbox EXCEPT ![c] = MarkAccepted(Insert(CommandType))]
      /\ UNCHANGED <<kind, asked, exec, fallbacks, table, claim, others, status, stored, reg,
                     timer, expiry, agent, chat, link, stale, cleanup, faults, drops, replays,
                     replayed, lost, verdict>>
  BY DEF SubmitNew, P, docs, timers, world, counts
<1>2. ~Present(outbox[c])
  BY DEF SubmitNew, Disposition, RecoveryDisposition
<1>3. PICK s : s = MarkAccepted(Insert(CommandType))
  OBVIOUS
<1>4. /\ s \in Record /\ s.type = CommandType /\ s.status = "accepted"
      /\ s.barrier = FALSE /\ s.recovery = None
  BY <1>3, FreshTyped DEF CommandType, OneShotTypes
<1> QED
  BY <1>1, <1>2, <1>3, <1>4, SubmitKeeps

LEMMA SubmitResumeKeeps ==
    ASSUME IInv, NEW c \in Commands, SubmitResume(c)
    PROVE  IInv'
<1>1. /\ Enqueue(c) /\ UNCHANGED outbox
      /\ UNCHANGED <<kind, asked, exec, fallbacks, table, claim, others, status, stored, reg,
                     timer, expiry, agent, chat, link, stale, cleanup, faults, drops, replays,
                     replayed, lost, verdict>>
  BY DEF SubmitResume, docs, timers, world, counts
<1>2. Present(outbox[c])
  BY DEF SubmitResume, Disposition
<1>3. status[P(c)] # "none"
  BY <1>2 DEF IInv, Core, KnownInv
<1>4. outbox[c] \in Record /\ outbox' = [outbox EXCEPT ![c] = outbox[c]]
  BY <1>1 DEF IInv, TypeOK
<1> QED
  BY <1>1, <1>2, <1>3, <1>4, SubmitKeeps

-----------------------------------------------------------------------------
(* What happens around the executor.                                       *)
Around ==
    /\ UNCHANGED <<kind, asked, outbox, tries, queue, exec, fallbacks, stored, agent, verdict>>
    /\ \A r \in Requests :
          \/ status'[r] = status[r]
          \/ status[r] = "none" /\ status'[r] = "pending"
          \/ status[r] = "pending" /\ status'[r] = "expired"
          \/ Form /\ status[r] = "responding" /\ status'[r] = "expired"
    /\ replayed \subseteq replayed'
    /\ \A r \in Requests : claim'[r] = claim[r] \/ (r \in replayed' /\ status[r] # "none")
    /\ \A r \in replayed' : r \in replayed \/ status[r] # "none"
    /\ chat' = chat \/ chat = "alive"

LEMMA AroundKeeps ==
    ASSUME IInv, Around, TypeOK', ExecTypes', WorldInv'
    PROVE  IInv'
<1>0. /\ TypeOK /\ ExecTypes /\ KnownInv /\ LineInv /\ RecordInv /\ ClaimInv /\ SentInv
      /\ StageInv /\ ReadyInv /\ AnswerInv /\ VerdictInv /\ ResolvedInv /\ OneWinner
  BY DEF IInv, Core
<1>1. /\ Cmd' = Cmd /\ Rec' = Rec /\ Req' = Req /\ Form' = Form /\ Busy' = Busy
      /\ \A c \in Commands : P(c)' = P(c) /\ P(c) \in Requests
      /\ \A t \in Attempts : Answered(t)' = Answered(t) /\ t[1] \in Commands
  BY <1>0, Typed DEF Around, Cmd, Rec, Req, Ask, Form, Busy, P, Answered
<1>2. \A c \in Commands : (Agreed(c) => Agreed(c)') /\ (Owned(c) => Owned(c)')
  <2>1. ASSUME NEW c \in Commands, Agreed(c)
        PROVE  Agreed(c)'
    <3>1. P(c)' = P(c) /\ stored'[P(c)] = stored[P(c)] /\ asked'[c] = asked[c] /\ kind' = kind
      BY <1>1 DEF Around
    <3>2. status'[P(c)] \in Decided /\ (kind = "question" => status'[P(c)] = "resolved")
      BY <1>1, <2>1 DEF Around, Agreed, Decided, Form
    <3> QED
      BY <2>1, <3>1, <3>2 DEF Agreed, SameAnswer
  <2>2. ASSUME NEW c \in Commands, Owned(c)
        PROVE  Owned(c)'
    BY <1>1, <2>2 DEF Around, Owned
  <2> QED
    BY <2>1, <2>2
<1>3. KnownInv' /\ LineInv'
  <2>1. KnownInv'
    BY <1>0, <1>1 DEF Around, KnownInv
  <2>2. LineInv'
    BY <1>0 DEF Around, LineInv, Busy, Cmd
  <2> QED
    BY <2>1, <2>2
<1>4. RecordInv'
  <2>1. ASSUME NEW c \in Commands
        PROVE  /\ status'[P(c)] \in {"none", "pending"} => status[P(c)] \in {"none", "pending"}
               /\ chat = "closed" => chat' = "closed"
    BY <1>1 DEF Around
  <2>2. CommandType' = CommandType
    BY DEF Around, CommandType
  <2> QED
    BY <1>0, <1>1, <2>1, <2>2 DEF Around, RecordInv
<1>5. ClaimInv'
  BY <1>0 DEF Around, ClaimInv
<1>6. StageInv'
  <2>1. exec.pc \in {"cas"} \cup Chosen => Cmd \in Commands
    BY <1>0, Typed DEF Busy, Chosen, Told
  <2> QED
    BY <1>0, <1>1, <1>2, <2>1 DEF Around, StageInv
<1>7. ReadyInv'
  <2>1. /\ exec.pc = "cas" => Req \in Requests
        /\ chat = "closed" => chat' = "closed"
    BY <1>0, Typed DEF Around, Busy
  <2>2. exec.pc = "cas" /\ status'[Req] = "pending" => status[Req] \in {"none", "pending"}
    BY <2>1 DEF Around
  <2>3. exec.pc = "cas" => status[Req] # "none"
    BY <1>0, HasRecord DEF Busy
  <2>4. Form /\ exec.pc = "cas" /\ status'[Req] = "pending" /\ chat' # "closed" =>
            Retryable(Rec)
    BY <1>0, <2>1, <2>2, <2>3 DEF ReadyInv
  <2> QED
    BY <1>0, <1>1, <2>4 DEF Around, ReadyInv, Retryable
<1>8. AnswerInv'
  BY <1>0, <1>1 DEF Around, AnswerInv, Retryable
<1>9. SentInv' /\ OneWinner'
  <2>1. SentInv'
    BY <1>0, <1>1, <1>2 DEF Around, SentInv, MayReach
  <2>2. OneWinner'
    BY <1>0, <1>1 DEF Around, OneWinner, Winner, MayReach
  <2> QED
    BY <2>1, <2>2
<1>10. ResolvedInv'
  <2>1. ASSUME NEW r \in Requests, Form, status'[r] = "resolved"
        PROVE  status[r] = "resolved"
    BY <2>1 DEF Around
  <2> QED
    BY <1>0, <1>1, <2>1 DEF Around, ResolvedInv, SameAnswer
<1>11. VerdictInv'
  BY <1>0, <1>1 DEF Around, VerdictInv, Retryable
<1> QED
  BY <1>3, <1>4, <1>5, <1>6, <1>7, <1>8, <1>9, <1>10, <1>11 DEF IInv, Core

LEMMA EnterFormIs ==
    ASSUME IInv, Form, NEW r \in Requests, EnterForm(r)
    PROVE  /\ table' \subseteq Requests /\ IsFiniteSet(table') /\ table \subseteq table'
           /\ Cardinality(table') + others <= MaxPending
           /\ claim' \in [Requests -> Commands \cup {None}]
           /\ reg' \in {r, None} /\ (reg' # None => r \in table')
           /\ claim' = claim \/ claim' = [claim EXCEPT ![r] = None]
<1>0. TypeOK /\ ExecTypes /\ IsFiniteSet(table) /\ table \subseteq Requests
      /\ Cardinality(table) + others <= MaxPending /\ others \in 0..MaxPending
  BY DEF IInv, ExecTypes, TypeOK, Form
<1>1. CASE HasRoom
  <2>1. table' = table \cup {r} /\ claim' = [claim EXCEPT ![r] = None] /\ reg' = r
    BY <1>1 DEF EnterForm
  <2>2. /\ IsFiniteSet(table \cup {r}) /\ Cardinality(table) \in Nat
        /\ Cardinality(table \cup {r}) = Cardinality(table)
              \/ Cardinality(table \cup {r}) = Cardinality(table) + 1
    BY <1>0, FS_AddElement, FS_CardinalityType
  <2>3. Cardinality(table \cup {r}) + others <= MaxPending
    BY <1>0, <1>1, <2>2, InteractiveAssumption DEF HasRoom, InteractiveAssumption
  <2>4. claim' \in [Requests -> Commands \cup {None}]
    BY <1>0, <2>1 DEF TypeOK
  <2> QED
    BY <1>0, <2>1, <2>2, <2>3, <2>4
<1>2. CASE ~HasRoom
  BY <1>0, <1>2 DEF EnterForm, TypeOK
<1> QED
  BY <1>1, <1>2

LEMMA RequestFormKeeps ==
    ASSUME IInv, NEW r \in Requests, RequestForm(r)
    PROVE  IInv'
<1>0. TypeOK /\ ExecTypes /\ ClaimInv /\ WorldInv
  BY DEF IInv, Core
<1>1. /\ Form /\ reg = None /\ EnterForm(r) /\ status[r] = "none"
      /\ UNCHANGED <<kind, asked, outbox, tries, queue, exec, fallbacks, others, status, stored,
                     timer, expiry, agent, chat, link, stale, cleanup, faults, drops, replays,
                     replayed, lost, verdict>>
  BY DEF RequestForm, Reading, Form, docs, timers, world, counts
<1>2. /\ table' \subseteq Requests /\ IsFiniteSet(table') /\ table \subseteq table'
      /\ Cardinality(table') + others <= MaxPending
      /\ claim' \in [Requests -> Commands \cup {None}]
      /\ reg' \in {r, None} /\ (reg' # None => r \in table')
      /\ claim' = claim \/ claim' = [claim EXCEPT ![r] = None]
  BY <1>1, EnterFormIs
<1>3. claim[r] = None
  BY <1>0, <1>1 DEF ClaimInv
<1>4. TypeOK' /\ ExecTypes'
  BY <1>0, <1>1, <1>2 DEF TypeOK, ExecTypes, Busy
<1>5. Around
  BY <1>0, <1>1, <1>2, <1>3 DEF Around, TypeOK
<1>6. WorldInv'
  <2>1. ShownIsAnswerable'
    <3>1. (\A p \in Requests : p \in table => p \in table') /\ None \notin Requests
      BY <1>0, <1>2, Typed
    <3> QED
      BY <1>0, <1>1, <3>1 DEF WorldInv, ShownIsAnswerable
  <2>2. reg' # None =>
            IF status'[reg'] = "none" THEN reg' \in table' \cup lost' ELSE reg' \in replayed'
    BY <1>1, <1>2
  <2> QED
    BY <1>0, <1>1, <2>1, <2>2 DEF WorldInv, Form
<1> QED
  BY <1>4, <1>5, <1>6, AroundKeeps

LEMMA ReplayFormKeeps ==
    ASSUME IInv, NEW r \in Requests, ReplayForm(r)
    PROVE  IInv'
<1>0. TypeOK /\ ExecTypes /\ ClaimInv /\ WorldInv
  BY DEF IInv, Core
<1>1. /\ Form /\ reg = None /\ EnterForm(r) /\ status[r] # "none"
      /\ replays < MaxReplays /\ replays' = replays + 1 /\ replayed' = replayed \cup {r}
      /\ UNCHANGED <<kind, asked, outbox, tries, queue, exec, fallbacks, others, status, stored,
                     timer, expiry, agent, chat, link, stale, cleanup, faults, drops, lost,
                     verdict>>
  BY DEF ReplayForm, Reading, Form, docs, timers, world
<1>2. /\ table' \subseteq Requests /\ IsFiniteSet(table') /\ table \subseteq table'
      /\ Cardinality(table') + others <= MaxPending
      /\ claim' \in [Requests -> Commands \cup {None}]
      /\ reg' \in {r, None} /\ (reg' # None => r \in table')
      /\ claim' = claim \/ claim' = [claim EXCEPT ![r] = None]
  BY <1>1, EnterFormIs
<1>3. replays' \in 0..MaxReplays /\ lost' = lost
  BY <1>0, <1>1, InteractiveAssumption DEF TypeOK, InteractiveAssumption
<1>4. TypeOK' /\ ExecTypes'
  BY <1>0, <1>1, <1>2, <1>3 DEF TypeOK, ExecTypes, Busy
<1>5. Around
  BY <1>0, <1>1, <1>2 DEF Around, TypeOK
<1>6. WorldInv'
  <2>1. ShownIsAnswerable'
    <3>1. (\A p \in Requests : p \in table => p \in table') /\ None \notin Requests
      BY <1>0, <1>2, Typed
    <3> QED
      BY <1>0, <1>1, <3>1 DEF WorldInv, ShownIsAnswerable
  <2>2. reg' # None =>
            IF status'[reg'] = "none" THEN reg' \in table' \cup lost' ELSE reg' \in replayed'
    BY <1>1, <1>2
  <2> QED
    BY <1>0, <1>1, <2>1, <2>2 DEF WorldInv, Form
<1> QED
  BY <1>4, <1>5, <1>6, AroundKeeps

LEMMA FewerRequests ==
    ASSUME TypeOK, ExecTypes, table' \subseteq table, kind' = kind, others' \in 0..others
    PROVE  /\ table' \subseteq Requests /\ IsFiniteSet(table') /\ others' \in 0..MaxPending
           /\ kind' = "elicitation" => Cardinality(table') + others' <= MaxPending
<1>1. IsFiniteSet(table) /\ table \subseteq Requests /\ others \in 0..MaxPending
      /\ (kind = "elicitation" => Cardinality(table) + others <= MaxPending)
  BY DEF TypeOK, ExecTypes
<1>2. /\ IsFiniteSet(table') /\ Cardinality(table') <= Cardinality(table)
      /\ Cardinality(table') \in Nat /\ Cardinality(table) \in Nat
  BY <1>1, FS_Subset, FS_CardinalityType
<1> QED
  BY <1>1, <1>2, InteractiveAssumption DEF InteractiveAssumption

LEMMA ProjectFormKeeps ==
    ASSUME IInv, ProjectForm
    PROVE  IInv'
<1>0. TypeOK /\ ExecTypes /\ ClaimInv /\ WorldInv
  BY DEF IInv, Core
<1>1. /\ Form /\ reg # None /\ reg' = None /\ reg \in Requests
      /\ stale' = FALSE
      /\ UNCHANGED <<kind, asked, outbox, tries, queue, exec, fallbacks, claim, others, stored,
                     timer, expiry, agent, chat, link, cleanup, drops, replays, replayed, verdict>>
  BY <1>0 DEF ProjectForm, Form, TypeOK, timers
<1>2. \/ /\ status[reg] = "none" /\ chat # "closed" /\ status' = [status EXCEPT ![reg] = "pending"]
         /\ \/ table' = table /\ lost' = lost /\ faults' = faults
            \/ /\ table' = table \ {reg} /\ lost' = lost \cup {reg}
               /\ faults < MaxFaults /\ faults' = faults + 1
      \/ /\ ~(status[reg] = "none" /\ chat # "closed") /\ table' = table \ {reg}
         /\ status' = status /\ lost' = lost /\ faults' = faults
  BY DEF ProjectForm, Persisted, SetStatus
<1>3. TypeOK' /\ ExecTypes'
  <2>1. table' \subseteq table /\ others' \in 0..others
    BY <1>0, <1>1, <1>2, InteractiveAssumption DEF TypeOK, InteractiveAssumption
  <2>2. faults' \in 0..MaxFaults
    BY <1>0, <1>2, PersistedIs
  <2>3. status' \in [Requests -> Statuses2]
    BY <1>0, <1>2 DEF TypeOK, Statuses2
  <2>4. /\ table' \subseteq Requests /\ IsFiniteSet(table') /\ others' \in 0..MaxPending
        /\ kind' = "elicitation" => Cardinality(table') + others' <= MaxPending
    BY <1>0, <1>1, <2>1, FewerRequests
  <2>5. lost' \subseteq Requests
    BY <1>0, <1>1, <1>2 DEF TypeOK
  <2> QED
    BY <1>0, <1>1, <2>2, <2>3, <2>4, <2>5 DEF TypeOK, ExecTypes, Busy, Statuses2
<1>4. Around
  BY <1>0, <1>1, <1>2 DEF Around, TypeOK
<1>5. ASSUME NEW r \in Requests \ (replayed \cup lost'), status'[r] = "pending", chat # "closed"
      PROVE  r \in table' \/ \E w \in Cleaners : cleanup[w] = "expire"
  <2>1. r \notin lost
    BY <1>2, <1>5
  <2>2. CASE r = reg
    <3>1. status[reg] = "none" /\ reg \in table
      BY <1>0, <1>1, <1>5, <2>1, <2>2 DEF WorldInv
    <3> QED
      BY <1>0, <1>1, <1>2, <1>5, <2>1, <2>2, <3>1 DEF WorldInv, TypeOK
  <2>3. CASE r # reg
    <3>1. status[r] = "pending" /\ (r \in table => r \in table')
      BY <1>0, <1>1, <1>2, <1>5, <2>3 DEF TypeOK
    <3> QED
      BY <1>0, <1>5, <2>1, <2>3, <3>1 DEF WorldInv, ShownIsAnswerable
  <2> QED
    BY <2>2, <2>3
<1>6. WorldInv'
  <2>1. ShownIsAnswerable'
    BY <1>1, <1>5 DEF ShownIsAnswerable
  <2>2. \A r \in Requests : status[r] = "expired" => status'[r] = "expired"
    BY <1>4 DEF Around
  <2> QED
    BY <1>0, <1>1, <2>1, <2>2 DEF WorldInv, Form
<1> QED
  BY <1>3, <1>4, <1>6, AroundKeeps

LEMMA QuestionsKeep ==
    ASSUME IInv, (\E r \in Requests : RequestQuestion(r)) \/ RegisterQuestion
    PROVE  IInv'
<1>0. TypeOK /\ ExecTypes /\ ClaimInv /\ WorldInv
  BY DEF IInv, Core
<1>1. ASSUME NEW r \in Requests, RequestQuestion(r)
      PROVE  IInv'
  <2>1. /\ ~Form /\ reg = None /\ status[r] = "none"
        /\ \/ reg' = r /\ lost' = lost /\ faults' = faults
           \/ /\ reg' = None /\ lost' = lost \cup {r}
              /\ faults < MaxFaults /\ faults' = faults + 1
        /\ status' = [status EXCEPT ![r] = "pending"]
        /\ UNCHANGED <<kind, asked, outbox, tries, queue, exec, fallbacks, table, claim, others,
                       stored, timer, expiry, agent, chat, link, stale, cleanup, drops, replays,
                       replayed, verdict>>
    BY <1>1 DEF RequestQuestion, Reading, SetStatus, Persisted, Form, timers, world
  <2>2. TypeOK' /\ ExecTypes'
    <3>1. faults' \in 0..MaxFaults
      BY <1>0, <2>1, PersistedIs
    <3>2. lost' \subseteq Requests /\ reg' \in Requests \cup {None}
      BY <1>0, <2>1 DEF TypeOK
    <3>3. status' \in [Requests -> Statuses2]
      BY <1>0, <2>1 DEF TypeOK, Statuses2
    <3> QED
      BY <1>0, <2>1, <3>1, <3>2, <3>3 DEF TypeOK, ExecTypes, Busy, Statuses2, Form
  <2>3. Around
    BY <1>0, <2>1 DEF Around, TypeOK
  <2>4. ShownIsAnswerable'
    <3>1. \A p \in Requests : p # r => status'[p] = status[p]
      BY <1>0, <2>1 DEF TypeOK
    <3> QED
      BY <1>0, <2>1, <3>1, Typed DEF WorldInv, ShownIsAnswerable
  <2>5. \A p \in Requests : status[p] = "expired" => status'[p] = "expired"
    BY <2>3 DEF Around
  <2>6. \A p \in Requests : status'[p] = "pending" => p \in table \cup lost' \/ reg' = p
    BY <1>0, <2>1, Typed DEF WorldInv, TypeOK
  <2>7. WorldInv'
    BY <1>0, <2>1, <2>4, <2>5, <2>6 DEF WorldInv, Form
  <2> QED
    BY <2>2, <2>3, <2>7, AroundKeeps
<1>2. ASSUME RegisterQuestion
      PROVE  IInv'
  <2>1. /\ ~Form /\ reg \in Requests /\ reg' = None /\ table' = table \cup {reg}
        /\ timer' = [timer EXCEPT ![reg] = "armed"]
        /\ stale' = FALSE
        /\ UNCHANGED <<kind, asked, outbox, tries, queue, exec, fallbacks, claim, others, status,
                       stored, expiry, agent, chat, link, cleanup, faults, drops, replays,
                       replayed, lost, verdict>>
    BY <1>0, <1>2 DEF RegisterQuestion, Form, TypeOK, docs, counts
  <2>2. TypeOK' /\ ExecTypes'
    <3>1. IsFiniteSet(table')
      BY <1>0, <2>1, FS_AddElement DEF ExecTypes
    <3> QED
      BY <1>0, <2>1, <3>1 DEF TypeOK, ExecTypes, Busy, Form
  <2>3. Around
    BY <2>1 DEF Around
  <2>4. \A p \in Requests : timer'[p] = timer[p] \/ timer'[p] = "armed"
    BY <1>0, <2>1 DEF TypeOK
  <2>5. ShownIsAnswerable'
    BY <1>0, <2>1 DEF WorldInv, ShownIsAnswerable
  <2>6. WorldInv'
    BY <1>0, <2>1, <2>4, <2>5 DEF WorldInv, Form
  <2> QED
    BY <2>2, <2>3, <2>6, AroundKeeps
<1> QED
  BY <1>1, <1>2

LEMMA TimerKeeps ==
    ASSUME IInv, NEW r \in Requests, Timer(r)
    PROVE  IInv'
<1>0. TypeOK /\ ExecTypes /\ ClaimInv /\ WorldInv
  BY DEF IInv, Core
<1>1. /\ timer[r] # "off" /\ ~Form
      /\ UNCHANGED <<kind, asked, outbox, tries, queue, exec, fallbacks, claim, others, stored,
                     reg, agent, chat, link, stale, cleanup, drops, replays, replayed, lost, verdict>>
      /\ table' \subseteq table
  BY <1>0 DEF Timer, TimerWakes, TimerExpires, TimerSends, WorldInv, docs, world, counts
<1>2. /\ status' = status \/ (status[r] = "pending" /\ status' = [status EXCEPT ![r] = "expired"])
      /\ \E to \in {"cas", "send", "done"} :
            /\ timer' = [timer EXCEPT ![r] = to]
            /\ to = "send" => status'[r] = "expired"
      /\ expiry' = expiry
            \/ (status[r] = "expired" /\ \E where \in Reach : expiry' = [expiry EXCEPT ![r] = where])
      /\ table' = table \/ (table' = table \ {r} /\ status[r] = "expired")
      /\ faults' = faults \/ (faults < MaxFaults /\ faults' = faults + 1)
  <2>1. CASE TimerWakes(r)
    BY <2>1 DEF TimerWakes, docs, world, counts
  <2>2. CASE TimerExpires(r)
    <3>1. \/ /\ status[r] = "pending" /\ status' = [status EXCEPT ![r] = "expired"]
             /\ \/ timer' = [timer EXCEPT ![r] = "send"] /\ faults' = faults
                \/ /\ timer' = [timer EXCEPT ![r] = "done"]
                   /\ faults < MaxFaults /\ faults' = faults + 1
          \/ timer' = [timer EXCEPT ![r] = "done"] /\ status' = status /\ faults' = faults
      BY <2>2 DEF TimerExpires, Persisted, SetStatus
    <3>2. table' = table /\ expiry' = expiry
      BY <2>2 DEF TimerExpires
    <3> QED
      BY <1>0, <3>1, <3>2 DEF TypeOK
  <2>3. CASE TimerSends(r)
    <3>1. status[r] = "expired"
      BY <1>0, <2>3 DEF TimerSends, WorldInv
    <3> QED
      BY <2>3, <3>1 DEF TimerSends, docs, world, counts
  <2> QED
    BY <2>1, <2>2, <2>3 DEF Timer
<1>3. faults' \in 0..MaxFaults /\ (faults' = 0 => faults = 0)
  BY <1>0, <1>2, PersistedIs
<1>4. TypeOK' /\ ExecTypes'
  <2>0. status \in [Requests -> Statuses2] /\ expiry \in [Requests -> Reach]
    BY <1>0 DEF TypeOK, Statuses2
  <2>1. status' \in [Requests -> Statuses2] /\ expiry' \in [Requests -> Reach]
    <3>1. status' \in [Requests -> Statuses2]
      BY <1>2, <2>0 DEF Statuses2
    <3>2. expiry' \in [Requests -> Reach]
      BY <1>2, <2>0
    <3> QED
      BY <3>1, <3>2
  <2>2. timer' \in [Requests -> {"off", "armed", "cas", "send", "done"}]
    BY <1>0, <1>2 DEF TypeOK
  <2>3. table' \subseteq Requests /\ IsFiniteSet(table')
    <3>1. others' \in 0..others
      BY <1>0, <1>1, InteractiveAssumption DEF TypeOK, InteractiveAssumption
    <3> QED
      BY <1>0, <1>1, <3>1, FewerRequests
  <2> QED
    BY <1>0, <1>1, <1>3, <2>1, <2>2, <2>3 DEF TypeOK, ExecTypes, Busy, Statuses2, Form
<1>5. Around
  <2>1. \A p \in Requests : status'[p] = status[p]
                            \/ (status[p] = "pending" /\ status'[p] = "expired")
    BY <1>0, <1>2 DEF TypeOK
  <2> QED
    BY <1>1, <2>1 DEF Around
<1>6. WorldInv'
  <2>1. \A p \in Requests : status[p] = "expired" => status'[p] = "expired"
    BY <1>5 DEF Around
  <2>2. \A p \in Requests : timer'[p] = "send" \/ expiry'[p] # "away" => status'[p] = "expired"
    <3>1. ASSUME NEW p \in Requests, timer'[p] = "send"
          PROVE  status'[p] = "expired"
      BY <1>0, <1>2, <2>1, <3>1 DEF WorldInv, TypeOK
    <3>2. ASSUME NEW p \in Requests, expiry'[p] # "away"
          PROVE  status'[p] = "expired"
      BY <1>0, <1>2, <2>1, <3>2 DEF WorldInv, TypeOK
    <3> QED
      BY <3>1, <3>2
  <2>3. ASSUME NEW p \in Requests \ (replayed \cup lost), status'[p] = "pending",
               chat # "closed"
        PROVE  p \in table' \/ reg = p \/ \E w \in Cleaners : cleanup[w] = "expire"
    <3>1. status[p] = "pending" /\ (p \in table => p \in table')
      BY <1>0, <1>2, <2>3 DEF TypeOK
    <3> QED
      BY <1>0, <1>3, <2>3, <3>1 DEF WorldInv, ShownIsAnswerable
  <2>4. ShownIsAnswerable'
    BY <1>1, <2>3 DEF ShownIsAnswerable
  <2>5. ASSUME NEW p \in Requests, status'[p] = "pending"
        PROVE  p \in table' \cup lost' \/ reg' = p
    <3>1. status[p] = "pending" /\ (p \in table => p \in table')
      BY <1>0, <1>2, <2>5 DEF TypeOK
    <3> QED
      BY <1>0, <1>1, <2>5, <3>1 DEF WorldInv
  <2> QED
    BY <1>0, <1>1, <2>2, <2>4, <2>5 DEF WorldInv, Form
<1> QED
  BY <1>4, <1>5, <1>6, AroundKeeps

LEMMA ConnectionKeeps ==
    ASSUME IInv, Disconnect \/ Replaced \/ Reconnect \/ ProcessExit \/ Close
    PROVE  IInv'
<1>0. TypeOK /\ ExecTypes /\ ClaimInv /\ WorldInv
  BY DEF IInv, Core
<1>1. /\ UNCHANGED <<kind, asked, outbox, tries, queue, exec, fallbacks, table, claim, others,
                     status, stored, reg, timer, expiry, agent, faults, replays, replayed, lost,
                     verdict>>
      /\ link' \in {"up", "down"} /\ stale' \in BOOLEAN
      /\ chat' = chat \/ (chat = "alive" /\ chat' \in {"ended", "closed"})
      /\ drops' = drops \/ (drops < MaxDrops /\ drops' = drops + 1)
      /\ \/ cleanup' = cleanup
         \/ /\ cleanup["disconnect"] = "idle" /\ chat' = chat
            /\ \E to \in {"idle", "purge"} : cleanup' = [cleanup EXCEPT !["disconnect"] = to]
         \/ /\ chat = "alive" /\ chat' = "ended"
            /\ cleanup' = [cleanup EXCEPT !["exit"] = "purge"]
  BY <1>0 DEF Disconnect, Replaced, Reconnect, ProcessExit, Close, TypeOK, docs, timers, world,
              counts
<1>2. TypeOK' /\ ExecTypes'
  <2>1. drops' \in 0..MaxDrops
    BY <1>0, <1>1, InteractiveAssumption DEF TypeOK, InteractiveAssumption
  <2>2. cleanup' \in [Cleaners -> {"idle", "purge", "expire"}] /\ chat' \in {"alive", "ended", "closed"}
    BY <1>0, <1>1 DEF TypeOK
  <2> QED
    BY <1>0, <1>1, <2>1, <2>2 DEF TypeOK, ExecTypes, Busy
<1>3. Around
  BY <1>1 DEF Around
<1>4. WorldInv'
  <2>1. \A w \in Cleaners : cleanup[w] = "expire" => cleanup'[w] = "expire"
    BY <1>0, <1>1 DEF TypeOK, WorldInv
  <2>2. ShownIsAnswerable'
    BY <1>0, <1>1, <2>1 DEF WorldInv, ShownIsAnswerable
  <2>3. chat' = "alive" => cleanup'["exit"] = "idle"
    BY <1>0, <1>1 DEF TypeOK, WorldInv, Cleaners
  <2> QED
    BY <1>0, <1>1, <2>2, <2>3 DEF WorldInv, Form
<1> QED
  BY <1>2, <1>3, <1>4, AroundKeeps

LEMMA CleanupKeeps ==
    ASSUME IInv, NEW w \in Cleaners, Purge(w) \/ ExpireForms(w)
    PROVE  IInv'
<1>0. TypeOK /\ ExecTypes /\ ClaimInv /\ WorldInv /\ cleanup[w] # "idle"
  BY DEF IInv, Core, Purge, ExpireForms
<1>1. CASE Purge(w)
  <2>1. /\ UNCHANGED <<kind, asked, outbox, tries, queue, exec, fallbacks, claim, status, stored,
                       reg, timer, expiry, agent, chat, link, stale, faults, drops, replays,
                       replayed, verdict>>
        /\ table' \subseteq table /\ (~Form => table' = table) /\ others' = 0
        /\ lost' = IF Form /\ reg # None THEN lost \cup {reg} ELSE lost
        /\ cleanup' = [cleanup EXCEPT ![w] = "expire"]
    BY <1>1 DEF Purge, Form, docs, timers
  <2>2. TypeOK' /\ ExecTypes'
    <3>1. others' \in 0..others
      BY <1>0, <2>1, InteractiveAssumption DEF TypeOK, InteractiveAssumption
    <3>2. /\ table' \subseteq Requests /\ IsFiniteSet(table') /\ others' \in 0..MaxPending
          /\ kind' = "elicitation" => Cardinality(table') + others' <= MaxPending
      BY <1>0, <2>1, <3>1, FewerRequests
    <3>3. cleanup' \in [Cleaners -> {"idle", "purge", "expire"}] /\ lost' \subseteq Requests
      BY <1>0, <2>1 DEF TypeOK
    <3> QED
      BY <1>0, <2>1, <3>2, <3>3 DEF TypeOK, ExecTypes, Busy
  <2>3. Around
    BY <2>1 DEF Around
  <2>4. cleanup'[w] = "expire"
    BY <1>0, <2>1 DEF TypeOK
  <2>5. ShownIsAnswerable'
    BY <2>4 DEF ShownIsAnswerable
  <2>6. chat' = "alive" => cleanup'["exit"] = "idle"
    BY <1>0, <2>1 DEF TypeOK, WorldInv, Cleaners
  <2>7. WorldInv'
    BY <1>0, <2>1, <2>5, <2>6 DEF WorldInv, Form
  <2> QED
    BY <2>2, <2>3, <2>7, AroundKeeps
<1>2. CASE ExpireForms(w)
  <2>1. /\ UNCHANGED <<kind, asked, outbox, tries, queue, exec, fallbacks, table, claim, others,
                       stored, reg, timer, expiry, agent, chat, link, stale, faults, drops,
                       replays, replayed, lost, verdict>>
        /\ cleanup[w] = "expire" /\ cleanup' = [cleanup EXCEPT ![w] = "idle"]
        /\ \/ status' = status /\ (chat = "closed" \/ ~Form)
           \/ /\ Form
              /\ status' = [r \in Requests |->
                              IF status[r] \in Expires THEN "expired" ELSE status[r]]
    BY <1>0, <1>2 DEF ExpireForms, Form, timers, counts, TypeOK
  <2>2. TypeOK' /\ ExecTypes'
    <3>1. status' \in [Requests -> Statuses2]
      BY <1>0, <2>1 DEF TypeOK, Statuses2
    <3>2. cleanup' \in [Cleaners -> {"idle", "purge", "expire"}]
      BY <1>0, <2>1 DEF TypeOK
    <3> QED
      BY <1>0, <2>1, <3>1, <3>2 DEF TypeOK, ExecTypes, Busy, Statuses2
  <2>3. \A r \in Requests : \/ status'[r] = status[r]
                            \/ status[r] = "pending" /\ status'[r] = "expired"
                            \/ Form /\ status[r] = "responding" /\ status'[r] = "expired"
    BY <1>0, <2>1 DEF TypeOK, Expires
  <2>4. Around
    BY <2>1, <2>3 DEF Around
  <2>5. ShownIsAnswerable'
    BY <1>0, <2>1 DEF WorldInv, ShownIsAnswerable, Expires
  <2>6. chat' = "alive" => cleanup'["exit"] = "idle"
    BY <1>0, <2>1 DEF TypeOK, WorldInv, Cleaners
  <2>7. WorldInv'
    <3>1. Form /\ reg # None =>
              IF status'[reg] = "none" THEN reg \in table \cup lost ELSE reg \in replayed
      BY <1>0, <2>3 DEF WorldInv, TypeOK
    <3>2. \A r \in Requests : timer[r] = "send" \/ expiry[r] # "away" =>
              ~Form /\ status'[r] = "expired"
      BY <1>0, <2>3 DEF WorldInv
    <3> QED
      BY <1>0, <2>1, <2>5, <2>6, <3>1, <3>2 DEF WorldInv, Form
  <2> QED
    BY <2>2, <2>4, <2>7, AroundKeeps
<1> QED
  BY <1>1, <1>2

-----------------------------------------------------------------------------
(* The invariant.                                                          *)
LEMMA InitIInv == Init => IInv
<1> SUFFICES ASSUME Init PROVE IInv
  OBVIOUS
<1>1. /\ exec.pc = "idle" /\ exec \in ExecSet /\ exec = Idle
  BY DEF Init, Idle, ExecSet, Pcs
<1>2. asked \in [Commands -> Asks] /\ others \in 0..MaxPending /\ 0 \in 0..MaxTries
  BY InteractiveAssumption DEF Init, InteractiveAssumption
<1>3. IsFiniteSet(table) /\ Cardinality(table) = 0
  BY FS_EmptySet DEF Init
<1>4. TypeOK
  <2>1. outbox \in [Commands -> Record]
    BY AbsentTyped DEF Init
  <2>2. /\ 0 \in 0..MaxFaults /\ 0 \in 0..MaxDrops /\ 0 \in 0..MaxReplays
        /\ others + 0 <= MaxPending /\ others \in Nat
    BY <1>2, InteractiveAssumption DEF InteractiveAssumption
  <2>3. queue \in Seq(Attempts)
    BY DEF Init
  <2>4. stale \in BOOLEAN /\ lost \subseteq Requests /\ replayed \subseteq Requests
    BY DEF Init
  <2> QED
    BY <1>1, <1>2, <1>3, <2>1, <2>2, <2>3, <2>4 DEF Init, TypeOK, ExecSet, Reach, Cleaners
<1>5. ExecTypes
  BY <1>1, <1>3 DEF ExecTypes
<1>6. KnownInv /\ RecordInv /\ ClaimInv
  BY <1>1, AbsentTyped DEF Init, KnownInv, RecordInv, ClaimInv, Present, Moving
<1>7. LineInv
  <2>1. DOMAIN queue = {}
    BY DEF Init
  <2> QED
    BY <1>1, <2>1 DEF Init, LineInv, Busy
<1>8. StageInv /\ ReadyInv /\ AnswerInv
  BY <1>1 DEF StageInv, ReadyInv, AnswerInv, Early, Told, Chosen
<1>9. SentInv /\ OneWinner
  BY <1>1 DEF Init, SentInv, OneWinner, Winner, MayReach, Chosen, Told
<1>10. ResolvedInv
  BY DEF Init, ResolvedInv
<1>11. VerdictInv
  BY InteractiveAssumption DEF Init, VerdictInv, InteractiveAssumption, Verdicts2
<1>12. WorldInv
  BY DEF Init, WorldInv, ShownIsAnswerable, Cleaners
<1> QED
  BY <1>4, <1>5, <1>6, <1>7, <1>8, <1>9, <1>10, <1>11, <1>12 DEF IInv, Core

LEMMA NextIInv == IInv /\ [Next]_vars => IInv'
<1> SUFFICES ASSUME IInv, [Next]_vars PROVE IInv'
  OBVIOUS
<1>1. CASE Executor
  BY <1>1, StartNextKeeps, CheckFormKeeps, ClaimFormKeeps, BeginFormKeeps, BeginAgainKeeps,
     CheckQuestionKeeps, ResolveQuestionKeeps, ResolvedBeforeKeeps, AnswerToClosedKeeps,
     BarrierKeeps, ForwardAckedKeeps, ForwardNotDeliveredKeeps, ForwardUnknownKeeps,
     ConfirmFormKeeps, CompleteFormKeeps, SettleFormKeeps, SettleQuestionKeeps, PublishKeeps
     DEF Executor
<1>2. CASE Relay
  BY <1>2, ProjectFormKeeps, QuestionsKeep, TimerKeeps DEF Relay
<1>3. CASE Environment
  <2>1. ASSUME NEW c \in Commands, SubmitNew(c) \/ SubmitResume(c)
        PROVE  IInv'
    BY <2>1, SubmitNewKeeps, SubmitResumeKeeps
  <2>2. ASSUME NEW r \in Requests, RequestForm(r) \/ ReplayForm(r) \/ RequestQuestion(r)
        PROVE  IInv'
    BY <2>2, RequestFormKeeps, ReplayFormKeeps, QuestionsKeep
  <2>3. ASSUME Disconnect \/ Replaced \/ Reconnect \/ ProcessExit \/ Close
        PROVE  IInv'
    BY <2>3, ConnectionKeeps
  <2>4. ASSUME NEW w \in Cleaners, Purge(w) \/ ExpireForms(w)
        PROVE  IInv'
    BY <2>4, CleanupKeeps
  <2> QED
    BY <1>3, <2>1, <2>2, <2>3, <2>4 DEF Environment
<1>4. CASE UNCHANGED vars
  <2>1. Around
    BY <1>4 DEF Around, vars, docs, timers, world, counts
  <2>2. TypeOK' /\ ExecTypes' /\ WorldInv'
    BY <1>4 DEF IInv, TypeOK, ExecTypes, Busy, WorldInv, ShownIsAnswerable, Form, vars, docs,
                timers, world, counts
  <2> QED
    BY <2>1, <2>2, AroundKeeps
<1> QED
  BY <1>1, <1>2, <1>3, <1>4 DEF Next

\* The conjunction holds in every reachable state: the document decides before the agent
\* hears anything, and the outbox, the claim and the numbers of the executions keep a
\* second answer out.
THEOREM Invariance == Spec => []IInv
<1> QED
  BY InitIInv, NextIInv, PTL DEF Spec

-----------------------------------------------------------------------------
(* What follows from it.                                                   *)

\* At most one answer to a form that was sent once, or to a question, reaches the agent or
\* may still reach it, and none reaches one that was told that the question has expired.
THEOREM OneAnswerReaches == Spec => []OneAnswer
<1>1. IInv => OneAnswer
  <2> SUFFICES ASSUME IInv PROVE OneAnswer
    OBVIOUS
  <2>0. TypeOK /\ ExecTypes /\ SentInv /\ OneWinner /\ WorldInv
    BY DEF IInv, Core
  <2>1. ASSUME NEW r \in Requests \ replayed, NEW s \in Attempts, NEW t \in Attempts,
               MayReach(s), MayReach(t), Answered(s) = r, Answered(t) = r
        PROVE  s = t
    <3>1. CASE Form
      <4>1. Owned(s[1]) /\ Owned(t[1]) /\ P(s[1]) = r /\ P(t[1]) = r
        BY <2>0, <2>1, <3>1, Typed DEF SentInv
      <4>2. s[1] = t[1]
        BY <2>1, <4>1 DEF Owned
      <4> QED
        BY <2>0, <2>1, <3>1, <4>2 DEF SentInv
    <3>2. CASE ~Form
      BY <2>0, <2>1, <3>2 DEF OneWinner, Winner
    <3> QED
      BY <3>1, <3>2
  <2>2. ASSUME NEW t \in Attempts, MayReach(t)
        PROVE  expiry[Answered(t)] = "away"
    <3>1. Agreed(t[1]) /\ P(t[1]) = Answered(t) /\ Answered(t) \in Requests
      BY <2>0, <2>2, Typed DEF SentInv
    <3> QED
      BY <2>0, <3>1 DEF Agreed, WorldInv, Form, TypeOK
  <2> QED
    BY <2>1, <2>2 DEF OneAnswer, OneAnswerTo
<1> QED
  BY <1>1, Invariance, PTL

\* What a client is told of an answer is true of the agent, and an answer to a form that
\* may be sent again is executed again.
THEOREM AnswersTrue == Spec => []AnswersAreTrue
<1>1. IInv => AnswersAreTrue
  <2> SUFFICES ASSUME IInv PROVE AnswersAreTrue
    OBVIOUS
  <2>0. VerdictInv /\ RecordInv
    BY DEF IInv, Core
  <2>1. ASSUME NEW c \in Commands, kind = "elicitation", chat = "alive",
               tries[c] > 0, verdict[<<c, tries[c]>>] = "retryable"
        PROVE  Disposition(c) \in {"new", "resume"}
    <3>1. Retryable(outbox[c])
      BY <2>0, <2>1 DEF VerdictInv, Form
    <3>2. c \notin fallbacks
      BY <2>0, <3>1 DEF RecordInv, Retryable, Final
    <3> QED
      BY <2>1, <3>1, <3>2 DEF Disposition, RecoveryDisposition, Retryable, Present, Live,
                              LiveStatuses
  <2> QED
    BY <2>0, <2>1 DEF VerdictInv, AnswersAreTrue, Form
<1> QED
  BY <1>1, Invariance, PTL

\* What the document shows of forms and questions is true of what was sent and of what can
\* still be answered.
THEOREM ShownTrue == Spec => []ShownIsTrue
<1>1. IInv => ShownIsTrue
  <2> SUFFICES ASSUME IInv PROVE ShownIsTrue
    OBVIOUS
  <2>0. TypeOK /\ ExecTypes /\ SentInv /\ ResolvedInv /\ WorldInv
    BY DEF IInv, Core
  <2>1. ASSUME NEW t \in Attempts, MayReach(t)
        PROVE  /\ SameAnswer(stored[Answered(t)], asked[t[1]])
               /\ status[Answered(t)] \in {"responding", "resolved", "expired"}
               /\ kind = "question" => status[Answered(t)] = "resolved"
    <3>1. Agreed(t[1]) /\ P(t[1]) = Answered(t)
      BY <2>0, <2>1, Typed DEF SentInv
    <3> QED
      BY <3>1 DEF Agreed, Decided
  <2>2. SentAsShown
    BY <2>0, <2>1 DEF SentAsShown, ResolvedInv, Form
  <2> QED
    BY <2>0, <2>2 DEF ShownIsTrue, WorldInv
<1> QED
  BY <1>1, Invariance, PTL

\* What clients are told of an answer and what the document shows them is true.
THEOREM TruthIsSeen == Spec => []ClientsSeeTruth
<1>1. AnswersAreTrue /\ ShownIsTrue => ClientsSeeTruth
  BY DEF ClientsSeeTruth
<1> QED
  BY <1>1, AnswersTrue, ShownTrue, PTL

-----------------------------------------------------------------------------
(* The refinement of CommandPromise.                                       *)

Unfinished == {"forward", "finish"}

\* The barrier stands while an answer is on its way, and a question leaves no recovery
\* material: no execution is resumed after the agent has heard of the command.
RaisedInv ==
    /\ exec.pc \in Unfinished => Rec.barrier
    /\ ~Form => \A c \in Commands : outbox[c].recovery = None

\* A step of the execution that does not lead to the agent.
LEMMA AwayIsRaised ==
    ASSUME IInv, RaisedInv, UNCHANGED kind, exec'.pc \notin Unfinished,
           ~Form => \/ UNCHANGED outbox
                    \/ /\ Busy
                       /\ \E s : s.recovery = None /\ outbox' = [outbox EXCEPT ![Cmd] = s]
    PROVE  RaisedInv'
<1>1. outbox \in [Commands -> Record]
  BY DEF IInv, TypeOK
<1>2. ASSUME ~Form, NEW c \in Commands
      PROVE  outbox'[c].recovery = None
  BY <1>1, <1>2 DEF RaisedInv
<1> QED
  BY <1>2 DEF RaisedInv, Form

LEMMA UnknownIsRaised ==
    ASSUME IInv, RaisedInv, UNCHANGED kind, Busy, Unknown
    PROVE  RaisedInv'
<1>1. TypeOK /\ Cmd \in Commands /\ Rec = outbox[Cmd] /\ Rec \in Record
  BY Typed DEF IInv
<1>2. exec'.pc \notin Unfinished
  BY <1>1, FinishIs DEF Unknown, Verdicts2, Unfinished
<1>3. MarkDeliveryUnknown(Rec).recovery = Rec.recovery
  BY <1>1, LateSteps
<1>4. ~Form => Rec.recovery = None
  BY <1>1 DEF RaisedInv
<1>5. PICK s : s = MarkDeliveryUnknown(Rec)
  OBVIOUS
<1>6. outbox' = [outbox EXCEPT ![Cmd] = s] \/ UNCHANGED outbox
  BY <1>5 DEF Unknown, Store, Keep
<1> QED
  BY <1>2, <1>3, <1>4, <1>5, <1>6, AwayIsRaised

\* A step that leaves the record alone.
LEMMA SameIsRaised ==
    ASSUME RaisedInv, UNCHANGED <<kind, exec, outbox>>
    PROVE  RaisedInv'
BY DEF RaisedInv, Form, Rec, Cmd

LEMMA ExecutorIsRaised ==
    ASSUME IInv, RaisedInv, Executor
    PROVE  RaisedInv'
<1>0. TypeOK /\ ExecTypes /\ exec \in ExecSet /\ UNCHANGED kind
  BY Typed DEF IInv, Executor, StartNext, CheckForm, ClaimForm, BeginForm, BeginAgain,
     CheckQuestion, ResolveQuestion, ResolvedBefore, AnswerToClosed, Barrier, ForwardAcked,
     ForwardNotDelivered, ForwardUnknown, ConfirmForm, CompleteForm, SettleForm,
     SettleQuestion, Publish
<1>1. Busy => /\ Cmd \in Commands /\ Rec = outbox[Cmd] /\ Rec \in Record
              /\ (~Form => Rec.recovery = None)
  BY <1>0, Typed DEF RaisedInv
<1>2. \A pc \in Pcs : Goto(pc) => exec'.pc = pc
  BY <1>0, GotoIs
<1>3. \A a \in Verdicts2 : Finish(a) => exec'.pc = "publish"
  BY <1>0, FinishIs
<1>4. Unknown \/ FailBeforeDelivery => exec'.pc = "publish"
  BY <1>3 DEF Unknown, FailBeforeDelivery, Verdicts2
<1>5. ASSUME \/ CheckForm \/ ClaimForm \/ BeginForm \/ BeginAgain \/ ConfirmForm
             \/ CompleteForm \/ SettleForm
      PROVE  RaisedInv'
  <2>1. Form
    BY <1>5 DEF CheckForm, ClaimForm, BeginForm, BeginAgain, ConfirmForm, CompleteForm,
                SettleForm, At, Form
  <2>2. exec'.pc \notin Unfinished
    <3>1. ASSUME CheckForm
          PROVE  exec'.pc \notin Unfinished
      <4>1. [exec EXCEPT !.pc = "claim", !.resumed = TRUE].pc = "claim"
        BY <1>0 DEF ExecSet
      <4> QED
        BY <1>2, <1>3, <1>4, <3>1, <4>1 DEF CheckForm, Pcs, Verdicts2, Unfinished
    <3>2. ASSUME BeginAgain
          PROVE  exec'.pc \notin Unfinished
      <4>1. [exec EXCEPT !.pc = "barrier", !.replay = TRUE].pc = "barrier"
        BY <1>0 DEF ExecSet
      <4> QED
        BY <1>2, <1>3, <1>4, <3>2, <4>1 DEF BeginAgain, Pcs, Verdicts2, Unfinished
    <3>3. ASSUME ClaimForm
          PROVE  exec'.pc \notin Unfinished
      <4>1. Goto("cas") \/ FailBeforeDelivery
        BY <3>3 DEF ClaimForm
      <4> QED
        BY <1>2, <1>4, <4>1 DEF Pcs, Unfinished
    <3>5. ASSUME BeginForm \/ ConfirmForm
          PROVE  exec'.pc \notin Unfinished
      <4>1. Goto("barrier") \/ Goto("complete") \/ Finish("retryable") \/ Unknown
        BY <3>5 DEF BeginForm, ConfirmForm, Persisted
      <4> QED
        BY <1>2, <1>3, <1>4, <4>1 DEF Pcs, Verdicts2, Unfinished
    <3>4. ASSUME CompleteForm \/ SettleForm
          PROVE  exec'.pc \notin Unfinished
      BY <1>2, <1>3, <1>4, <3>4 DEF CompleteForm, SettleForm, Persisted, Pcs, Verdicts2,
                                    Unfinished
    <3> QED
      BY <1>5, <3>1, <3>2, <3>3, <3>4, <3>5
  <2> QED
    BY <1>0, <2>1, <2>2, AwayIsRaised
<1>6. ASSUME StartNext \/ ResolveQuestion \/ ResolvedBefore \/ AnswerToClosed \/ Publish
      PROVE  RaisedInv'
  <2>1. UNCHANGED outbox
    BY <1>6 DEF StartNext, ResolveQuestion, ResolvedBefore, AnswerToClosed, Publish
  <2>2. exec'.pc \notin Unfinished
    <3>1. ASSUME StartNext \/ Publish
          PROVE  exec'.pc \in {"check", "idle"}
      <4>1. PICK h : h = Head(queue)
        OBVIOUS
      <4>2. exec' = [Idle EXCEPT !.turn = h, !.pc = "check"] \/ exec' = Idle
        BY <3>1, <4>1 DEF StartNext, Publish
      <4>3. [Idle EXCEPT !.turn = h, !.pc = "check"].pc = "check" /\ Idle.pc = "idle"
        BY DEF Idle
      <4> QED
        BY <4>2, <4>3
    <3>2. ASSUME ResolveQuestion
          PROVE  exec'.pc \in {"barrier", "publish"}
      <4>1. Goto("barrier") \/ Finish("retryable")
        BY <3>2 DEF ResolveQuestion, Persisted
      <4> QED
        BY <1>2, <1>3, <4>1 DEF Pcs, Verdicts2
    <3>3. ASSUME ResolvedBefore \/ AnswerToClosed
          PROVE  exec'.pc = "publish"
      <4>1. Finish("duplicate") \/ Finish("failed")
        BY <3>3 DEF ResolvedBefore, AnswerToClosed
      <4> QED
        BY <1>3, <4>1 DEF Verdicts2
    <3> QED
      BY <1>6, <3>1, <3>2, <3>3 DEF Unfinished
  <2> QED
    BY <1>0, <2>1, <2>2, AwayIsRaised
<1>7. ASSUME CheckQuestion
      PROVE  RaisedInv'
  <2>1. exec'.pc \notin Unfinished
    BY <1>2, <1>3, <1>7 DEF CheckQuestion, Pcs, Verdicts2, Unfinished
  <2>2. Busy
    BY <1>7 DEF CheckQuestion, At, Busy
  <2>3. PICK s : s = MarkIntentDurable(Rec)
    OBVIOUS
  <2>4. s.recovery = Rec.recovery
    BY <1>1, <2>2, <2>3, EarlySteps
  <2>5. UNCHANGED outbox \/ outbox' = [outbox EXCEPT ![Cmd] = s]
    BY <1>7, <2>3 DEF CheckQuestion, Store, Keep
  <2> QED
    BY <1>0, <1>1, <2>1, <2>2, <2>4, <2>5, AwayIsRaised
<1>8. ASSUME SettleQuestion
      PROVE  RaisedInv'
  <2>1. exec'.pc \notin Unfinished
    BY <1>3, <1>8 DEF SettleQuestion, Verdicts2, Unfinished
  <2>2. Busy
    BY <1>8 DEF SettleQuestion, At, Busy
  <2>3. PICK s : s = MarkCompleted(Rec)
    OBVIOUS
  <2>4. s.recovery = Rec.recovery
    BY <1>1, <2>2, <2>3, LateSteps
  <2>5. UNCHANGED outbox \/ outbox' = [outbox EXCEPT ![Cmd] = s]
    BY <1>8, <2>3 DEF SettleQuestion, Store, Keep
  <2> QED
    BY <1>0, <1>1, <2>1, <2>2, <2>4, <2>5, AwayIsRaised
<1>9. ASSUME Barrier
      PROVE  RaisedInv'
  <2>1. Busy
    BY <1>9 DEF Barrier, Busy
  <2>2. CASE Unknown
    BY <1>0, <2>1, <2>2, UnknownIsRaised
  <2>3. CASE ~Unknown
    <3>1. outbox' = [outbox EXCEPT ![Cmd] = RaiseBarrier(Rec)] /\ Goto("forward")
      BY <1>9, <2>3 DEF Barrier, Store
    <3>2. exec'.turn = exec.turn
      BY <1>0, <3>1, GotoIs DEF Pcs
    <3>3. PICK s : s = RaiseBarrier(Rec)
      OBVIOUS
    <3>4. s.barrier = TRUE /\ s.recovery = Rec.recovery
      BY <1>1, <2>1, <3>3 DEF RaiseBarrier, Record
    <3>5. \A c \in Commands : outbox'[c] = IF c = Cmd THEN s ELSE outbox[c]
      BY <1>0, <3>1, <3>3 DEF TypeOK
    <3>6. Cmd' = Cmd /\ Rec' = s
      BY <1>1, <2>1, <3>2, <3>5 DEF Cmd, Rec
    <3> QED
      BY <1>0, <1>1, <2>1, <3>4, <3>5, <3>6 DEF RaisedInv, Form
  <2> QED
    BY <2>2, <2>3
<1>10. ASSUME ForwardAcked
       PROVE  RaisedInv'
  <2>1. exec.pc = "forward" /\ exec'.turn = exec.turn /\ UNCHANGED <<kind, outbox>>
    BY <1>0, <1>10, GotoIs DEF ForwardAcked, Pcs
  <2> QED
    BY <2>1 DEF RaisedInv, Unfinished, Form, Rec, Cmd
<1>11. ASSUME ForwardUnknown
       PROVE  RaisedInv'
  BY <1>0, <1>11, UnknownIsRaised DEF ForwardUnknown, TimeoutIsUnknown, Busy
<1>12. ASSUME ForwardNotDelivered
       PROVE  RaisedInv'
  <2>1. Busy
    BY <1>12 DEF ForwardNotDelivered, Busy
  <2>2. CASE Unknown
    BY <1>0, <2>1, <2>2, UnknownIsRaised
  <2>4. Unknown \/ (Form /\ Finish("retryable"))
    <3>1. PICK code : IF kind = "question" THEN Unknown
                      ELSE IF CanMarkRecoveryNotDelivered(Rec)
                      THEN Store(LowerBarrier(Rec, FromErrorCode(code)))
                           /\ Finish("retryable")
                      ELSE Unknown
      BY <1>12 DEF ForwardNotDelivered
    <3> QED
      BY <1>0, <3>1 DEF TypeOK, Form
  <2>3. CASE ~Unknown
    <3>1. Form /\ Finish("retryable")
      BY <2>3, <2>4
    <3>2. exec'.pc \notin Unfinished
      BY <1>3, <3>1 DEF Verdicts2, Unfinished
    <3> QED
      BY <1>0, <3>1, <3>2, AwayIsRaised
  <2> QED
    BY <2>2, <2>3
<1> QED
  BY <1>5, <1>6, <1>7, <1>8, <1>9, <1>10, <1>11, <1>12 DEF Executor

LEMMA NextIsRaised ==
    ASSUME IInv, RaisedInv, [Next]_vars
    PROVE  RaisedInv'
<1>1. CASE Executor
  BY <1>1, ExecutorIsRaised
<1>2. ASSUME \/ Relay \/ UNCHANGED vars
             \/ \E c \in Commands : SubmitResume(c)
             \/ \E r \in Requests : RequestForm(r) \/ ReplayForm(r) \/ RequestQuestion(r)
             \/ Disconnect \/ Replaced \/ Reconnect \/ ProcessExit \/ Close
             \/ \E w \in Cleaners : Purge(w) \/ ExpireForms(w)
      PROVE  RaisedInv'
  <2>1. UNCHANGED <<kind, exec, outbox>>
    BY <1>2 DEF Relay, ProjectForm, RegisterQuestion, Timer, TimerWakes, TimerExpires,
                TimerSends, SubmitResume, RequestForm, ReplayForm, RequestQuestion, Disconnect,
                Replaced, Reconnect, ProcessExit, Close, Purge, ExpireForms, vars
  <2> QED
    BY <2>1, SameIsRaised
<1>3. ASSUME NEW c \in Commands, SubmitNew(c)
      PROVE  RaisedInv'
  <2>1. outbox \in [Commands -> Record] /\ ~Present(outbox[c]) /\ UNCHANGED <<kind, exec>>
        /\ outbox' = [outbox EXCEPT ![c] = MarkAccepted(Insert(CommandType))]
    BY <1>3 DEF SubmitNew, Disposition, RecoveryDisposition, IInv, TypeOK
  <2>2. PICK s : s = MarkAccepted(Insert(CommandType))
    OBVIOUS
  <2>3. s.recovery = None
    BY <2>2, FreshTyped DEF CommandType, OneShotTypes
  <2>4. \A d \in Commands : outbox'[d] = IF d = c THEN s ELSE outbox[d]
    BY <2>1, <2>2
  <2>5. ASSUME exec.pc \in Unfinished
        PROVE  Rec' = Rec
    <3>1. Busy
      BY <2>5 DEF Unfinished, Busy
    <3>2. Present(Rec) /\ Cmd \in Commands /\ Rec = outbox[Cmd]
      BY <3>1, HasRecord, Typed DEF IInv, Core
    <3>3. Cmd # c /\ Cmd' = Cmd
      BY <2>1, <3>2 DEF Cmd
    <3> QED
      BY <2>4, <3>2, <3>3 DEF Rec
  <2> QED
    BY <2>1, <2>3, <2>4, <2>5 DEF RaisedInv, Form
<1> QED
  BY <1>1, <1>2, <1>3 DEF Next, Environment

-----------------------------------------------------------------------------
\* Before an execution is accepted, and before its answer is forwarded, the agent has
\* heard nothing of the command.
LEMMA NotHeard ==
    ASSUME IInv, RaisedInv
    PROVE  /\ \A c \in Commands : Disposition(c) \in {"new", "resume"} =>
                  \A t \in Attempts : t[1] = c => agent[t] = "away"
           /\ exec.pc = "forward" =>
                  \A t \in Attempts : t[1] = Cmd => agent[t] = "away"
<1>0. TypeOK /\ ExecTypes /\ KnownInv /\ LineInv /\ SentInv /\ StageInv /\ ReadyInv /\ OneWinner
  BY DEF IInv, Core
<1>1. ASSUME NEW t \in Attempts, agent[t] # "away"
      PROVE  Present(outbox[t[1]])
  <2>1. t[2] \in Nat /\ t[2] > 0 /\ tries[t[1]] \in Nat /\ t[1] \in Commands
    BY <1>0, Typed
  <2>2. t[2] <= tries[t[1]]
    BY <1>0, <1>1 DEF LineInv
  <2>3. tries[t[1]] > 0
    BY <2>1, <2>2
  <2> QED
    BY <1>0, <2>1, <2>3 DEF KnownInv
<1>2. ASSUME NEW c \in Commands, Disposition(c) = "new"
      PROVE  ~Present(outbox[c])
  BY <1>2 DEF Disposition, RecoveryDisposition
<1>3. ASSUME NEW c \in Commands, Disposition(c) = "resume",
             NEW t \in Attempts, t[1] = c, agent[t] # "away"
      PROVE  FALSE
  <2>1. outbox[c].recovery # None /\ ~outbox[c].barrier /\ outbox[c].status = "intent_durable"
    BY <1>3 DEF Disposition, RecoveryDisposition
  <2>2. Form
    BY <2>1 DEF RaisedInv
  <2>3. exec.pc \in Told /\ exec.turn = t
    BY <1>0, <1>3, <2>1, <2>2 DEF SentInv, MayReach, Final
  <2>4. Rec = outbox[c]
    BY <1>3, <2>3 DEF Rec, Cmd
  <2>5. exec.pc = "finish"
    BY <1>0, <2>1, <2>3, <2>4 DEF ReadyInv, Told
  <2> QED
    BY <2>1, <2>4, <2>5 DEF RaisedInv, Unfinished
<1>4. ASSUME exec.pc = "forward", NEW t \in Attempts, t[1] = Cmd, agent[t] # "away"
      PROVE  FALSE
  <2>1. exec.turn \in Attempts /\ Answered(t) = Answered(exec.turn)
        /\ Rec = outbox[Cmd] /\ Rec.status = "intent_durable"
    BY <1>0, <1>4, Typed DEF Busy, ReadyInv, Answered, Cmd
  <2>2. CASE Form
    BY <1>0, <1>4, <2>1, <2>2 DEF SentInv, MayReach, Told, Final
  <2>3. CASE ~Form
    <3>1. exec.turn = t
      BY <1>0, <1>4, <2>1, <2>3 DEF OneWinner, Winner, MayReach, Chosen
    <3> QED
      BY <1>0, <1>4, <3>1 DEF StageInv, Early
  <2> QED
    BY <2>2, <2>3
<1> QED
  BY <1>1, <1>2, <1>3, <1>4

LEMMA RefinesAccept ==
    ASSUME IInv, RaisedInv, NEW c \in Commands, SubmitNew(c) \/ SubmitResume(c)
    PROVE  Abstract!Accept(c)
<1>1. Disposition(c) \in {"new", "resume"} /\ Enqueue(c) /\ UNCHANGED <<agent, verdict>>
  BY DEF SubmitNew, SubmitResume
<1>2. \A t \in Attempts : t[1] = c => agent[t] = "away"
  BY <1>1, NotHeard
<1>3. Abstract!Unheard(c)
  BY <1>2 DEF Abstract!Unheard, Abstract!Attempts, Attempts, FrameOf
<1> QED
  BY <1>1, <1>3 DEF Abstract!Accept, Enqueue, FrameOf

\* The agent hears of the execution under way, and perhaps will only later.
LEMMA RefinesSend ==
    ASSUME IInv, RaisedInv, exec.pc = "forward", UNCHANGED <<tries, verdict>>,
           NEW where \in {"wire", "taken"}, agent' = [agent EXCEPT ![exec.turn] = where]
    PROVE  Abstract!Send(exec.turn)
<1>1. /\ exec.turn \in Attempts /\ Cmd \in Commands /\ Cmd = exec.turn[1]
      /\ exec.turn[2] <= tries[Cmd] /\ verdict[exec.turn] = None
  BY Typed DEF IInv, Core, LineInv, Busy
<1>2. \A t \in Attempts : t[1] = Cmd => agent[t] = "away"
  BY NotHeard
<1>3. Abstract!Unheard(exec.turn[1])
  BY <1>1, <1>2 DEF Abstract!Unheard, Abstract!Attempts, Attempts, FrameOf
<1>4. Abstract!Open(exec.turn)
  BY <1>1 DEF Abstract!Open
<1>5. agent \in [Attempts -> Reach]
  BY DEF IInv, TypeOK
<1>6. [t \in Attempts |-> FrameOf(t)]' = [[t \in Attempts |-> FrameOf(t)]
                                            EXCEPT ![exec.turn] = "sent"]
  <2>1. \A t \in Attempts : FrameOf(t)' = IF t = exec.turn THEN "sent" ELSE FrameOf(t)
    BY <1>1, <1>5 DEF FrameOf
  <2> QED
    BY <1>1, <2>1
<1> QED
  BY <1>3, <1>4, <1>6 DEF Abstract!Send

LEMMA RefinesAnswer ==
    ASSUME IInv, Publish
    PROVE  Abstract!Answer(exec.turn)
<1>1. exec.pc = "publish" /\ verdict' = [verdict EXCEPT ![exec.turn] = exec.answer]
      /\ UNCHANGED <<tries, agent>>
  BY DEF Publish
<1>2. /\ exec.turn \in Attempts /\ Cmd = exec.turn[1] /\ exec \in ExecSet
      /\ exec.turn[2] <= tries[Cmd] /\ verdict[exec.turn] = None
  BY <1>1, Typed DEF IInv, Core, LineInv, Busy
<1>3. Abstract!Open(exec.turn)
  BY <1>2 DEF Abstract!Open
<1>4. exec.answer \in Verdicts2
  BY <1>1, <1>2 DEF IInv, Core, AnswerInv, ExecSet
<1>5. Abstract!True(exec.turn, exec.answer)
  BY <1>1, <1>2 DEF IInv, Core, AnswerInv, Abstract!True, FrameOf
<1> QED
  BY <1>1, <1>3, <1>4, <1>5 DEF Abstract!Answer, Verdicts2, FrameOf

\* Answers to forms and questions keep the promise of CommandPromise: of all executions of
\* a command one at most reaches the agent, each is answered once and truly, and none is
\* accepted after the agent has heard of the command.
THEOREM AnswersKeepPromise == Spec => KeepsPromise
<1>1. Init => Abstract!Init
  BY DEF Init, Abstract!Init, Abstract!Attempts, Attempts, FrameOf
<1>2. Init => RaisedInv
  BY AbsentTyped DEF Init, RaisedInv, Idle, Unfinished
<1>3. ASSUME IInv, RaisedInv, [Next]_vars
      PROVE  [Abstract!Next]_(Abstract!vars)
  <2> DEFINE Goal == Abstract!Next \/ UNCHANGED Abstract!vars
  <2>1. ASSUME UNCHANGED <<tries, agent, verdict>>
        PROVE  Goal
    BY <2>1 DEF Abstract!vars, FrameOf
  <2>2. ASSUME NEW c \in Commands, SubmitNew(c) \/ SubmitResume(c)
        PROVE  Goal
    BY <1>3, <2>2, RefinesAccept DEF Abstract!Next
  <2>3. ASSUME Publish
        PROVE  Goal
    <3>1. exec.turn \in Abstract!Attempts
      BY <1>3, <2>3, Typed DEF IInv, Busy, Publish, Attempts, Abstract!Attempts
    <3> QED
      BY <1>3, <2>3, <3>1, RefinesAnswer DEF Abstract!Next
  <2>4. ASSUME ForwardAcked \/ ForwardUnknown
        PROVE  Goal
    <3>1. /\ exec.pc = "forward" /\ UNCHANGED <<tries, verdict>>
          /\ exec.turn \in Attempts /\ agent[exec.turn] = "away"
      BY <1>3, <2>4, Typed DEF IInv, Core, StageInv, Early, Busy, ForwardAcked, ForwardUnknown
    <3>2. PICK where \in Reach : agent' = [agent EXCEPT ![exec.turn] = where]
      BY <2>4 DEF ForwardAcked, ForwardUnknown, Reach
    <3>3. CASE where = "away"
      <4>1. UNCHANGED agent
        BY <1>3, <3>1, <3>2, <3>3 DEF IInv, TypeOK
      <4> QED
        BY <2>1, <3>1, <4>1
    <3>4. CASE where \in {"wire", "taken"}
      <4>1. Abstract!Send(exec.turn)
        BY <1>3, <3>1, <3>2, <3>4, RefinesSend
      <4> QED
        BY <3>1, <4>1 DEF Abstract!Next, Attempts, Abstract!Attempts
    <3> QED
      BY <3>2, <3>3, <3>4 DEF Reach
  <2>5. ASSUME \/ StartNext \/ CheckForm \/ ClaimForm \/ BeginForm \/ BeginAgain
               \/ CheckQuestion \/ ResolveQuestion \/ ResolvedBefore \/ AnswerToClosed
               \/ Barrier \/ ForwardNotDelivered \/ ConfirmForm \/ CompleteForm \/ SettleForm
               \/ SettleQuestion \/ Relay \/ UNCHANGED vars
        PROVE  UNCHANGED <<tries, agent, verdict>>
    BY <2>5 DEF StartNext, CheckForm, ClaimForm, BeginForm, BeginAgain, CheckQuestion,
                ResolveQuestion, ResolvedBefore, AnswerToClosed, Barrier, ForwardNotDelivered,
                ConfirmForm, CompleteForm, SettleForm, SettleQuestion, Relay, ProjectForm,
                RegisterQuestion, Timer, TimerWakes, TimerExpires, TimerSends, vars
  <2>6. ASSUME \/ \E r \in Requests : RequestForm(r) \/ ReplayForm(r) \/ RequestQuestion(r)
               \/ Disconnect \/ Replaced \/ Reconnect \/ ProcessExit \/ Close
               \/ \E w \in Cleaners : Purge(w) \/ ExpireForms(w)
        PROVE  UNCHANGED <<tries, agent, verdict>>
    BY <2>6 DEF RequestForm, ReplayForm, RequestQuestion, Disconnect, Replaced, Reconnect,
                ProcessExit, Close, Purge, ExpireForms
  <2> HIDE DEF Goal
  <2>7. Goal
    BY <1>3, <2>1, <2>2, <2>3, <2>4, <2>5, <2>6 DEF Next, Executor, Environment
  <2> QED
    BY <2>7 DEF Goal
<1> QED
  BY <1>1, <1>2, <1>3, InitIInv, NextIInv, NextIsRaised, PTL
     DEF Spec, KeepsPromise, Abstract!Spec
=============================================================================
