--------------------- MODULE PermissionResolution_proofs ---------------------
(***************************************************************************)
(* At most one answer to a permission request reaches the agent, and it is *)
(* the one the document shows: for any set of commands, requests and       *)
(* clients, any limits of the broker and any number of executions.         *)
(*                                                                         *)
(* A command is entitled to answer a request once it holds the recovery    *)
(* material, has decided, or has sent.  The claim in the table of the      *)
(* relay and the compare-and-set in the document together let one command  *)
(* become entitled, with the claim or without (a legacy answer), and the   *)
(* outbox lets an entitled command send once.                              *)
(*                                                                         *)
(* The second half is about what the clients are told (AInv): an answer is *)
(* true of the agent when it is given and ever after, and what is announced*)
(* as retryable is executed again.  It rests on the order of the attempts  *)
(* of a command and on why a command with a fallback cannot get that far.  *)
(*                                                                         *)
(* The last part shows that this is the promise of CommandPromise, with    *)
(* both halves and with the barrier that stands while an answer is sent.   *)
(***************************************************************************)
EXTENDS PermissionResolution, FiniteSetTheorems, TLAPS

Final == {"completed", "failed", "delivery_unknown"}
Reaches == {"away", "wire", "taken", "refused"}
Sending == {"forward", "finish", "confirm"}

P(c) == asked[c].perm

Types ==
    /\ asked \in [Commands -> Asks]
    /\ outbox \in [Commands -> Record]
    /\ tries \in [Commands -> 0..MaxTries]
    /\ queue \in Seq([turn : Attempts, client : Clients])
    /\ exec \in [turn : Attempts \cup {None}, client : Clients \cup {None}, pc : Pcs,
                 held : Evidence \cup {None}, answer : Answers \cup {None}]
    /\ pending \subseteq Permissions /\ claim \in [Permissions -> Commands \cup {None}]
    /\ status \in [Permissions -> Decisions \cup {"none", "pending", "expired"}]
    /\ reg \in Permissions \cup {None}
    /\ agent \in [Attempts -> Reaches]
    /\ At("idle") \/ exec.turn \in Attempts

\* A command is submitted for a request the document has shown, and it stays shown; the
\* table takes a claim only on such a request.
Shown ==
    /\ \A i \in DOMAIN queue : status[P(queue[i].turn[1])] # "none"
    /\ ~At("idle") => status[P(Cmd)] # "none"
    /\ reg # None => status[reg] = "none"
    /\ \A p \in Permissions : status[p] = "none" => claim[p] = None

\* Where the execution under way is, its record and what it holds.
ExecShape ==
    /\ exec.pc \in {"cas", "barrier", "forward", "finish"} => Rec.status = "intent_durable"
    /\ At("claim") /\ exec.held = None => Rec.status = "intent_durable"
    /\ At("confirm") => Rec.status = "dispatched"
    /\ exec.pc \in {"claim", "cas", "barrier", "forward", "finish"} /\ exec.held # None =>
          exec.held = Ask.perm /\ Rec.recovery = exec.held
    /\ At("cas") /\ exec.held = None =>
          Ask.perm \notin pending \/ claim[Ask.perm] \notin {None, Cmd}
    /\ exec.pc \in {"barrier"} \cup Sending => status[Ask.perm] = Ask.decision

\* Recovery material names the request, and its holder has the claim.
RecoveryIsClaimed ==
    \A c \in Commands : outbox[c].recovery # None =>
        /\ outbox[c].recovery = P(c) /\ claim[P(c)] = c
        /\ outbox[c].status # "absent" /\ status[P(c)] # "none"

\* A claim is on the request its command answers, and whoever has it has decided, is
\* about to, or never will.
ClaimDecides ==
    \A p \in Permissions : claim[p] # None =>
        /\ P(claim[p]) = p
        /\ status[p] = "pending" => chat = "closed" \/ (At("cas") /\ Cmd = claim[p])

Sent(c) == \E n \in 1..MaxTries : agent[<<c, n>>] # "away"
Deciding(c) == exec.pc \in {"barrier"} \cup Sending /\ Cmd = c
Entitled(c) == outbox[c].recovery # None \/ Deciding(c) \/ Sent(c)

\* An entitled command has the claim, or there is none to be had any more.
EntitledClaims ==
    \A c \in Commands : Entitled(c) =>
        /\ status[P(c)] # "none"
        /\ claim[P(c)] = c \/ (claim[P(c)] = None /\ P(c) \notin pending)

OneEntitled ==
    \A c, d \in Commands : Entitled(c) /\ Entitled(d) /\ P(c) = P(d) => c = d

\* A command that has sent is over, or its execution is just finishing.
SentIsFinal ==
    \A t \in Attempts : agent[t] # "away" =>
        outbox[t[1]].status \in Final \/ (exec.pc \in {"finish", "confirm"} /\ exec.turn = t)

OneSent ==
    \A s, t \in Attempts : agent[s] # "away" /\ agent[t] # "away" /\ s[1] = t[1] => s = t

IInv ==
    /\ Types /\ Shown /\ ExecShape
    /\ RecoveryIsClaimed /\ ClaimDecides
    /\ EntitledClaims /\ OneEntitled
    /\ SentIsFinal /\ OneSent /\ SentAsDecided

-----------------------------------------------------------------------------
(* What the methods of the outbox leave of a record.                       *)
LEMMA ErrorTyped == \A code \in Codes : FromErrorCode(code) \in Errors
<1>1. \A code : DefaultRetryable(code) \in BOOLEAN
  BY DEF DefaultRetryable
<1> QED
  BY <1>1 DEF FromErrorCode, Errors

LEMMA AbsentTyped == Absent \in Record /\ Absent.recovery = None
BY DEF Absent, Record, CommandTypes, OneShotTypes, Statuses, LiveStatuses, Terminal, NoError,
       Errors, Codes

LEMMA FreshTyped ==
    MarkAccepted(Insert("resolve")) \in Record /\ MarkAccepted(Insert("resolve")).recovery = None
BY DEF MarkAccepted, Insert, Move, Absent, Record, CommandTypes, OneShotTypes, Statuses,
       LiveStatuses, Terminal, NoError, Errors, Codes

\* Steps that keep the status or go forward keep the recovery material.
LEMMA ForwardSteps ==
    ASSUME NEW r \in Record
    PROVE  /\ LET s == MarkIntentDurable(r)
              IN  s \in Record /\ s.status = "intent_durable" /\ s.recovery = r.recovery
           /\ \A ev \in Evidence :
                 LET s == SetRecovery(r, ev)
                 IN  s \in Record /\ s.status = r.status /\ s.recovery = ev
           /\ LET s == RaiseBarrier(r)
              IN  s \in Record /\ s.status = r.status /\ s.recovery = r.recovery
           /\ LET s == MarkDispatched(r)
              IN  s \in Record /\ s.status = "dispatched" /\ s.recovery = r.recovery
<1> USE DEF Record, Statuses, LiveStatuses, Terminal, Move
<1>1. LET s == MarkIntentDurable(r)
      IN  s \in Record /\ s.status = "intent_durable" /\ s.recovery = r.recovery
  BY DEF MarkIntentDurable
<1>2. \A ev \in Evidence :
         LET s == SetRecovery(r, ev) IN s \in Record /\ s.status = r.status /\ s.recovery = ev
  BY DEF SetRecovery
<1>3. LET s == RaiseBarrier(r)
      IN  s \in Record /\ s.status = r.status /\ s.recovery = r.recovery
  BY DEF RaiseBarrier
<1>4. LET s == MarkDispatched(r)
      IN  s \in Record /\ s.status = "dispatched" /\ s.recovery = r.recovery
  <2>1. r.attempts + 1 \in Nat
    OBVIOUS
  <2> QED
    BY <2>1 DEF MarkDispatched
<1> QED
  BY <1>1, <1>2, <1>3, <1>4

\* Steps that end an execution; only one that proves non-delivery keeps the record alive.
LEMMA EndSteps ==
    ASSUME NEW r \in Record
    PROVE  /\ \A code \in Codes :
                 LET s == LowerBarrier(r, FromErrorCode(code))
                 IN  s \in Record /\ s.status = r.status /\ s.recovery = r.recovery
           /\ LET s == MarkDeliveryUnknown(r)
              IN  s \in Record /\ s.status = "delivery_unknown" /\ s.recovery = r.recovery
           /\ LET s == MarkCompleted(MarkProjectionCommitted(MarkDeliveryConfirmed(r)))
              IN  s \in Record /\ s.status = "completed" /\ s.recovery = r.recovery
           /\ LET s == MarkCompleted(MarkProjectionCommitted(ClearRecovery(
                           MarkDeliveryConfirmed(MarkDispatched(r)))))
              IN  s \in Record /\ s.status = "completed" /\ s.recovery = None
<1> USE DEF Record, Statuses, LiveStatuses, Terminal, Move
<1>1. ASSUME NEW code \in Codes
      PROVE  LET s == LowerBarrier(r, FromErrorCode(code))
             IN  s \in Record /\ s.status = r.status /\ s.recovery = r.recovery
  BY ErrorTyped DEF LowerBarrier
<1>2. LET s == MarkDeliveryUnknown(r)
      IN  s \in Record /\ s.status = "delivery_unknown" /\ s.recovery = r.recovery
  <2>1. FromErrorCode("DELIVERY_UNKNOWN") \in Errors
    BY ErrorTyped DEF Codes
  <2> QED
    BY <2>1 DEF MarkDeliveryUnknown
<1>3. LET s == MarkCompleted(MarkProjectionCommitted(MarkDeliveryConfirmed(r)))
      IN  s \in Record /\ s.status = "completed" /\ s.recovery = r.recovery
  BY DEF MarkCompleted, MarkProjectionCommitted, MarkDeliveryConfirmed
<1>4. LET s == MarkCompleted(MarkProjectionCommitted(ClearRecovery(
                   MarkDeliveryConfirmed(MarkDispatched(r)))))
      IN  s \in Record /\ s.status = "completed" /\ s.recovery = None
  <2>1. MarkDispatched(r) \in Record
    BY ForwardSteps
  <2>2. \A q \in Record : LET s == MarkCompleted(MarkProjectionCommitted(ClearRecovery(
                                       MarkDeliveryConfirmed(q))))
                          IN  s \in Record /\ s.status = "completed" /\ s.recovery = None
    BY DEF MarkCompleted, MarkProjectionCommitted, MarkDeliveryConfirmed, ClearRecovery
  <2> HIDE DEF Record, Statuses, LiveStatuses, Terminal, Move
  <2> QED
    BY <2>1, <2>2
<1> QED
  BY <1>1, <1>2, <1>3, <1>4

\* A failed record is final, and only a live one can fail.
LEMMA FailSteps ==
    ASSUME NEW r \in Record, NEW err \in Errors, CanMarkFailed(r, err)
    PROVE  LET s == MarkFailed(r, err)
           IN  /\ s \in Record /\ s.recovery \in {None, r.recovery}
               /\ s.recovery # None => s.status # "absent"
               /\ err.retryable = FALSE => s.status = "failed"
               /\ r.status \notin Final
<1> DEFINE noted == [r EXCEPT !.lastError = err]
           s == MarkFailed(r, err)
<1>1. noted \in Record /\ noted.recovery = r.recovery /\ noted.status = r.status
  BY DEF Record
<1>2. \A st \in Statuses : LET m == Move(noted, st)
                           IN  m \in Record /\ m.recovery = r.recovery /\ m.status = st
  <2> HIDE DEF noted
  <2> QED
    BY <1>1 DEF Record, Move
<1>3. LET m == [noted EXCEPT !.status = "intent_durable", !.dispatchedAt = FALSE]
      IN  m \in Record /\ m.recovery = r.recovery /\ m.status = "intent_durable"
  <2> HIDE DEF noted
  <2> QED
    BY <1>1 DEF Record, Statuses, LiveStatuses
<1>4. \/ err.retryable = FALSE /\ s = Move(noted, "failed")
      \/ err.retryable = TRUE
         /\ \/ s = Move(noted, "delivery_unknown")
            \/ s = [noted EXCEPT !.status = "intent_durable", !.dispatchedAt = FALSE]
            \/ s = Absent
  BY DEF MarkFailed, Errors
<1>5. r.status \notin Final
  BY DEF CanMarkFailed, Live, LiveStatuses, Final
<1>6. {"failed", "delivery_unknown"} \subseteq Statuses
  BY DEF Statuses, Terminal
<1> HIDE DEF noted, s
<1>7. s \in Record /\ s.recovery \in {None, r.recovery}
  BY <1>2, <1>3, <1>4, <1>6, AbsentTyped
<1>8. s.recovery # None => s.status # "absent"
  BY <1>2, <1>3, <1>4, <1>6, AbsentTyped
<1>9. err.retryable = FALSE => s.status = "failed"
  BY <1>2, <1>4, <1>6
<1> QED
  BY <1>5, <1>7, <1>8, <1>9 DEF s

-----------------------------------------------------------------------------
(* What the types say of the command under way.                            *)
LEMMA Typed ==
    ASSUME Types
    PROVE  /\ \A c \in Commands : /\ asked[c] \in Asks /\ P(c) \in Permissions
                                  /\ asked[c].decision \in Decisions /\ outbox[c] \in Record
           /\ \A t \in Attempts : /\ t[1] \in Commands /\ t[2] \in 1..MaxTries
                                  /\ t = <<t[1], t[2]>>
           /\ ~At("idle") => exec.turn \in Attempts /\ Cmd \in Commands
           /\ exec.pc \in Pcs /\ exec.held \in Evidence \cup {None}
           /\ None \notin Permissions /\ None \notin Commands
<1>1. \A c \in Commands : asked[c] \in Asks /\ outbox[c] \in Record
  BY DEF Types
<1>2. \A a \in Asks : a.perm \in Permissions /\ a.decision \in Decisions
  BY PermissionAssumption DEF PermissionAssumption
<1>3. ~At("idle") => exec.turn \in Attempts
  BY DEF Types
<1>4. exec.pc \in Pcs /\ exec.held \in Evidence \cup {None}
  BY DEF Types
<1>5. None \notin Permissions /\ None \notin Commands
  BY NoneIsNothing, PermissionAssumption DEF NoneIsNothing, PermissionAssumption
<1>6. \A t \in Attempts : t[1] \in Commands /\ t[2] \in 1..MaxTries /\ t = <<t[1], t[2]>>
  BY DEF Attempts
<1> QED
  BY <1>1, <1>2, <1>3, <1>4, <1>5, <1>6 DEF P, Cmd

LEMMA Queued ==
    ASSUME Types, NEW i \in DOMAIN queue
    PROVE  queue[i].turn \in Attempts /\ queue[i].turn[1] \in Commands
<1> DEFINE Entries == [turn : Attempts, client : Clients]
<1>1. queue \in Seq(Entries)
  BY DEF Types
<1>2. queue[i] \in Entries
  <2> HIDE DEF Entries
  <2> QED
    BY <1>1
<1> QED
  BY <1>2, Typed

\* Where nobody becomes entitled, no claim moves and no shown request enters the table,
\* those who are entitled keep what they have.
LEMMA Kept ==
    ASSUME EntitledClaims, OneEntitled, UNCHANGED <<asked, claim>>,
           \A c \in Commands : P(c) \in Permissions,
           \A c \in Commands : Entitled(c)' => Entitled(c),
           \A p \in Permissions : status[p] # "none" =>
               status'[p] # "none" /\ (p \in pending' => p \in pending)
    PROVE  EntitledClaims' /\ OneEntitled'
<1>1. \A c \in Commands : P(c)' = P(c)
  BY DEF P
<1>2. EntitledClaims'
  BY <1>1 DEF EntitledClaims
<1>3. OneEntitled'
  BY <1>1 DEF OneEntitled
<1> QED
  BY <1>2, <1>3

-----------------------------------------------------------------------------
(* The steps of the environment that start no execution.                   *)
LEMMA Background ==
    ASSUME IInv,
           UNCHANGED <<asked, outbox, tries, queue, exec, claim, agent>>,
           pending' \subseteq pending, reg' \in Permissions \cup {None},
           status' \in [Permissions -> Decisions \cup {"none", "pending", "expired"}],
           \A p \in Permissions : \/ status'[p] = status[p]
                                  \/ status[p] = "none" /\ status'[p] = "pending"
                                  \/ status[p] = "pending" /\ status'[p] = "expired",
           chat' = chat \/ chat # "closed",
           reg' # None => status'[reg'] = "none"
    PROVE  IInv'
<1>0. IInv /\ Types
  BY DEF IInv
<1>1. Types'
  BY <1>0 DEF Types, At
<1>2. /\ P(Cmd)' = P(Cmd) /\ Ask' = Ask /\ Rec' = Rec /\ Cmd' = Cmd
      /\ \A c \in Commands : P(c)' = P(c) /\ P(c) \in Permissions
      /\ \A p \in Permissions : status[p] # "none" => status'[p] # "none"
      /\ \A p \in Permissions, d \in Decisions : status[p] = d => status'[p] = d
  BY <1>0, Typed DEF P, Ask, Rec, Cmd, Decisions
<1>3. Shown'
  <2>1. ASSUME NEW i \in DOMAIN queue
        PROVE  status'[P(queue[i].turn[1])] # "none"
    <3>1. queue[i].turn[1] \in Commands
      BY <1>0, Queued
    <3> QED
      BY <1>0, <1>2, <3>1 DEF IInv, Shown
  <2>2. ~At("idle") => Cmd \in Commands /\ status'[P(Cmd)] # "none"
    BY <1>0, <1>2, Typed DEF IInv, Shown
  <2>3. \A p \in Permissions : status'[p] = "none" => claim[p] = None
    BY <1>0, <1>2 DEF IInv, Shown
  <2> QED
    BY <1>2, <2>1, <2>2, <2>3 DEF Shown, At, P, Cmd
<1>4. ExecShape'
  <2>1. ~At("idle") => /\ Ask.perm \in Permissions /\ Ask.decision \in Decisions
    BY <1>0, Typed DEF Ask, P
  <2>2. exec.pc \in {"barrier"} \cup Sending => status'[Ask.perm] = Ask.decision
    BY <1>0, <1>2, <2>1 DEF IInv, ExecShape, At, Sending
  <2>3. At("cas") /\ exec.held = None =>
            Ask.perm \notin pending' \/ claim[Ask.perm] \notin {None, Cmd}
    BY <1>0 DEF IInv, ExecShape
  <2> QED
    BY <1>0, <1>2, <2>2, <2>3 DEF IInv, ExecShape, At, Sending
<1>5. RecoveryIsClaimed'
  BY <1>0, <1>2 DEF IInv, RecoveryIsClaimed
<1>6. ClaimDecides'
  <2>1. ASSUME NEW p \in Permissions, claim[p] # None
        PROVE  /\ P(claim[p])' = p
               /\ status'[p] = "pending" => chat' = "closed" \/ (At("cas") /\ Cmd = claim[p])
    <3>1. P(claim[p]) = p /\ status[p] # "none"
      BY <1>0, <2>1 DEF IInv, ClaimDecides, Shown
    <3>2. status'[p] = "pending" => status[p] = "pending"
      BY <3>1
    <3> QED
      BY <1>0, <2>1, <3>1, <3>2 DEF IInv, ClaimDecides, P
  <2> QED
    BY <2>1 DEF ClaimDecides, At, Cmd
<1>7. EntitledClaims' /\ OneEntitled'
  <2>1. \A c \in Commands : Entitled(c)' => Entitled(c)
    BY DEF Entitled, Deciding, Sent, Cmd
  <2> QED
    BY <1>0, <1>2, <2>1, Kept DEF IInv
<1>8. SentIsFinal' /\ OneSent'
  BY <1>0 DEF IInv, SentIsFinal, OneSent
<1>9. SentAsDecided'
  <2>1. \A t \in Attempts : /\ asked[t[1]].perm \in Permissions
                            /\ asked[t[1]].decision \in Decisions
    BY <1>0, Typed DEF P
  <2> QED
    BY <1>0, <1>2, <2>1 DEF IInv, SentAsDecided
<1> QED
  BY <1>1, <1>3, <1>4, <1>5, <1>6, <1>7, <1>8, <1>9 DEF IInv

-----------------------------------------------------------------------------
(* The steps that end an execution with an answer, or publish it.          *)
LEMMA Ends ==
    ASSUME IInv, ~At("idle"),
           UNCHANGED <<asked, tries, queue, claim, status, reg, chat>>,
           NEW s \in Record, NEW w \in Reaches,
           outbox' = [outbox EXCEPT ![Cmd] = s],
           s.recovery \in {None, Rec.recovery},
           s.recovery # None => s.status # "absent",
           Rec.status \in Final \/ exec.pc \in {"finish", "confirm"} => s.status \in Final,
           agent' = [agent EXCEPT ![exec.turn] = w],
           w = agent[exec.turn] \/ (exec.pc \in {"forward", "confirm"} /\ s.status \in Final),
           exec' = Idle \/ \E a \in Answers : exec' = [exec EXCEPT !.pc = "publish", !.answer = a],
           pending' \subseteq pending,
           At("cas") => chat = "closed" \/ status[Ask.perm] # "pending"
    PROVE  IInv'
<1>0. IInv /\ Types
  BY DEF IInv
<1>1. exec.turn \in Attempts /\ Cmd \in Commands /\ Cmd = exec.turn[1] /\ P(Cmd) = Ask.perm
  BY <1>0, Typed DEF Cmd, P, Ask
<1>2. exec' \in [turn : Attempts \cup {None}, client : Clients \cup {None}, pc : Pcs,
                 held : Evidence \cup {None}, answer : Answers \cup {None}]
  <2>1. exec \in [turn : Attempts \cup {None}, client : Clients \cup {None}, pc : Pcs,
                  held : Evidence \cup {None}, answer : Answers \cup {None}]
    BY <1>0 DEF Types
  <2>2. CASE exec' = Idle
    BY <2>2 DEF Idle, Pcs
  <2>3. ASSUME NEW a \in Answers, exec' = [exec EXCEPT !.pc = "publish", !.answer = a]
        PROVE  exec' \in [turn : Attempts \cup {None}, client : Clients \cup {None}, pc : Pcs,
                          held : Evidence \cup {None}, answer : Answers \cup {None}]
    BY <2>1, <2>3 DEF Pcs
  <2> QED
    BY <2>2, <2>3
<1>3. exec'.pc = "idle" \/ (exec'.pc = "publish" /\ exec'.turn = exec.turn)
  <2>1. exec \in [turn : Attempts \cup {None}, client : Clients \cup {None}, pc : Pcs,
                  held : Evidence \cup {None}, answer : Answers \cup {None}]
    BY <1>0 DEF Types
  <2>2. CASE exec' = Idle
    BY <2>2 DEF Idle
  <2>3. ASSUME NEW a \in Answers, exec' = [exec EXCEPT !.pc = "publish", !.answer = a]
        PROVE  exec'.pc = "publish" /\ exec'.turn = exec.turn
    BY <2>1, <2>3
  <2> QED
    BY <2>2, <2>3
<1>4. /\ \A c \in Commands : P(c)' = P(c) /\ P(c) \in Permissions
      /\ outbox \in [Commands -> Record] /\ agent \in [Attempts -> Reaches]
  BY <1>0, Typed DEF P, Types
<1>5. /\ \A c \in Commands : outbox'[c] = IF c = Cmd THEN s ELSE outbox[c]
      /\ \A t \in Attempts : agent'[t] = IF t = exec.turn THEN w ELSE agent[t]
  BY <1>1, <1>4
<1>6. Types'
  <2>1. outbox' \in [Commands -> Record] /\ agent' \in [Attempts -> Reaches]
    BY <1>4
  <2>2. pending' \subseteq Permissions
    BY <1>0 DEF Types
  <2>3. exec'.pc = "idle" \/ exec'.turn \in Attempts
    BY <1>1, <1>3
  <2> QED
    BY <1>0, <1>2, <2>1, <2>2, <2>3 DEF Types, At
<1>7. Shown'
  BY <1>0, <1>1, <1>3 DEF IInv, Shown, At, P, Cmd
<1>8. ExecShape'
  BY <1>3 DEF ExecShape, At, Sending
<1>9. RecoveryIsClaimed'
  <2>1. ASSUME NEW c \in Commands, outbox'[c].recovery # None
        PROVE  /\ outbox'[c].recovery = outbox[c].recovery
               /\ outbox'[c].status # "absent"
               /\ outbox[c].recovery = P(c) /\ claim[P(c)] = c /\ status[P(c)] # "none"
    <3>1. outbox'[c].recovery = outbox[c].recovery
      BY <1>5, <2>1 DEF Rec
    <3>2. c # Cmd => outbox'[c] = outbox[c]
      BY <1>5
    <3> QED
      BY <1>0, <1>5, <2>1, <3>1, <3>2 DEF IInv, RecoveryIsClaimed
  <2> QED
    BY <1>4, <2>1 DEF RecoveryIsClaimed
<1>10. ClaimDecides'
  <2>1. ASSUME NEW p \in Permissions, claim[p] # None, status[p] = "pending"
        PROVE  chat = "closed"
    <3>1. P(claim[p]) = p /\ (chat = "closed" \/ (At("cas") /\ Cmd = claim[p]))
      BY <1>0, <2>1 DEF IInv, ClaimDecides
    <3>2. At("cas") /\ Cmd = claim[p] => Ask.perm = p
      BY <1>1, <3>1
    <3> QED
      BY <2>1, <3>1, <3>2
  <2>2. \A p \in Permissions : claim[p] # None => P(claim[p])' = p
    BY <1>0 DEF IInv, ClaimDecides, P
  <2> QED
    BY <2>1, <2>2 DEF ClaimDecides
<1>11. \A t \in Attempts : agent'[t] # "away" =>
          agent[t] # "away" \/ (t = exec.turn /\ exec.pc \in Sending)
  BY <1>5 DEF Sending
<1>12. EntitledClaims' /\ OneEntitled'
  <2>1. ASSUME NEW c \in Commands, Entitled(c)'
        PROVE  Entitled(c)
    <3>1. ~Deciding(c)'
      BY <1>3 DEF Deciding, Sending
    <3>2. CASE outbox'[c].recovery # None
      <4>1. outbox[c].recovery # None
        BY <1>5, <3>2 DEF Rec
      <4> QED
        BY <4>1 DEF Entitled
    <3>3. CASE Sent(c)'
      <4>1. PICK n \in 1..MaxTries : agent'[<<c, n>>] # "away"
        BY <3>3 DEF Sent
      <4>2. <<c, n>> \in Attempts
        BY DEF Attempts
      <4>3. agent[<<c, n>>] # "away" \/ (<<c, n>> = exec.turn /\ exec.pc \in Sending)
        BY <1>11, <4>1, <4>2
      <4>4. agent[<<c, n>>] # "away" => Sent(c)
        BY DEF Sent
      <4>5. ASSUME <<c, n>> = exec.turn PROVE c = Cmd
        <5>1. <<c, n>>[1] = exec.turn[1]
          BY <4>5
        <5> QED
          BY <1>1, <5>1
      <4>6. exec.pc \in Sending /\ c = Cmd => Deciding(c)
        BY DEF Deciding
      <4> HIDE DEF Sent, Deciding
      <4> QED
        BY <4>3, <4>4, <4>5, <4>6 DEF Entitled
    <3> QED
      BY <2>1, <3>1, <3>2, <3>3 DEF Entitled
  <2> QED
    BY <1>0, <1>4, <2>1, Kept DEF IInv
<1>13. SentIsFinal'
  <2>1. ASSUME NEW t \in Attempts, agent'[t] # "away"
        PROVE  outbox'[t[1]].status \in Final
    <3>1. t[1] \in Commands
      BY <1>0, Typed
    <3>2. CASE agent[t] # "away"
      BY <1>0, <1>1, <1>5, <2>1, <3>1, <3>2 DEF IInv, SentIsFinal, Rec
    <3>3. CASE agent[t] = "away"
      BY <1>1, <1>5, <2>1, <3>3
    <3> QED
      BY <3>2, <3>3
  <2> QED
    BY <2>1 DEF SentIsFinal
<1>14. OneSent'
  <2>1. ASSUME NEW t \in Attempts, agent[t] # "away", t[1] = Cmd, exec.pc \in {"forward", "confirm"}
        PROVE  t = exec.turn
    <3>1. Rec.status \notin Final
      BY <1>0, <2>1 DEF IInv, ExecShape, At, Final
    <3> QED
      BY <1>0, <2>1, <3>1 DEF IInv, SentIsFinal, Rec
  <2>2. ASSUME NEW a \in Attempts, NEW b \in Attempts,
               agent'[a] # "away", agent'[b] # "away", a[1] = b[1]
        PROVE  a = b
    <3>1. CASE agent[a] # "away" /\ agent[b] # "away"
      BY <1>0, <2>2, <3>1 DEF IInv, OneSent
    <3>2. CASE agent[a] = "away"
      <4>1. a = exec.turn /\ exec.pc \in {"forward", "confirm"}
        BY <1>5, <2>2, <3>2
      <4>2. b = exec.turn \/ agent[b] # "away"
        BY <1>5, <2>2
      <4> QED
        BY <1>1, <2>1, <2>2, <4>1, <4>2
    <3>3. CASE agent[b] = "away"
      <4>1. b = exec.turn /\ exec.pc \in {"forward", "confirm"}
        BY <1>5, <2>2, <3>3
      <4>2. a = exec.turn \/ agent[a] # "away"
        BY <1>5, <2>2
      <4> QED
        BY <1>1, <2>1, <2>2, <4>1, <4>2
    <3> QED
      BY <3>1, <3>2, <3>3
  <2> QED
    BY <2>2 DEF OneSent
<1>15. SentAsDecided'
  <2>1. exec.pc \in Sending => status[Ask.perm] = Ask.decision
    BY <1>0 DEF IInv, ExecShape
  <2> QED
    BY <1>0, <1>1, <1>11, <2>1 DEF IInv, SentAsDecided, Ask
<1> QED
  BY <1>6, <1>7, <1>8, <1>9, <1>10, <1>12, <1>13, <1>14, <1>15 DEF IInv

\* An end that only the outbox notes, and one that nothing notes.
LEMMA EndsStored ==
    ASSUME IInv, ~At("idle"),
           UNCHANGED <<asked, tries, queue, claim, status, reg, chat, agent>>,
           NEW s \in Record,
           outbox' = [outbox EXCEPT ![Cmd] = s],
           s.recovery \in {None, Rec.recovery},
           s.recovery # None => s.status # "absent",
           Rec.status \in Final \/ exec.pc \in {"finish", "confirm"} => s.status \in Final,
           exec' = Idle \/ \E a \in Answers : exec' = [exec EXCEPT !.pc = "publish", !.answer = a],
           pending' \subseteq pending,
           At("cas") => chat = "closed" \/ status[Ask.perm] # "pending"
    PROVE  IInv'
<1>1. Types /\ exec.turn \in Attempts
  BY Typed DEF IInv
<1>2. agent \in [Attempts -> Reaches]
  BY <1>1 DEF Types
<1>3. /\ agent[exec.turn] \in Reaches
      /\ agent' = [agent EXCEPT ![exec.turn] = agent[exec.turn]]
  BY <1>1, <1>2
<1> QED
  BY <1>3, Ends

LEMMA EndsPlain ==
    ASSUME IInv, exec.pc \in {"option", "cas", "publish"},
           UNCHANGED <<asked, outbox, tries, queue, claim, status, reg, chat, agent, pending>>,
           exec' = Idle \/ \E a \in Answers : exec' = [exec EXCEPT !.pc = "publish", !.answer = a],
           At("cas") => chat = "closed" \/ status[Ask.perm] # "pending"
    PROVE  IInv'
<1>1. Types /\ Cmd \in Commands /\ ~At("idle")
  BY Typed DEF IInv, At
<1>2. outbox \in [Commands -> Record]
  BY <1>1 DEF Types
<1>3. Rec \in Record /\ outbox' = [outbox EXCEPT ![Cmd] = Rec]
  BY <1>1, <1>2 DEF Rec
<1>4. Rec.recovery # None => Rec.status # "absent"
  BY <1>1 DEF IInv, RecoveryIsClaimed, Rec
<1>5. exec.pc \notin {"finish", "confirm"}
  OBVIOUS
<1> QED
  BY <1>1, <1>3, <1>4, <1>5, EndsStored

-----------------------------------------------------------------------------
(* The steps of an execution that end it.                                  *)
LEMMA Here ==
    ASSUME IInv, ~At("idle")
    PROVE  /\ Types /\ Cmd \in Commands /\ exec.turn \in Attempts /\ Cmd = exec.turn[1]
           /\ Rec \in Record /\ outbox[Cmd] = Rec
           /\ P(Cmd) = Ask.perm /\ Ask.perm \in Permissions /\ Ask.decision \in Decisions
           /\ status[Ask.perm] # "none"
           /\ Rec.recovery # None => /\ Rec.status # "absent"
                                     /\ Rec.recovery = Ask.perm /\ claim[Ask.perm] = Cmd
<1>1. Types /\ Cmd \in Commands /\ exec.turn \in Attempts /\ Cmd = exec.turn[1]
  BY Typed DEF IInv, Cmd
<1>2. Rec \in Record /\ outbox[Cmd] = Rec
  BY <1>1, Typed DEF Rec
<1>3. P(Cmd) = Ask.perm /\ Ask.perm \in Permissions /\ Ask.decision \in Decisions
  BY <1>1, Typed DEF Ask, P
<1>4. status[Ask.perm] # "none"
  BY <1>3 DEF IInv, Shown
<1>5. Rec.recovery # None => /\ Rec.status # "absent"
                             /\ Rec.recovery = Ask.perm /\ claim[Ask.perm] = Cmd
  BY <1>1, <1>2, <1>3 DEF IInv, RecoveryIsClaimed
<1> QED
  BY <1>1, <1>2, <1>3, <1>4, <1>5

LEMMA DegradedStep ==
    ASSUME IInv, exec.pc \in {"option", "claim"}, Degraded,
           UNCHANGED <<asked, tries, queue, claim, status, reg, chat, agent, pending>>
    PROVE  IInv'
<1> DEFINE err == FromErrorCode("AGENT_UNAVAILABLE")
<1>0. ~At("idle") /\ ~At("cas") /\ exec.pc \notin {"finish", "confirm"}
  BY DEF At
<1>1. Rec \in Record /\ err \in Errors
  BY <1>0, Here, ErrorTyped DEF Codes
<1>2. CASE CanMarkFailed(Rec, err)
  <2> DEFINE s == MarkFailed(Rec, err)
  <2>1. /\ s \in Record /\ s.recovery \in {None, Rec.recovery}
        /\ s.recovery # None => s.status # "absent"
        /\ Rec.status \notin Final
    BY <1>1, <1>2, FailSteps
  <2>2. outbox' = [outbox EXCEPT ![Cmd] = s]
    BY <1>2 DEF Degraded, Store
  <2>3. \E a \in Answers : exec' = [exec EXCEPT !.pc = "publish", !.answer = a]
    BY <1>2 DEF Degraded, Finish, Answers
  <2> HIDE DEF s
  <2> QED
    BY <1>0, <2>1, <2>2, <2>3, EndsStored
<1>3. CASE ~CanMarkFailed(Rec, err)
  <2>1. UNCHANGED outbox
    BY <1>3 DEF Degraded
  <2>2. \E a \in Answers : exec' = [exec EXCEPT !.pc = "publish", !.answer = a]
    BY <1>3 DEF Degraded, Finish, Answers
  <2>3. outbox' = [outbox EXCEPT ![Cmd] = Rec]
    BY <1>0, <2>1, Here DEF Types
  <2>4. Rec.recovery # None => Rec.status # "absent"
    BY <1>0, Here
  <2> QED
    BY <1>0, <1>1, <2>2, <2>3, <2>4, EndsStored
<1> QED
  BY <1>2, <1>3

LEMMA UnknownStep ==
    ASSUME IInv, exec.pc \in {"forward", "confirm"}, Unknown,
           UNCHANGED <<asked, tries, queue, claim, status, reg, chat, pending>>,
           NEW w \in Reaches, agent' = [agent EXCEPT ![exec.turn] = w]
    PROVE  IInv'
<1> DEFINE s == MarkDeliveryUnknown(Rec)
<1>0. ~At("idle") /\ ~At("cas")
  BY DEF At
<1>1. Rec \in Record
  BY <1>0, Here
<1>2. s \in Record /\ s.status = "delivery_unknown" /\ s.recovery = Rec.recovery
  BY <1>1, EndSteps
<1>3. outbox' = [outbox EXCEPT ![Cmd] = s]
  BY DEF Unknown, Store
<1>4. \E a \in Answers : exec' = [exec EXCEPT !.pc = "publish", !.answer = a]
  BY DEF Unknown, Finish, Answers
<1>5. s.status \in Final
  BY <1>2 DEF Final
<1> HIDE DEF s
<1> QED
  BY <1>0, <1>2, <1>3, <1>4, <1>5, Ends

LEMMA FailedStep ==
    ASSUME IInv, exec.pc \in {"forward", "confirm"},
           NEW code \in Codes, TerminalFailed(code),
           UNCHANGED <<asked, tries, queue, claim, status, reg, chat, pending>>,
           NEW w \in Reaches, agent' = [agent EXCEPT ![exec.turn] = w]
    PROVE  IInv'
<1> DEFINE err == [code |-> code, retryable |-> FALSE]
           s == MarkFailed(Rec, err)
<1>0. ~At("idle") /\ ~At("cas")
  BY DEF At
<1>1. Rec \in Record /\ err \in Errors /\ CanMarkFailed(Rec, err)
  BY <1>0, Here DEF Errors, TerminalFailed, Store
<1>2. s \in Record /\ s.status = "failed" /\ s.recovery \in {None, Rec.recovery}
  BY <1>1, FailSteps
<1>3. outbox' = [outbox EXCEPT ![Cmd] = s]
  BY DEF TerminalFailed, Store
<1>4. \E a \in Answers : exec' = [exec EXCEPT !.pc = "publish", !.answer = a]
  BY DEF TerminalFailed, Finish, Answers
<1>5. s.status \in Final /\ s.status # "absent"
  BY <1>2 DEF Final
<1> HIDE DEF s
<1> QED
  BY <1>0, <1>2, <1>3, <1>4, <1>5, Ends

LEMMA ForwardEnds ==
    ASSUME IInv, LegacyUnbound \/ ForwardNotDelivered \/ ForwardUnknown
    PROVE  IInv'
<1>0. At("forward") /\ exec.pc = "forward" /\ ~At("idle") /\ ~At("cas")
  BY DEF LegacyUnbound, ForwardNotDelivered, ForwardUnknown, At
<1>1. Types /\ exec.turn \in Attempts /\ Rec \in Record
  BY <1>0, Here
<1>2. UNCHANGED <<asked, tries, queue, claim, status, reg, chat, pending>>
  BY DEF LegacyUnbound, ForwardNotDelivered, ForwardUnknown, table, docs, world
<1>3. UNCHANGED agent =>
        agent[exec.turn] \in Reaches /\ agent' = [agent EXCEPT ![exec.turn] = agent[exec.turn]]
  <2>1. agent \in [Attempts -> Reaches]
    BY <1>1 DEF Types
  <2> QED
    BY <1>1, <2>1
<1>4. CASE LegacyUnbound
  BY <1>0, <1>2, <1>3, <1>4, UnknownStep DEF LegacyUnbound, world
<1>5. CASE ForwardNotDelivered
  <2>1. UNCHANGED agent
    BY <1>5 DEF ForwardNotDelivered, world
  <2>2. PICK code \in Codes :
            IF exec.held = None THEN TerminalFailed(code)
            ELSE /\ Store(CanMarkRecoveryNotDelivered(Rec), LowerBarrier(Rec, FromErrorCode(code)))
                 /\ Finish("retryable")
    BY <1>5 DEF ForwardNotDelivered, Codes
  <2>3. CASE exec.held = None
    BY <1>0, <1>2, <1>3, <2>1, <2>2, <2>3, FailedStep
  <2>4. CASE exec.held # None
    <3> DEFINE s == LowerBarrier(Rec, FromErrorCode(code))
    <3>1. s \in Record /\ s.status = Rec.status /\ s.recovery = Rec.recovery
      BY <1>1, EndSteps
    <3>2. Rec.status = "intent_durable"
      BY <1>0 DEF IInv, ExecShape
    <3>3. outbox' = [outbox EXCEPT ![Cmd] = s]
      BY <2>2, <2>4 DEF Store
    <3>4. \E a \in Answers : exec' = [exec EXCEPT !.pc = "publish", !.answer = a]
      BY <2>2, <2>4 DEF Finish, Answers
    <3>5. s.status # "absent" /\ Rec.status \notin Final
      BY <3>1, <3>2 DEF Final
    <3> HIDE DEF s
    <3> QED
      BY <1>0, <1>2, <2>1, <3>1, <3>3, <3>4, <3>5, EndsStored
  <2> QED
    BY <2>3, <2>4
<1>6. CASE ForwardUnknown
  <2>1. PICK w \in {"away", "wire"} : agent' = [agent EXCEPT ![exec.turn] = w]
    BY <1>6 DEF ForwardUnknown
  <2>2. w \in Reaches /\ Unknown
    BY <1>6 DEF Reaches, ForwardUnknown
  <2> QED
    BY <1>0, <1>2, <2>1, <2>2, UnknownStep
<1> QED
  BY <1>4, <1>5, <1>6

LEMMA ConfirmStep ==
    ASSUME IInv, ConfirmLegacy
    PROVE  IInv'
<1>0. exec.pc = "confirm" /\ ~At("idle") /\ ~At("cas")
  BY DEF ConfirmLegacy, At
<1>1. Types /\ exec.turn \in Attempts /\ Rec \in Record
  BY <1>0, Here
<1>2. UNCHANGED <<asked, tries, queue, claim, status, reg, chat, pending>>
  BY DEF ConfirmLegacy, table, docs
<1>3. CASE Unknown /\ UNCHANGED agent
  <2>1. agent \in [Attempts -> Reaches]
    BY <1>1 DEF Types
  <2>2. agent[exec.turn] \in Reaches /\ agent' = [agent EXCEPT ![exec.turn] = agent[exec.turn]]
    BY <1>1, <1>3, <2>1
  <2> QED
    BY <1>0, <1>2, <1>3, <2>2, UnknownStep
<1>4. CASE TerminalFailed("AGENT_UNAVAILABLE") /\ agent' = [agent EXCEPT ![exec.turn] = "refused"]
  <2>1. "refused" \in Reaches /\ "AGENT_UNAVAILABLE" \in Codes
    BY DEF Reaches, Codes
  <2> QED
    BY <1>0, <1>2, <1>4, <2>1, FailedStep
<1>5. ASSUME Store(CanMarkDeliveryConfirmed(Rec),
                   MarkCompleted(MarkProjectionCommitted(MarkDeliveryConfirmed(Rec)))),
             Finish("committed"), UNCHANGED agent
      PROVE  IInv'
  <2> DEFINE s == MarkCompleted(MarkProjectionCommitted(MarkDeliveryConfirmed(Rec)))
  <2>1. s \in Record /\ s.status = "completed" /\ s.recovery = Rec.recovery
    BY <1>1, EndSteps
  <2>2. outbox' = [outbox EXCEPT ![Cmd] = s]
    BY <1>5 DEF Store
  <2>3. \E a \in Answers : exec' = [exec EXCEPT !.pc = "publish", !.answer = a]
    BY <1>5 DEF Finish, Answers
  <2>4. s.status # "absent" /\ s.status \in Final
    BY <2>1 DEF Final
  <2> HIDE DEF s
  <2> QED
    BY <1>0, <1>2, <1>5, <2>1, <2>2, <2>3, <2>4, EndsStored
<1> QED
  BY <1>3, <1>4, <1>5 DEF ConfirmLegacy

LEMMA FinishStep ==
    ASSUME IInv, FinishOfficial
    PROVE  IInv'
<1> DEFINE s == MarkCompleted(MarkProjectionCommitted(ClearRecovery(
                    MarkDeliveryConfirmed(MarkDispatched(Rec)))))
<1>0. exec.pc = "finish" /\ ~At("idle") /\ ~At("cas")
  BY DEF FinishOfficial, At
<1>1. s \in Record /\ s.status = "completed" /\ s.recovery = None
  BY <1>0, Here, EndSteps
<1>2. UNCHANGED <<asked, tries, queue, claim, status, reg, chat, agent>>
  BY DEF FinishOfficial, docs, world
<1>3. outbox' = [outbox EXCEPT ![Cmd] = s] /\ pending' \subseteq pending
  BY DEF FinishOfficial, Store
<1>4. \E a \in Answers : exec' = [exec EXCEPT !.pc = "publish", !.answer = a]
  BY DEF FinishOfficial, Finish, Answers
<1>5. s.status \in Final
  BY <1>1 DEF Final
<1> HIDE DEF s
<1> QED
  BY <1>0, <1>1, <1>2, <1>3, <1>4, <1>5, EndsStored

LEMMA AnswerSteps ==
    ASSUME IInv, DecideOnClosed \/ Publish \/ SendDuplicate
    PROVE  IInv'
<1>1. exec.pc \in {"option", "cas", "publish"} /\ (At("cas") => chat = "closed")
  BY DEF DecideOnClosed, Publish, SendDuplicate, At
<1>2. UNCHANGED <<asked, outbox, tries, queue, claim, status, reg, chat, agent, pending>>
  BY DEF DecideOnClosed, Publish, SendDuplicate, table, docs, world
<1>3. exec' = Idle \/ \E a \in Answers : exec' = [exec EXCEPT !.pc = "publish", !.answer = a]
  BY DEF DecideOnClosed, Publish, SendDuplicate, Finish, Answers
<1> QED
  BY <1>1, <1>2, <1>3, EndsPlain

-----------------------------------------------------------------------------
(* The steps of an execution that go on.                                   *)
ExecType == [turn : Attempts \cup {None}, client : Clients \cup {None}, pc : Pcs,
             held : Evidence \cup {None}, answer : Answers \cup {None}]

LEMMA GotoStep ==
    ASSUME IInv, ~At("idle"), UNCHANGED asked,
           NEW s \in Record, outbox' = [outbox EXCEPT ![Cmd] = s],
           NEW pc \in Pcs \ {"idle"}, NEW held \in Evidence \cup {None}, Goto(pc, held)
    PROVE  /\ exec' \in ExecType /\ exec'.pc = pc /\ exec'.held = held
           /\ exec'.turn = exec.turn /\ Cmd' = Cmd /\ Ask' = Ask /\ Rec' = s
           /\ outbox' \in [Commands -> Record]
           /\ \A c \in Commands : /\ outbox'[c] = IF c = Cmd THEN s ELSE outbox[c]
                                  /\ P(c)' = P(c) /\ P(c) \in Permissions
<1>1. exec \in ExecType /\ outbox \in [Commands -> Record]
  BY DEF IInv, Types, ExecType
<1>2. Types /\ Cmd \in Commands
  BY Here
<1>3. exec' = [exec EXCEPT !.pc = pc, !.held = held]
  BY DEF Goto
<1>4. exec' \in ExecType /\ exec'.pc = pc /\ exec'.held = held /\ exec'.turn = exec.turn
  BY <1>1, <1>3 DEF ExecType
<1>5. Cmd' = Cmd /\ Ask' = Ask
  BY <1>4 DEF Cmd, Ask
<1>6. /\ outbox' \in [Commands -> Record]
      /\ \A c \in Commands : outbox'[c] = IF c = Cmd THEN s ELSE outbox[c]
  BY <1>1, <1>2
<1>7. Rec' = s
  BY <1>2, <1>5, <1>6 DEF Rec
<1>8. \A c \in Commands : P(c)' = P(c) /\ P(c) \in Permissions
  BY <1>2, Typed DEF P
<1> QED
  BY <1>4, <1>5, <1>6, <1>7, <1>8

LEMMA Moves ==
    ASSUME IInv, ~At("idle"), exec.pc \notin {"finish", "confirm"},
           UNCHANGED <<asked, tries, queue, claim, status, reg, chat, pending>>,
           NEW s \in Record, outbox' = [outbox EXCEPT ![Cmd] = s],
           s.recovery = Rec.recovery, s.recovery # None => s.status # "absent",
           Rec.status \in Final => s.status \in Final,
           NEW pc \in Pcs \ {"idle"}, NEW held \in Evidence \cup {None}, Goto(pc, held),
           \/ UNCHANGED agent
           \/ /\ agent' = [agent EXCEPT ![exec.turn] = "taken"]
              /\ At("forward") /\ pc \in {"finish", "confirm"},
           pc \in {"barrier"} \cup Sending => Entitled(Cmd),
           At("cas") => status[Ask.perm] # "pending",
           ExecShape'
    PROVE  IInv'
<1>0. IInv /\ Types
  BY DEF IInv
<1>1. /\ Cmd \in Commands /\ exec.turn \in Attempts /\ Cmd = exec.turn[1]
      /\ P(Cmd) = Ask.perm /\ status[Ask.perm] # "none" /\ outbox[Cmd] = Rec
  BY Here
<1>2. /\ exec' \in ExecType /\ exec'.pc = pc /\ exec'.turn = exec.turn /\ Cmd' = Cmd
      /\ outbox' \in [Commands -> Record]
      /\ \A c \in Commands : /\ outbox'[c] = IF c = Cmd THEN s ELSE outbox[c]
                             /\ P(c)' = P(c) /\ P(c) \in Permissions
  BY GotoStep
<1>3. /\ agent' \in [Attempts -> Reaches]
      /\ \A t \in Attempts : agent'[t] # "away" =>
            \/ agent[t] # "away"
            \/ t = exec.turn /\ At("forward") /\ pc \in {"finish", "confirm"}
  <2>1. agent \in [Attempts -> Reaches]
    BY <1>0 DEF Types
  <2> QED
    BY <1>1, <2>1 DEF Reaches
<1>4. Types'
  BY <1>0, <1>1, <1>2, <1>3 DEF Types, ExecType, At
<1>5. Shown'
  BY <1>0, <1>1, <1>2 DEF IInv, Shown, P, At
<1>6. RecoveryIsClaimed'
  <2>1. \A c \in Commands : outbox'[c].recovery = outbox[c].recovery
    BY <1>1, <1>2
  <2>2. \A c \in Commands : outbox'[c].recovery # None => outbox'[c].status # "absent"
    BY <1>0, <1>2 DEF IInv, RecoveryIsClaimed
  <2> QED
    BY <1>0, <1>2, <2>1, <2>2 DEF IInv, RecoveryIsClaimed
<1>7. ClaimDecides'
  <2>1. ASSUME NEW p \in Permissions, claim[p] # None, status[p] = "pending"
        PROVE  chat = "closed"
    <3>1. P(claim[p]) = p /\ (chat = "closed" \/ (At("cas") /\ Cmd = claim[p]))
      BY <1>0, <2>1 DEF IInv, ClaimDecides
    <3>2. At("cas") /\ Cmd = claim[p] => Ask.perm = p
      BY <1>1, <3>1
    <3> QED
      BY <2>1, <3>1, <3>2
  <2>2. \A p \in Permissions : claim[p] # None => P(claim[p])' = p
    BY <1>0 DEF IInv, ClaimDecides, P
  <2> QED
    BY <2>1, <2>2 DEF ClaimDecides
<1>8. EntitledClaims' /\ OneEntitled'
  <2>1. ASSUME NEW c \in Commands, Entitled(c)'
        PROVE  Entitled(c)
    <3>1. CASE Deciding(c)'
      BY <1>2, <3>1 DEF Deciding, Sending
    <3>2. CASE outbox'[c].recovery # None
      <4>1. outbox[c].recovery # None
        BY <1>1, <1>2, <3>2
      <4> QED
        BY <4>1 DEF Entitled
    <3>3. CASE Sent(c)'
      <4>1. PICK n \in 1..MaxTries : agent'[<<c, n>>] # "away"
        BY <3>3 DEF Sent
      <4>2. <<c, n>> \in Attempts
        BY DEF Attempts
      <4>3. agent[<<c, n>>] # "away" \/ (<<c, n>> = exec.turn /\ At("forward"))
        BY <1>3, <4>1, <4>2
      <4>4. agent[<<c, n>>] # "away" => Sent(c)
        BY DEF Sent
      <4>5. ASSUME <<c, n>> = exec.turn PROVE c = Cmd
        <5>1. <<c, n>>[1] = exec.turn[1]
          BY <4>5
        <5> QED
          BY <1>1, <5>1
      <4>6. At("forward") /\ c = Cmd => Deciding(c)
        BY DEF Deciding, At, Sending
      <4> HIDE DEF Sent, Deciding
      <4> QED
        BY <4>3, <4>4, <4>5, <4>6 DEF Entitled
    <3> QED
      BY <2>1, <3>1, <3>2, <3>3 DEF Entitled
  <2> QED
    BY <1>0, <1>2, <2>1, Kept DEF IInv
<1>9. SentIsFinal'
  <2>1. ASSUME NEW t \in Attempts, agent'[t] # "away"
        PROVE  outbox'[t[1]].status \in Final \/ (pc \in {"finish", "confirm"} /\ exec.turn = t)
    <3>1. t[1] \in Commands
      BY <1>0, Typed
    <3>2. CASE agent[t] # "away"
      BY <1>0, <1>1, <1>2, <3>1, <3>2 DEF IInv, SentIsFinal
    <3> QED
      BY <1>3, <2>1, <3>2
  <2> QED
    BY <1>2, <2>1 DEF SentIsFinal
<1>10. OneSent'
  <2>1. ASSUME NEW t \in Attempts, agent[t] # "away", t[1] = Cmd, At("forward")
        PROVE  FALSE
    <3>1. Rec.status \notin Final
      BY <1>0, <2>1 DEF IInv, ExecShape, At, Final
    <3> QED
      BY <1>0, <1>1, <2>1, <3>1 DEF IInv, SentIsFinal
  <2>2. ASSUME NEW a \in Attempts, NEW b \in Attempts,
               agent'[a] # "away", agent'[b] # "away", a[1] = b[1]
        PROVE  a = b
    <3>1. CASE agent[a] # "away" /\ agent[b] # "away"
      BY <1>0, <2>2, <3>1 DEF IInv, OneSent
    <3>2. CASE agent[a] = "away"
      BY <1>1, <1>3, <2>1, <2>2, <3>2
    <3>3. CASE agent[b] = "away"
      BY <1>1, <1>3, <2>1, <2>2, <3>3
    <3> QED
      BY <3>1, <3>2, <3>3
  <2> QED
    BY <2>2 DEF OneSent
<1>11. SentAsDecided'
  <2>1. At("forward") => status[Ask.perm] = Ask.decision
    BY <1>0 DEF IInv, ExecShape, At, Sending
  <2> QED
    BY <1>0, <1>1, <1>3, <2>1 DEF IInv, SentAsDecided, Ask
<1> QED
  BY <1>4, <1>5, <1>6, <1>7, <1>8, <1>9, <1>10, <1>11 DEF IInv

LEMMA OptionStep ==
    ASSUME IInv, CheckOption
    PROVE  IInv'
<1>0. exec.pc = "option" /\ ~At("idle") /\ ~At("cas") /\ ~At("forward")
  BY DEF CheckOption, At
<1>1. Types /\ Cmd \in Commands /\ Rec \in Record
      /\ (Rec.recovery # None => Rec.status # "absent" /\ Rec.recovery = Ask.perm)
  BY <1>0, Here
<1>2. UNCHANGED <<asked, tries, queue, claim, status, reg, chat, agent, pending>>
  BY DEF CheckOption, table, docs, world
<1>3. {"claim"} \subseteq Pcs \ {"idle"} /\ "claim" \notin {"barrier"} \cup Sending
  BY DEF Pcs, Sending
<1>4. CASE UNCHANGED outbox /\ Finish("failed")
  BY <1>0, <1>2, <1>4, EndsPlain DEF Finish, Answers
<1>5. CASE Degraded
  BY <1>0, <1>2, <1>5, DegradedStep
<1>6. CASE Rec.recovery # None /\ Goto("claim", Rec.recovery) /\ UNCHANGED outbox
  <2>1. outbox' = [outbox EXCEPT ![Cmd] = Rec]
    BY <1>1, <1>6 DEF Types, Rec
  <2>2. Rec.recovery \in Evidence \cup {None}
    BY <1>1 DEF Record
  <2>3. exec'.pc = "claim" /\ exec'.held = Rec.recovery /\ Ask' = Ask /\ Rec' = Rec
    BY <1>0, <1>1, <1>2, <1>3, <1>6, <2>1, <2>2, GotoStep
  <2>4. ExecShape'
    BY <1>1, <1>6, <2>3 DEF ExecShape, At, Sending
  <2> QED
    BY <1>0, <1>1, <1>2, <1>3, <1>6, <2>1, <2>2, <2>4, Moves
<1>7. CASE CanMarkIntentDurable(Rec) /\ outbox' = [outbox EXCEPT ![Cmd] = MarkIntentDurable(Rec)]
           /\ Goto("claim", None)
  <2> DEFINE s == MarkIntentDurable(Rec)
  <2>1. s \in Record /\ s.status = "intent_durable" /\ s.recovery = Rec.recovery
    BY <1>1, ForwardSteps
  <2>2. outbox' = [outbox EXCEPT ![Cmd] = s]
    BY <1>7
  <2>3. Rec.status \notin Final
    BY <1>7 DEF CanMarkIntentDurable, CanMove, AllowedTransition, Final
  <2> HIDE DEF s
  <2>4. exec'.pc = "claim" /\ exec'.held = None /\ Rec' = s
    BY <1>0, <1>2, <1>3, <1>7, <2>1, <2>2, GotoStep
  <2>5. ExecShape'
    BY <2>1, <2>4 DEF ExecShape, At, Sending
  <2> QED
    BY <1>0, <1>1, <1>2, <1>3, <1>7, <2>1, <2>2, <2>3, <2>5, Moves
<1> QED
  BY <1>4, <1>5, <1>6, <1>7 DEF CheckOption, Store

LEMMA DecidedStep ==
    ASSUME IInv, DecidedBefore
    PROVE  IInv'
<1>0. exec.pc = "cas" /\ At("cas") /\ ~At("idle") /\ ~At("forward")
  BY DEF DecidedBefore, At
<1>1. Types /\ Cmd \in Commands /\ Rec \in Record /\ outbox[Cmd] = Rec
      /\ (Rec.recovery # None => Rec.status # "absent" /\ Rec.recovery = Ask.perm)
  BY <1>0, Here
<1>2. UNCHANGED <<asked, tries, queue, claim, status, reg, chat, agent, pending>>
  BY DEF DecidedBefore, table, docs, world
<1>3. Rec.status = "intent_durable" /\ status[Ask.perm] # "pending"
      /\ (exec.held # None => exec.held = Ask.perm /\ Rec.recovery = exec.held)
  BY <1>0 DEF DecidedBefore, Resolves, IInv, ExecShape
<1>4. CASE status[Ask.perm] = Ask.decision /\ exec.held # None
           /\ Goto("barrier", exec.held) /\ UNCHANGED outbox
  <2>1. outbox' = [outbox EXCEPT ![Cmd] = Rec]
    BY <1>1, <1>4 DEF Types, Rec
  <2>2. exec.held \in Evidence \cup {None} /\ "barrier" \in Pcs \ {"idle"}
    BY <1>1, Typed DEF Pcs
  <2> DEFINE held == exec.held
  <2>3. Goto("barrier", held) /\ held \in Evidence \cup {None}
    BY <1>4, <2>2
  <2> HIDE DEF held
  <2>4. exec'.pc = "barrier" /\ exec'.held = held /\ Ask' = Ask /\ Rec' = Rec
    BY <1>0, <1>1, <1>2, <2>1, <2>2, <2>3, GotoStep
  <2>5. ExecShape'
    BY <1>2, <1>3, <1>4, <2>4 DEF ExecShape, At, Sending, held
  <2>6. Entitled(Cmd)
    BY <1>1, <1>3, <1>4 DEF Entitled
  <2> QED
    BY <1>0, <1>1, <1>2, <1>3, <2>1, <2>2, <2>3, <2>5, <2>6, Moves
<1>5. CASE Store(CanClearForRetry(Rec), ClearForRetry(Rec)) /\ Finish("duplicate")
  <2>1. outbox' = [outbox EXCEPT ![Cmd] = Absent]
    BY <1>5 DEF Store, ClearForRetry
  <2>2. \E a \in Answers : exec' = [exec EXCEPT !.pc = "publish", !.answer = a]
    BY <1>5 DEF Finish, Answers
  <2>3. Rec.status \notin Final /\ exec.pc \notin {"finish", "confirm"}
    BY <1>0, <1>3 DEF Final
  <2>4. Absent \in Record /\ Absent.recovery = None
    BY AbsentTyped
  <2> QED
    BY <1>0, <1>2, <1>3, <2>1, <2>2, <2>3, <2>4, EndsStored
<1> QED
  BY <1>4, <1>5 DEF DecidedBefore

LEMMA BarrierStep ==
    ASSUME IInv, Barrier
    PROVE  IInv'
<1> DEFINE s == RaiseBarrier(Rec)
<1>0. exec.pc = "barrier" /\ ~At("cas") /\ ~At("idle") /\ ~At("forward")
  BY DEF Barrier, At
<1>1. Types /\ Cmd \in Commands /\ Rec \in Record
      /\ (Rec.recovery # None => Rec.status # "absent" /\ Rec.recovery = Ask.perm)
  BY <1>0, Here
<1>2. UNCHANGED <<asked, tries, queue, claim, status, reg, chat, agent, pending>>
  BY DEF Barrier, table, docs, world
<1>3. /\ Rec.status = "intent_durable" /\ status[Ask.perm] = Ask.decision
      /\ exec.held # None => exec.held = Ask.perm /\ Rec.recovery = exec.held
  BY <1>0 DEF IInv, ExecShape
<1>4. s \in Record /\ s.status = "intent_durable" /\ s.recovery = Rec.recovery
  BY <1>1, <1>3, ForwardSteps
<1>5. outbox' = [outbox EXCEPT ![Cmd] = s]
  BY DEF Barrier, Store
<1>6. exec.held \in Evidence \cup {None} /\ "forward" \in Pcs \ {"idle"} /\ Goto("forward", exec.held)
  BY <1>1, Typed DEF Pcs, Barrier
<1>7. Rec.status \notin Final
  BY <1>3 DEF Final
<1>8. Entitled(Cmd)
  BY <1>0 DEF Entitled, Deciding
<1> HIDE DEF s
<1>9. exec'.pc = "forward" /\ exec'.held = exec.held /\ Ask' = Ask /\ Rec' = s
  BY <1>0, <1>2, <1>4, <1>5, <1>6, GotoStep
<1>10. ExecShape'
  BY <1>2, <1>3, <1>4, <1>9 DEF ExecShape, At, Sending
<1>11. s.status # "absent" /\ exec.pc \notin {"finish", "confirm"}
  BY <1>0, <1>4
<1> QED
  BY <1>0, <1>2, <1>4, <1>5, <1>6, <1>7, <1>8, <1>10, <1>11, Moves

LEMMA AckedStep ==
    ASSUME IInv, ForwardAcked
    PROVE  IInv'
<1>0. exec.pc = "forward" /\ At("forward") /\ ~At("cas") /\ ~At("idle")
  BY DEF ForwardAcked, At
<1>1. Types /\ Cmd \in Commands /\ Rec \in Record
      /\ (Rec.recovery # None => Rec.status # "absent" /\ Rec.recovery = Ask.perm)
  BY <1>0, Here
<1>2. UNCHANGED <<asked, tries, queue, claim, status, reg, chat, pending>>
      /\ agent' = [agent EXCEPT ![exec.turn] = "taken"]
  BY DEF ForwardAcked, table, docs
<1>3. /\ Rec.status = "intent_durable" /\ status[Ask.perm] = Ask.decision
      /\ exec.held # None => exec.held = Ask.perm /\ Rec.recovery = exec.held
  BY <1>0 DEF IInv, ExecShape, Sending
<1>4. Entitled(Cmd)
  BY <1>0 DEF Entitled, Deciding, Sending
<1>5. Rec.status \notin Final
  BY <1>3 DEF Final
<1>6. CASE exec.held # None /\ Goto("finish", exec.held) /\ UNCHANGED outbox
  <2>1. outbox' = [outbox EXCEPT ![Cmd] = Rec]
    BY <1>1, <1>6 DEF Types, Rec
  <2>2. exec.held \in Evidence \cup {None} /\ "finish" \in Pcs \ {"idle"}
    BY <1>1, Typed DEF Pcs
  <2>3. exec'.pc = "finish" /\ exec'.held = exec.held /\ Ask' = Ask /\ Rec' = Rec
    BY <1>0, <1>1, <1>2, <1>6, <2>1, <2>2, GotoStep
  <2>4. ExecShape'
    BY <1>2, <1>3, <2>3 DEF ExecShape, At, Sending
  <2> QED
    BY <1>0, <1>1, <1>2, <1>4, <1>6, <2>1, <2>2, <2>4, Moves
<1>7. CASE outbox' = [outbox EXCEPT ![Cmd] = MarkDispatched(Rec)] /\ Goto("confirm", None)
  <2> DEFINE s == MarkDispatched(Rec)
  <2>1. s \in Record /\ s.status = "dispatched" /\ s.recovery = Rec.recovery
    BY <1>1, ForwardSteps
  <2>2. outbox' = [outbox EXCEPT ![Cmd] = s] /\ "confirm" \in Pcs \ {"idle"}
    BY <1>7 DEF Pcs
  <2> HIDE DEF s
  <2>3. exec'.pc = "confirm" /\ exec'.held = None /\ Ask' = Ask /\ Rec' = s
    BY <1>0, <1>2, <1>7, <2>1, <2>2, GotoStep
  <2>4. ExecShape'
    BY <1>2, <1>3, <2>1, <2>3 DEF ExecShape, At, Sending
  <2>5. s.status # "absent" /\ exec.pc \notin {"finish", "confirm"}
    BY <1>0, <2>1
  <2> QED
    BY <1>0, <1>2, <1>4, <1>5, <1>7, <2>1, <2>2, <2>4, <2>5, Moves
<1> QED
  BY <1>6, <1>7 DEF ForwardAcked, Store

\* The claim: its taker is the only one to be entitled to the request.
LEMMA Claims ==
    ASSUME IInv, At("claim"),
           UNCHANGED <<asked, tries, queue, status, reg, chat, agent, pending>>,
           CanSetRecovery(Rec, Ask.perm),
           outbox' = [outbox EXCEPT ![Cmd] = SetRecovery(Rec, Ask.perm)],
           claim' = [claim EXCEPT ![Ask.perm] = Cmd],
           \/ Ask.perm \in pending /\ claim[Ask.perm] \in {None, Cmd}
           \/ claim[Ask.perm] = Cmd,
           Goto("cas", Ask.perm)
    PROVE  IInv'
<1> DEFINE p0 == Ask.perm
           s == SetRecovery(Rec, p0)
<1>0. IInv /\ Types /\ exec.pc = "claim" /\ ~At("idle") /\ ~At("cas")
  BY Here DEF IInv, At
<1>1. /\ Cmd \in Commands /\ exec.turn \in Attempts /\ Cmd = exec.turn[1] /\ Rec \in Record
      /\ P(Cmd) = p0 /\ p0 \in Permissions /\ status[p0] # "none" /\ outbox[Cmd] = Rec
      /\ p0 \in Evidence /\ None \notin Commands /\ p0 # None
  BY <1>0, Here, Typed, PermissionAssumption DEF PermissionAssumption
<1>2. Rec.status = "intent_durable"
  BY DEF CanSetRecovery
<1>3. s \in Record /\ s.status = "intent_durable" /\ s.recovery = p0
  BY <1>1, <1>2, ForwardSteps
<1>4. "cas" \in Pcs \ {"idle"} /\ outbox' = [outbox EXCEPT ![Cmd] = s] /\ Goto("cas", p0)
  BY DEF Pcs
<1>4a. UNCHANGED asked /\ p0 \in Evidence \cup {None}
  BY <1>1
<1> HIDE DEF s, p0
<1>5. /\ exec' \in ExecType /\ exec'.pc = "cas" /\ exec'.held = p0 /\ exec'.turn = exec.turn
      /\ Cmd' = Cmd /\ Ask' = Ask /\ Rec' = s
      /\ outbox' \in [Commands -> Record]
      /\ \A c \in Commands : /\ outbox'[c] = IF c = Cmd THEN s ELSE outbox[c]
                             /\ P(c)' = P(c) /\ P(c) \in Permissions
  <2>1. /\ exec' \in ExecType /\ exec'.pc = "cas" /\ exec'.held = p0 /\ exec'.turn = exec.turn
        /\ Cmd' = Cmd /\ Ask' = Ask /\ Rec' = s
    <3>1. exec \in ExecType /\ exec' = [exec EXCEPT !.pc = "cas", !.held = p0]
      BY <1>0, <1>4 DEF Types, ExecType, Goto
    <3>2. exec' \in ExecType /\ exec'.pc = "cas" /\ exec'.held = p0 /\ exec'.turn = exec.turn
      BY <1>4, <1>4a, <3>1 DEF ExecType
    <3>3. Cmd' = Cmd /\ Ask' = Ask
      BY <3>2 DEF Cmd, Ask
    <3>4. Rec' = s
      BY <1>0, <1>1, <1>4, <3>3 DEF Types, Rec
    <3> QED
      BY <3>2, <3>3, <3>4
  <2>2. /\ outbox' \in [Commands -> Record]
        /\ \A c \in Commands : outbox'[c] = IF c = Cmd THEN s ELSE outbox[c]
    BY <1>0, <1>1, <1>3, <1>4 DEF Types
  <2>3. \A c \in Commands : P(c)' = P(c) /\ P(c) \in Permissions
    BY <1>0, Typed DEF P
  <2> QED
    BY <2>1, <2>2, <2>3
<1>6. /\ claim' \in [Permissions -> Commands \cup {None}]
      /\ \A p \in Permissions : claim'[p] = IF p = p0 THEN Cmd ELSE claim[p]
      /\ (p0 \in pending /\ claim[p0] \in {None, Cmd}) \/ claim[p0] = Cmd
  BY <1>0, <1>1 DEF Types, p0
<1>7. ASSUME NEW c \in Commands, Entitled(c), P(c) = p0
      PROVE  c = Cmd
  BY <1>0, <1>1, <1>6, <1>7 DEF IInv, EntitledClaims
<1>8. Types'
  BY <1>0, <1>1, <1>5, <1>6 DEF Types, ExecType, At
<1>9. Shown'
  <2>1. \A i \in DOMAIN queue : queue[i].turn[1] \in Commands
    BY <1>0, Queued
  <2> QED
    BY <1>0, <1>1, <1>5, <1>6, <2>1 DEF IInv, Shown, P, At
<1>10. ExecShape'
  BY <1>1, <1>3, <1>5 DEF ExecShape, At, Sending, p0
<1>11. RecoveryIsClaimed'
  <2>1. ASSUME NEW c \in Commands, outbox'[c].recovery # None, c # Cmd
        PROVE  /\ outbox'[c].recovery = P(c) /\ claim'[P(c)] = c
               /\ outbox'[c].status # "absent" /\ status[P(c)] # "none"
    <3>1. outbox'[c] = outbox[c]
      BY <1>5, <2>1
    <3>2. P(c) # p0
      BY <1>7, <2>1, <3>1 DEF Entitled
    <3> QED
      BY <1>0, <1>5, <1>6, <2>1, <3>1, <3>2 DEF IInv, RecoveryIsClaimed
  <2>2. /\ outbox'[Cmd].recovery = P(Cmd) /\ claim'[P(Cmd)] = Cmd
        /\ outbox'[Cmd].status # "absent" /\ status[P(Cmd)] # "none"
    BY <1>1, <1>3, <1>5, <1>6
  <2> QED
    BY <1>5, <2>1, <2>2 DEF RecoveryIsClaimed
<1>12. ClaimDecides'
  <2>1. ASSUME NEW p \in Permissions, claim'[p] # None
        PROVE  /\ P(claim[p])' = p
               /\ status[p] = "pending" => chat = "closed" \/ Cmd = claim'[p]
    <3>1. CASE p = p0
      BY <1>1, <1>5, <1>6, <3>1 DEF P
    <3>2. CASE p # p0
      <4>1. claim'[p] = claim[p] /\ claim[p] \in Commands
        BY <1>0, <1>6, <2>1, <3>2 DEF Types
      <4> QED
        BY <1>0, <1>5, <2>1, <4>1 DEF IInv, ClaimDecides, P
    <3> QED
      BY <3>1, <3>2
  <2> QED
    BY <1>5, <2>1 DEF ClaimDecides, At
<1>13. \A c \in Commands : Entitled(c)' => c = Cmd \/ Entitled(c)
  <2>1. \A c \in Commands : ~Deciding(c)'
    BY <1>5 DEF Deciding, Sending
  <2>2. \A c \in Commands : Sent(c)' = Sent(c)
    BY DEF Sent
  <2> QED
    BY <1>5, <2>1, <2>2 DEF Entitled
<1>14. EntitledClaims'
  <2>1. ASSUME NEW c \in Commands, Entitled(c), c # Cmd
        PROVE  /\ status[P(c)] # "none"
               /\ claim'[P(c)] = c \/ (claim'[P(c)] = None /\ P(c) \notin pending)
    <3>1. P(c) # p0
      BY <1>7, <2>1
    <3> QED
      BY <1>0, <1>5, <1>6, <2>1, <3>1 DEF IInv, EntitledClaims
  <2>2. status[P(Cmd)] # "none" /\ claim'[P(Cmd)] = Cmd
    BY <1>1, <1>6
  <2> QED
    BY <1>5, <1>13, <2>1, <2>2 DEF EntitledClaims
<1>15. OneEntitled'
  BY <1>0, <1>1, <1>5, <1>7, <1>13 DEF IInv, OneEntitled
<1>16. SentIsFinal' /\ OneSent' /\ SentAsDecided'
  <2>1. ASSUME NEW t \in Attempts, agent[t] # "away"
        PROVE  outbox'[t[1]].status \in Final
    <3>1. t[1] \in Commands /\ outbox[t[1]].status \in Final
      BY <1>0, <2>1, Typed DEF IInv, SentIsFinal
    <3>2. t[1] # Cmd
      BY <1>1, <1>2, <3>1 DEF Final
    <3> QED
      BY <1>5, <3>1, <3>2
  <2>2. SentIsFinal'
    BY <2>1 DEF SentIsFinal
  <2> QED
    BY <1>0, <2>2 DEF IInv, OneSent, SentAsDecided
<1> QED
  BY <1>8, <1>9, <1>10, <1>11, <1>12, <1>14, <1>15, <1>16 DEF IInv

LEMMA ClaimStep ==
    ASSUME IInv, Claim
    PROVE  IInv'
<1> DEFINE mine == Claimable(Ask.perm, Cmd)
           held == IF mine THEN Ask.perm ELSE exec.held
<1>0. exec.pc = "claim" /\ At("claim") /\ ~At("cas") /\ ~At("idle") /\ ~At("forward")
  BY DEF Claim, At
<1>1. /\ Types /\ Cmd \in Commands /\ Rec \in Record /\ Ask.perm \in Permissions
      /\ Rec.recovery # None => /\ Rec.status # "absent" /\ Rec.recovery = Ask.perm
                                /\ claim[Ask.perm] = Cmd
      /\ Ask.perm # None /\ exec.held \in Evidence \cup {None}
  BY <1>0, Here, Typed
<1>2. UNCHANGED <<asked, tries, queue, status, reg, chat, agent, pending>>
  BY DEF Claim, docs, world
<1>3. /\ exec.held = None => Rec.status = "intent_durable"
      /\ exec.held # None => exec.held = Ask.perm /\ Rec.recovery = exec.held
  BY <1>0 DEF IInv, ExecShape
<1>4. claim \in [Permissions -> Commands \cup {None}]
      /\ claim' = IF mine THEN [claim EXCEPT ![Ask.perm] = Cmd] ELSE claim
  BY <1>1 DEF Types, Claim
<1>5. CASE held = None
  <2>1. exec.held = None /\ ~mine /\ Goto("cas", None) /\ UNCHANGED outbox
    BY <1>1, <1>5 DEF Claim
  <2>2. outbox' = [outbox EXCEPT ![Cmd] = Rec] /\ UNCHANGED claim
    BY <1>1, <1>4, <2>1 DEF Types, Rec
  <2>3. "cas" \in Pcs \ {"idle"} /\ "cas" \notin {"barrier"} \cup Sending
    BY DEF Pcs, Sending
  <2>4. exec'.pc = "cas" /\ exec'.held = None /\ Ask' = Ask /\ Rec' = Rec /\ Cmd' = Cmd
    BY <1>0, <1>1, <1>2, <2>1, <2>2, <2>3, GotoStep
  <2>5. ExecShape'
    BY <1>2, <1>3, <2>1, <2>2, <2>4 DEF ExecShape, At, Sending, Claimable
  <2> QED
    BY <1>0, <1>1, <1>2, <2>1, <2>2, <2>3, <2>5, Moves
<1>6. CASE held # None /\ CanSetRecovery(Rec, held)
  <2>1. held = Ask.perm
    BY <1>3, <1>6
  <2>2. /\ CanSetRecovery(Rec, Ask.perm) /\ Goto("cas", Ask.perm)
        /\ outbox' = [outbox EXCEPT ![Cmd] = SetRecovery(Rec, Ask.perm)]
    BY <1>6, <2>1 DEF Claim, Store
  <2>3. mine \/ claim[Ask.perm] = Cmd
    BY <1>1, <1>3, <1>6
  <2>4. claim' = [claim EXCEPT ![Ask.perm] = Cmd]
    BY <1>1, <1>4, <2>3
  <2>5. \/ Ask.perm \in pending /\ claim[Ask.perm] \in {None, Cmd}
        \/ claim[Ask.perm] = Cmd
    BY <2>3 DEF Claimable
  <2> QED
    BY <1>0, <1>2, <2>2, <2>4, <2>5, Claims
<1>7. CASE held # None /\ ~CanSetRecovery(Rec, held)
  <2>1. Rec.recovery # None
    <3>1. CASE exec.held # None
      BY <1>3, <3>1
    <3>2. CASE exec.held = None
      BY <1>3, <1>7, <3>2 DEF CanSetRecovery
    <3> QED
      BY <3>1, <3>2
  <2>2. claim' = claim
    BY <1>1, <1>4, <2>1
  <2>3. Degraded
    BY <1>7 DEF Claim
  <2> QED
    BY <1>0, <1>2, <2>2, <2>3, DegradedStep
<1> QED
  BY <1>5, <1>6, <1>7

\* The decision: it finds the request pending, so nobody else is entitled to it.
LEMMA Decides ==
    ASSUME IInv, At("cas"), chat # "closed", status[Ask.perm] = "pending",
           UNCHANGED <<asked, tries, queue, claim, reg, chat, agent, pending>>,
           status' = [status EXCEPT ![Ask.perm] = Ask.decision],
           NEW s \in Record, outbox' = [outbox EXCEPT ![Cmd] = s],
           s.recovery = Rec.recovery, s.status # "absent",
           \/ Goto("barrier", exec.held) /\ s = Rec
           \/ \E a \in Answers : exec' = [exec EXCEPT !.pc = "publish", !.answer = a]
    PROVE  IInv'
<1> DEFINE p0 == Ask.perm
<1>0. IInv /\ Types /\ exec.pc = "cas" /\ ~At("idle")
  BY Here DEF IInv, At
<1>1. /\ Cmd \in Commands /\ exec.turn \in Attempts /\ Cmd = exec.turn[1] /\ Rec \in Record
      /\ P(Cmd) = p0 /\ p0 \in Permissions /\ outbox[Cmd] = Rec
      /\ Ask.decision \in Decisions /\ None \notin Commands
  BY <1>0, Here, Typed
<1>2. /\ Rec.status = "intent_durable"
      /\ exec.held # None => exec.held = p0 /\ Rec.recovery = exec.held
      /\ exec.held = None => p0 \notin pending \/ claim[p0] \notin {None, Cmd}
      /\ Rec.recovery # None => claim[p0] = Cmd
  BY <1>0, Here DEF IInv, ExecShape
<1> HIDE DEF p0
<1>3. claim[p0] \in {None, Cmd} /\ (claim[p0] = Cmd \/ p0 \notin pending)
  <2>1. claim[p0] # None => Cmd = claim[p0]
    BY <1>0, <1>1 DEF IInv, ClaimDecides, p0
  <2> QED
    BY <1>2, <2>1
<1>4. /\ exec' \in ExecType /\ exec'.pc \in {"barrier", "publish"} /\ exec'.turn = exec.turn
      /\ exec'.pc = "barrier" => s = Rec /\ exec'.held = exec.held
  <2>1. exec \in ExecType
    BY <1>0 DEF Types, ExecType
  <2>2. CASE Goto("barrier", exec.held) /\ s = Rec
    <3>1. exec' = [exec EXCEPT !.pc = "barrier"]
      BY <2>1, <2>2 DEF Goto, ExecType
    <3> QED
      BY <2>1, <2>2, <3>1 DEF ExecType, Pcs
  <2>3. ASSUME NEW a \in Answers, exec' = [exec EXCEPT !.pc = "publish", !.answer = a]
        PROVE  exec' \in ExecType /\ exec'.pc = "publish" /\ exec'.turn = exec.turn
    BY <2>1, <2>3 DEF ExecType, Pcs
  <2> QED
    BY <2>2, <2>3
<1>5. /\ Cmd' = Cmd /\ Ask' = Ask
      /\ outbox' \in [Commands -> Record]
      /\ \A c \in Commands : /\ outbox'[c] = IF c = Cmd THEN s ELSE outbox[c]
                             /\ outbox'[c].recovery = outbox[c].recovery
                             /\ P(c)' = P(c) /\ P(c) \in Permissions
  BY <1>0, <1>1, <1>4, Typed DEF Types, Cmd, Ask, P
<1>6. /\ status' \in [Permissions -> Decisions \cup {"none", "pending", "expired"}]
      /\ \A p \in Permissions : status'[p] = IF p = p0 THEN Ask.decision ELSE status[p]
      /\ Ask.decision \notin {"none", "pending"}
      /\ \A p \in Permissions : status'[p] = "none" <=> status[p] = "none"
  <2>1. status \in [Permissions -> Decisions \cup {"none", "pending", "expired"}]
    BY <1>0 DEF Types
  <2>2. Ask.decision \notin {"none", "pending"} /\ status[p0] # "none"
    BY <1>1 DEF Decisions, p0
  <2> QED
    BY <1>1, <2>1, <2>2 DEF p0
<1>7. ASSUME NEW c \in Commands, Sent(c)
      PROVE  P(c) # p0
  <2>1. PICK n \in 1..MaxTries : agent[<<c, n>>] # "away"
    BY <1>7 DEF Sent
  <2>2. <<c, n>> \in Attempts /\ <<c, n>>[1] = c
    BY DEF Attempts
  <2>3. status[P(c)] = asked[c].decision
    BY <1>0, <2>1, <2>2 DEF IInv, SentAsDecided, P
  <2>4. asked[c].decision # "pending"
    BY <1>0, Typed DEF Decisions
  <2> QED
    BY <2>3, <2>4 DEF p0
<1>8. ASSUME NEW c \in Commands, Entitled(c), P(c) = p0
      PROVE  c = Cmd
  <2>1. ~Deciding(c) /\ ~Sent(c)
    BY <1>0, <1>7, <1>8 DEF Deciding, Sending
  <2>2. claim[p0] = c
    BY <1>0, <1>8, <2>1 DEF Entitled, IInv, RecoveryIsClaimed
  <2> QED
    BY <1>1, <1>3, <2>2
<1>9. Types'
  BY <1>0, <1>1, <1>4, <1>5, <1>6 DEF Types, ExecType, At
<1>10. Shown'
  <2>1. \A i \in DOMAIN queue : queue[i].turn[1] \in Commands
    BY <1>0, Queued
  <2>2. \A i \in DOMAIN queue : status'[P(queue[i].turn[1])'] # "none"
    <3>1. ASSUME NEW c \in Commands, status[P(c)] # "none"
          PROVE  status'[asked'[c].perm] # "none"
      BY <1>5, <1>6, <3>1 DEF P
    <3> QED
      BY <1>0, <2>1, <3>1 DEF IInv, Shown, P
  <2>3. status'[P(Cmd)'] # "none"
    BY <1>0, <1>1, <1>5, <1>6 DEF IInv, Shown
  <2>4. reg # None => status'[reg] = "none"
    BY <1>0, <1>6 DEF IInv, Shown, Types
  <2>5. \A p \in Permissions : status'[p] = "none" => claim[p] = None
    BY <1>0, <1>6 DEF IInv, Shown
  <2> QED
    BY <1>5, <2>2, <2>3, <2>4, <2>5 DEF Shown, P
<1>11. ExecShape'
  <2>1. exec'.pc = "barrier" => Rec' = Rec
    BY <1>1, <1>4, <1>5 DEF Rec
  <2> QED
    BY <1>1, <1>2, <1>4, <1>5, <1>6, <2>1 DEF ExecShape, At, Sending, p0
<1>12. RecoveryIsClaimed'
  <2>1. ASSUME NEW c \in Commands, outbox[c].recovery # None
        PROVE  /\ outbox[c].recovery = P(c) /\ claim[P(c)] = c
               /\ outbox'[c].status # "absent" /\ status'[P(c)] # "none"
    <3>1. /\ outbox[c].recovery = P(c) /\ claim[P(c)] = c
          /\ outbox[c].status # "absent" /\ status[P(c)] # "none"
      BY <1>0, <2>1 DEF IInv, RecoveryIsClaimed
    <3> QED
      BY <1>5, <1>6, <3>1
  <2> QED
    BY <1>5, <2>1 DEF RecoveryIsClaimed
<1>13. ClaimDecides'
  <2>1. ASSUME NEW p \in Permissions, claim[p] # None
        PROVE  P(claim[p])' = p /\ status'[p] # "pending"
    <3>1. P(claim[p]) = p /\ (status[p] = "pending" => Cmd = claim[p])
      BY <1>0, <2>1 DEF IInv, ClaimDecides
    <3> QED
      BY <1>1, <1>6, <3>1 DEF P
  <2> QED
    BY <2>1 DEF ClaimDecides
<1>14. \A c \in Commands : Entitled(c)' => c = Cmd \/ Entitled(c)
  <2>1. \A c \in Commands : Deciding(c)' => c = Cmd
    BY <1>5 DEF Deciding
  <2>2. \A c \in Commands : Sent(c)' = Sent(c)
    BY DEF Sent
  <2> QED
    BY <1>5, <2>1, <2>2 DEF Entitled
<1>15. EntitledClaims'
  <2>1. ASSUME NEW c \in Commands, Entitled(c) \/ c = Cmd
        PROVE  /\ status'[P(c)] # "none"
               /\ claim[P(c)] = c \/ (claim[P(c)] = None /\ P(c) \notin pending)
    <3>1. CASE Entitled(c)
      <4>1. /\ status[P(c)] # "none"
            /\ claim[P(c)] = c \/ (claim[P(c)] = None /\ P(c) \notin pending)
        BY <1>0, <3>1 DEF IInv, EntitledClaims
      <4> QED
        BY <1>5, <1>6, <4>1
    <3>2. CASE c = Cmd
      BY <1>0, <1>1, <1>3, <1>6, <3>2, Here
    <3> QED
      BY <2>1, <3>1, <3>2
  <2> HIDE DEF Entitled
  <2> QED
    BY <1>5, <1>14, <2>1 DEF EntitledClaims
<1>16. OneEntitled'
  <2>1. ASSUME NEW c \in Commands, NEW d \in Commands, Entitled(c) \/ c = Cmd,
               Entitled(d) \/ d = Cmd, P(c) = P(d)
        PROVE  c = d
    BY <1>0, <1>1, <1>8, <2>1 DEF IInv, OneEntitled
  <2>2. ASSUME NEW c \in Commands, NEW d \in Commands, Entitled(c)', Entitled(d)', P(c)' = P(d)'
        PROVE  c = d
    <3>1. (Entitled(c) \/ c = Cmd) /\ (Entitled(d) \/ d = Cmd)
      BY <1>14, <2>2
    <3>2. P(c) = P(d)
      BY <1>5, <2>2
    <3> QED
      BY <2>1, <3>1, <3>2
  <2> QED
    BY <2>2 DEF OneEntitled
<1>17. ASSUME NEW t \in Attempts, agent[t] # "away"
       PROVE  /\ outbox'[t[1]].status \in Final
              /\ status'[asked[t[1]].perm] = asked[t[1]].decision
  <2>1. /\ t[1] \in Commands /\ outbox[t[1]].status \in Final
        /\ status[P(t[1])] = asked[t[1]].decision
    BY <1>0, <1>17, Typed DEF IInv, SentIsFinal, SentAsDecided, P
  <2>2. t[1] # Cmd /\ P(t[1]) # p0
    <3>1. asked[t[1]].decision # "pending"
      BY <1>0, <2>1, Typed DEF Decisions
    <3> QED
      BY <1>1, <1>2, <2>1, <3>1 DEF Final, p0
  <2> QED
    BY <1>5, <1>6, <2>1, <2>2 DEF P
<1>18. SentIsFinal' /\ OneSent' /\ SentAsDecided'
  BY <1>0, <1>17 DEF IInv, SentIsFinal, OneSent, SentAsDecided
<1> QED
  BY <1>9, <1>10, <1>11, <1>12, <1>13, <1>15, <1>16, <1>18 DEF IInv

LEMMA DecideStep ==
    ASSUME IInv, Decide
    PROVE  IInv'
<1>0. ~At("idle") /\ At("cas") /\ exec.pc = "cas" /\ chat # "closed" /\ status[Ask.perm] = "pending"
  BY DEF Decide, At, Resolves
<1>1. UNCHANGED <<asked, tries, queue, claim, reg, chat, agent, pending>>
      /\ status' = [status EXCEPT ![Ask.perm] = Ask.decision]
  BY DEF Decide, table, world
<1>2. Rec \in Record /\ Rec.status = "intent_durable"
  BY <1>0, Here DEF IInv, ExecShape
<1>3. CASE UNCHANGED outbox
  <2>1. outbox' = [outbox EXCEPT ![Cmd] = Rec] /\ Rec.status # "absent"
    BY <1>0, <1>2, <1>3, Here DEF Types
  <2>2. \/ Goto("barrier", exec.held)
        \/ \E a \in Answers : exec' = [exec EXCEPT !.pc = "publish", !.answer = a]
    BY DEF Decide, Finish, Unknown, Answers
  <2> QED
    BY <1>0, <1>1, <1>2, <2>1, <2>2, Decides
<1>4. CASE Unknown
  <2> DEFINE s == MarkDeliveryUnknown(Rec)
  <2>1. s \in Record /\ s.status = "delivery_unknown" /\ s.recovery = Rec.recovery
    BY <1>2, EndSteps
  <2>2. outbox' = [outbox EXCEPT ![Cmd] = s]
    BY <1>4 DEF Unknown, Store
  <2>3. \E a \in Answers : exec' = [exec EXCEPT !.pc = "publish", !.answer = a]
    BY <1>4 DEF Unknown, Finish, Answers
  <2>4. s.status # "absent"
    BY <2>1
  <2> HIDE DEF s
  <2> QED
    BY <1>0, <1>1, <2>1, <2>2, <2>3, <2>4, Decides
<1> QED
  BY <1>3, <1>4 DEF Decide

-----------------------------------------------------------------------------
(* The queue.                                                              *)
Entry == [turn : Attempts, client : Clients]

\* Steps that change nothing an entitlement depends on.
LEMMA Unmoved ==
    ASSUME IInv, UNCHANGED <<asked, claim, status, agent, reg, chat, pending>>,
           \A c \in Commands : outbox'[c].recovery = outbox[c].recovery,
           \A c \in Commands : outbox[c].recovery # None => outbox'[c] = outbox[c],
           \A c \in Commands : Deciding(c)' => Deciding(c),
           At("cas") => At("cas")' /\ Cmd' = Cmd
    PROVE  RecoveryIsClaimed' /\ ClaimDecides' /\ EntitledClaims' /\ OneEntitled'
           /\ OneSent' /\ SentAsDecided'
<1>0. IInv /\ \A c \in Commands : P(c)' = P(c) /\ P(c) \in Permissions
  BY Typed DEF IInv, P
<1>1. RecoveryIsClaimed'
  BY <1>0 DEF IInv, RecoveryIsClaimed
<1>2. ClaimDecides'
  <2>1. ASSUME NEW p \in Permissions, claim[p] # None
        PROVE  /\ P(claim[p])' = p
               /\ status[p] = "pending" => chat = "closed" \/ (At("cas")' /\ Cmd' = claim[p])
    BY <1>0, <2>1 DEF IInv, ClaimDecides, P
  <2> QED
    BY <2>1 DEF ClaimDecides
<1>3. EntitledClaims' /\ OneEntitled'
  <2>1. \A c \in Commands : Sent(c)' = Sent(c)
    BY DEF Sent
  <2>2. \A c \in Commands : Entitled(c)' => Entitled(c)
    BY <2>1 DEF Entitled
  <2> QED
    BY <1>0, <2>2, Kept DEF IInv
<1>4. OneSent' /\ SentAsDecided'
  BY <1>0 DEF IInv, OneSent, SentAsDecided
<1> QED
  BY <1>1, <1>2, <1>3, <1>4

LEMMA StartStep ==
    ASSUME IInv, StartNext
    PROVE  IInv'
<1>0. IInv /\ Types /\ At("idle") /\ exec.pc = "idle" /\ queue \in Seq(Entry) /\ queue # <<>>
  BY DEF IInv, StartNext, Idle, At, Types, Entry
<1>1. /\ queue' = Tail(queue) /\ queue' \in Seq(Entry) /\ Head(queue) \in Entry
      /\ Head(queue) = queue[1] /\ 1 \in DOMAIN queue
      /\ \A i \in DOMAIN queue' : i + 1 \in DOMAIN queue /\ queue'[i] = queue[i + 1]
  <2> HIDE DEF Entry
  <2> QED
    BY <1>0 DEF StartNext
<1>2. /\ exec' \in ExecType /\ exec'.pc = "option"
      /\ exec'.turn = Head(queue).turn /\ exec'.turn \in Attempts
  <2>1. exec' = [Idle EXCEPT !.turn = Head(queue).turn, !.client = Head(queue).client,
                             !.pc = "option"]
    BY DEF StartNext
  <2>2. Head(queue).turn \in Attempts /\ Head(queue).client \in Clients
    BY <1>1 DEF Entry
  <2> QED
    BY <2>1, <2>2 DEF Idle, ExecType, Pcs
<1>3. UNCHANGED <<asked, outbox, tries, claim, status, agent, reg, chat, pending>>
  BY DEF StartNext, table, docs, world
<1>4. Types'
  BY <1>0, <1>1, <1>2, <1>3 DEF Types, ExecType, Entry, At
<1>5. Shown'
  <2>1. \A i \in DOMAIN queue : status[P(queue[i].turn[1])] # "none"
    BY <1>0 DEF IInv, Shown
  <2>2. \A i \in DOMAIN queue' : status[P(queue'[i].turn[1])] # "none"
    BY <1>1, <2>1
  <2>3. status[P(exec'.turn[1])] # "none"
    BY <1>1, <1>2, <2>1
  <2> QED
    BY <1>0, <1>3, <2>2, <2>3 DEF IInv, Shown, P, Cmd
<1>6. ExecShape'
  BY <1>2 DEF ExecShape, At, Sending
<1>7. SentIsFinal'
  BY <1>0, <1>3 DEF IInv, SentIsFinal
<1>8. \A c \in Commands : ~Deciding(c)'
  BY <1>2 DEF Deciding, Sending
<1>9. ~At("cas")
  BY <1>0 DEF At
<1> QED
  BY <1>3, <1>4, <1>5, <1>6, <1>7, <1>8, <1>9, Unmoved DEF IInv

LEMMA EnqueueStep ==
    ASSUME Types, Shown, NEW c \in Commands, NEW k \in Clients, Enqueue(c, k),
           status[P(c)] # "none"
    PROVE  /\ tries' \in [Commands -> 0..MaxTries] /\ queue' \in Seq(Entry)
           /\ \A i \in DOMAIN queue' : status[P(queue'[i].turn[1])] # "none"
<1>0. queue \in Seq(Entry) /\ tries \in [Commands -> 0..MaxTries] /\ MaxTries \in Nat
  BY PermissionAssumption DEF Types, Entry, PermissionAssumption
<1>1. tries[c] + 1 \in 1..MaxTries /\ tries' = [tries EXCEPT ![c] = @ + 1]
  <2>1. asked[c].tries \in 0..MaxTries
    BY PermissionAssumption DEF Types, PermissionAssumption
  <2> QED
    BY <1>0, <2>1 DEF Enqueue
<1>2. tries' \in [Commands -> 0..MaxTries]
  BY <1>0, <1>1
<1> DEFINE e == [turn |-> <<c, tries[c] + 1>>, client |-> k]
<1>3. e \in Entry /\ e.turn[1] = c /\ queue' = Append(queue, e)
  BY <1>1 DEF Entry, Attempts, Enqueue
<1> HIDE DEF e
<1>4. /\ queue' \in Seq(Entry)
      /\ \A i \in DOMAIN queue' : queue'[i] = e \/ (i \in DOMAIN queue /\ queue'[i] = queue[i])
  <2> HIDE DEF Entry
  <2> QED
    BY <1>0, <1>3
<1>5. \A i \in DOMAIN queue' : status[P(queue'[i].turn[1])] # "none"
  BY <1>3, <1>4 DEF Shown
<1> QED
  BY <1>2, <1>4, <1>5

LEMMA SubmitNewStep ==
    ASSUME IInv, NEW c \in Commands, NEW k \in Clients, SubmitNew(c, k)
    PROVE  IInv'
<1> DEFINE s == MarkAccepted(Insert("resolve"))
<1>0. IInv /\ Types /\ Shown
  BY DEF IInv
<1>1. UNCHANGED <<asked, exec, claim, status, agent, reg, chat, pending>>
      /\ outbox' = [outbox EXCEPT ![c] = s] /\ Enqueue(c, k) /\ status[P(c)] # "none"
  BY DEF SubmitNew, table, docs, world, P
<1>2. outbox[c].status = "absent" /\ outbox \in [Commands -> Record]
  BY <1>0 DEF SubmitNew, Disposition, Present, Types
<1>3. s \in Record /\ s.recovery = None
  BY FreshTyped
<1> HIDE DEF s
<1>4. outbox[c].recovery = None
  BY <1>0, <1>2 DEF IInv, RecoveryIsClaimed
<1>5. /\ outbox' \in [Commands -> Record]
      /\ \A d \in Commands : outbox'[d] = IF d = c THEN s ELSE outbox[d]
  BY <1>1, <1>2, <1>3
<1>6. /\ tries' \in [Commands -> 0..MaxTries] /\ queue' \in Seq(Entry)
      /\ \A i \in DOMAIN queue' : status[P(queue'[i].turn[1])] # "none"
  BY <1>0, <1>1, EnqueueStep
<1>7. Types'
  BY <1>0, <1>1, <1>5, <1>6 DEF Types, Entry, At
<1>8. Shown'
  BY <1>0, <1>1, <1>6 DEF Shown, P, Cmd, At
<1>9. exec.pc \in {"cas", "barrier", "forward", "finish", "confirm"} => Cmd # c
  BY <1>0, <1>2 DEF IInv, ExecShape, Rec, At
<1>10. At("claim") => Cmd # c
  <2>1. CASE exec.held = None
    BY <1>0, <1>2, <2>1 DEF IInv, ExecShape, Rec
  <2>2. CASE exec.held # None
    BY <1>0, <1>4, <2>2 DEF IInv, ExecShape, Rec, At
  <2> QED
    BY <2>1, <2>2
<1>11. ExecShape'
  <2>1. CASE exec.pc \in {"claim", "cas", "barrier", "forward", "finish", "confirm"}
    <3>1. Rec' = Rec
      <4>1. Cmd \in Commands /\ Cmd # c
        BY <1>0, <1>9, <1>10, <2>1, Typed DEF At
      <4> QED
        BY <1>1, <1>5, <4>1 DEF Rec, Cmd
    <3>2. Ask' = Ask /\ Cmd' = Cmd
      BY <1>1 DEF Ask, Cmd
    <3> QED
      BY <1>0, <1>1, <3>1, <3>2 DEF IInv, ExecShape, At, Sending
  <2>2. CASE exec.pc \notin {"claim", "cas", "barrier", "forward", "finish", "confirm"}
    BY <1>1, <2>2 DEF ExecShape, At, Sending
  <2> QED
    BY <2>1, <2>2
<1>12. SentIsFinal'
  <2>1. ASSUME NEW t \in Attempts, agent[t] # "away"
        PROVE  outbox'[t[1]].status \in Final \/ (exec.pc \in {"finish", "confirm"} /\ exec.turn = t)
    <3>1. t[1] \in Commands
      BY <1>0, Typed
    <3>2. outbox[t[1]].status \in Final => t[1] # c
      BY <1>2 DEF Final
    <3> QED
      BY <1>0, <1>5, <2>1, <3>1, <3>2 DEF IInv, SentIsFinal
  <2> QED
    BY <1>1, <2>1 DEF SentIsFinal
<1>13. \A d \in Commands : /\ outbox'[d].recovery = outbox[d].recovery
                           /\ outbox[d].recovery # None => outbox'[d] = outbox[d]
  BY <1>3, <1>4, <1>5
<1>14. \A d \in Commands : Deciding(d)' => Deciding(d)
  BY <1>1 DEF Deciding, Cmd
<1>15. At("cas") => At("cas")' /\ Cmd' = Cmd
  BY <1>1 DEF At, Cmd
<1> QED
  BY <1>1, <1>7, <1>8, <1>11, <1>12, <1>13, <1>14, <1>15, Unmoved DEF IInv

LEMMA SubmitResumeStep ==
    ASSUME IInv, NEW c \in Commands, NEW k \in Clients, SubmitResume(c, k)
    PROVE  IInv'
<1>0. IInv /\ Types /\ Shown
  BY DEF IInv
<1>1. UNCHANGED <<asked, outbox, exec, claim, status, agent, reg, chat, pending>> /\ Enqueue(c, k)
  BY DEF SubmitResume, table, docs, world
<1>2. outbox[c].recovery # None
  BY DEF SubmitResume, Disposition
<1>3. status[P(c)] # "none"
  BY <1>0, <1>2 DEF IInv, RecoveryIsClaimed
<1>4. /\ tries' \in [Commands -> 0..MaxTries] /\ queue' \in Seq(Entry)
      /\ \A i \in DOMAIN queue' : status[P(queue'[i].turn[1])] # "none"
  BY <1>0, <1>1, <1>3, EnqueueStep
<1>5. Types'
  BY <1>0, <1>1, <1>4 DEF Types, Entry, At
<1>6. Shown'
  BY <1>0, <1>1, <1>4 DEF Shown, P, Cmd, At
<1>7. ExecShape' /\ SentIsFinal'
  BY <1>0, <1>1 DEF IInv, ExecShape, SentIsFinal, At, Sending, Rec, Ask, Cmd
<1>8. \A d \in Commands : Deciding(d)' => Deciding(d)
  BY <1>1 DEF Deciding, Cmd
<1>9. At("cas") => At("cas")' /\ Cmd' = Cmd
  BY <1>1 DEF At, Cmd
<1> QED
  BY <1>1, <1>5, <1>6, <1>7, <1>8, <1>9, Unmoved DEF IInv

-----------------------------------------------------------------------------
(* The environment.                                                        *)
LEMMA RegisterStep ==
    ASSUME IInv, NEW p \in Permissions, RegisterRequest(p)
    PROVE  IInv'
<1>0. IInv /\ Types /\ status[p] = "none" /\ claim[p] = None
  BY DEF IInv, Shown, RegisterRequest
<1>1. /\ UNCHANGED <<asked, outbox, tries, queue, exec, status, agent, chat>> /\ reg' = p
      /\ \A q \in pending' : q \in pending \/ q = p
  BY DEF RegisterRequest, docs, world
<1>2. claim' = claim
  BY <1>0 DEF RegisterRequest, Types
<1>3. \A c \in Commands : P(c)' = P(c) /\ P(c) \in Permissions
  BY <1>0, <1>1, Typed DEF P
<1>4. Types'
  BY <1>0, <1>1, <1>2 DEF Types, At
<1>5. Shown'
  BY <1>0, <1>1, <1>2 DEF IInv, Shown, At, P, Cmd
<1>6. ExecShape'
  <2>1. Ask' = Ask /\ Rec' = Rec /\ Cmd' = Cmd
    BY <1>1 DEF Ask, Rec, Cmd
  <2>2. ~At("idle") => Ask.perm # p
    BY <1>0, Here
  <2>3. At("cas") /\ exec.held = None =>
            Ask.perm \notin pending' \/ claim[Ask.perm] \notin {None, Cmd}
    BY <1>0, <1>1, <2>2 DEF IInv, ExecShape, At
  <2> QED
    BY <1>0, <1>1, <1>2, <2>1, <2>3 DEF IInv, ExecShape, At, Sending
<1>7. RecoveryIsClaimed' /\ ClaimDecides'
  <2>1. RecoveryIsClaimed'
    BY <1>0, <1>1, <1>2, <1>3 DEF IInv, RecoveryIsClaimed
  <2>2. ClaimDecides'
    BY <1>0, <1>1, <1>2 DEF IInv, ClaimDecides, P, At, Cmd
  <2> QED
    BY <2>1, <2>2
<1>8. EntitledClaims' /\ OneEntitled'
  <2>1. \A c \in Commands : Entitled(c)' => Entitled(c)
    BY <1>1 DEF Entitled, Deciding, Sent, Cmd
  <2>2. \A q \in Permissions : status[q] # "none" =>
            status'[q] # "none" /\ (q \in pending' => q \in pending)
    BY <1>0, <1>1
  <2> QED
    BY <1>0, <1>1, <1>2, <1>3, <2>1, <2>2, Kept DEF IInv
<1>9. SentIsFinal' /\ OneSent' /\ SentAsDecided'
  BY <1>0, <1>1 DEF IInv, SentIsFinal, OneSent, SentAsDecided
<1> QED
  BY <1>4, <1>5, <1>6, <1>7, <1>8, <1>9 DEF IInv

LEMMA RequestStep ==
    ASSUME IInv, ProjectRequest \/ \E p \in Permissions : LegacyRequest(p)
    PROVE  IInv'
<1> DEFINE St == Decisions \cup {"none", "pending", "expired"}
<1>1. Types /\ status \in [Permissions -> St] /\ (reg # None => status[reg] = "none")
  BY DEF IInv, Types, Shown
<1>2. /\ UNCHANGED <<asked, outbox, tries, queue, exec, claim, agent, pending, chat>>
      /\ reg' = None
  BY DEF ProjectRequest, LegacyRequest, table, world
<1>3. \/ status' = status
      \/ \E p \in Permissions : status[p] = "none" /\ status' = [status EXCEPT ![p] = "pending"]
  BY <1>1 DEF ProjectRequest, LegacyRequest, Types
<1>4. /\ status' \in [Permissions -> St]
      /\ \A p \in Permissions : status'[p] = status[p] \/ (status[p] = "none" /\ status'[p] = "pending")
  BY <1>1, <1>3
<1> QED
  BY <1>2, <1>4, Background

LEMMA DisconnectSteps ==
    ASSUME IInv, \/ Disconnect \/ Reconnect \/ DiscExpire \/ DiscClear
                 \/ ProcessExit \/ ExitClear \/ Close
    PROVE  IInv'
<1> DEFINE St == Decisions \cup {"none", "pending", "expired"}
<1>1. /\ Types /\ status \in [Permissions -> St] /\ reg \in Permissions \cup {None}
      /\ reg # None => status[reg] = "none"
  BY DEF IInv, Types, Shown
<1>2. UNCHANGED <<asked, outbox, tries, queue, exec, claim, agent, reg>>
  BY DEF Disconnect, Reconnect, DiscExpire, DiscClear, ProcessExit, ExitClear, Close, table,
         docs
<1>3. pending' \subseteq pending
  BY DEF Disconnect, Reconnect, DiscExpire, DiscClear, ProcessExit, ExitClear, Close, table
<1>4. \/ status' = status
      \/ status' = [p \in Permissions |-> IF status[p] = "pending" THEN "expired" ELSE status[p]]
  BY DEF Disconnect, Reconnect, DiscExpire, DiscClear, ProcessExit, ExitClear, Close, docs
<1>5. /\ status' \in [Permissions -> St]
      /\ \A p \in Permissions :
            status'[p] = status[p] \/ (status[p] = "pending" /\ status'[p] = "expired")
  <2>1. CASE status' = status
    BY <1>1, <2>1
  <2>2. CASE status' = [p \in Permissions |-> IF status[p] = "pending" THEN "expired" ELSE status[p]]
    BY <1>1, <2>2
  <2> QED
    BY <1>4, <2>1, <2>2
<1>6. chat' = chat \/ chat # "closed"
  BY DEF Disconnect, Reconnect, DiscExpire, DiscClear, ProcessExit, ExitClear, Close
<1>7. reg' \in Permissions \cup {None} /\ (reg' # None => status'[reg'] = "none")
  BY <1>1, <1>2, <1>5
<1> QED
  BY <1>2, <1>3, <1>5, <1>6, <1>7, Background

LEMMA AttachStep ==
    ASSUME IInv, NEW c \in Commands, NEW k \in Clients, SubmitAttach(c, k)
    PROVE  IInv'
<1>1. UNCHANGED <<asked, outbox, tries, queue, exec, claim, agent, pending, status, reg, chat>>
  BY DEF SubmitAttach, table, docs, world
<1>2. /\ status \in [Permissions -> Decisions \cup {"none", "pending", "expired"}]
      /\ reg \in Permissions \cup {None}
      /\ reg # None => status[reg] = "none"
  BY DEF IInv, Types, Shown
<1> QED
  BY <1>1, <1>2, Background

-----------------------------------------------------------------------------
LEMMA InitIInv == Init => IInv
<1> SUFFICES ASSUME Init PROVE IInv
  OBVIOUS
<1>1. /\ \A c \in Commands : outbox[c] = Absent
      /\ \A p \in Permissions : claim[p] = None /\ status[p] = "none"
      /\ \A t \in Attempts : agent[t] = "away"
      /\ queue = <<>> /\ reg = None /\ exec = Idle /\ pending = {}
  BY DEF Init
<1>2. exec.pc = "idle" /\ Idle \in ExecType
  BY <1>1 DEF Idle, ExecType, Pcs
<1>3. Types
  <2>1. outbox \in [Commands -> Record] /\ queue \in Seq(Entry)
    BY <1>1, AbsentTyped DEF Init
  <2>2. tries \in [Commands -> 0..MaxTries]
    BY PermissionAssumption DEF Init, PermissionAssumption
  <2>3. asked \in [Commands -> Asks]
    BY PermissionAssumption DEF Init, PermissionAssumption
  <2> QED
    BY <1>1, <1>2, <2>1, <2>2, <2>3 DEF Types, Init, ExecType, Entry, Reaches, At
<1>4. Shown
  BY <1>1, <1>2 DEF Shown, At
<1>5. ExecShape
  BY <1>2 DEF ExecShape, At, Sending
<1>6. RecoveryIsClaimed /\ ClaimDecides
  BY <1>1, AbsentTyped DEF RecoveryIsClaimed, ClaimDecides
<1>7. \A c \in Commands : ~Entitled(c)
  <2>1. \A c \in Commands : ~Sent(c)
    BY <1>1 DEF Sent, Attempts
  <2>2. \A c \in Commands : ~Deciding(c)
    BY <1>2 DEF Deciding, Sending
  <2> QED
    BY <1>1, <2>1, <2>2, AbsentTyped DEF Entitled
<1>8. EntitledClaims /\ OneEntitled
  BY <1>7 DEF EntitledClaims, OneEntitled
<1>9. SentIsFinal /\ OneSent /\ SentAsDecided
  BY <1>1 DEF SentIsFinal, OneSent, SentAsDecided
<1> QED
  BY <1>3, <1>4, <1>5, <1>6, <1>8, <1>9 DEF IInv

LEMMA NextIInv == IInv /\ [Next]_vars => IInv'
<1> SUFFICES ASSUME IInv, [Next]_vars PROVE IInv'
  OBVIOUS
<1>1. ASSUME Executor PROVE IInv'
  BY <1>1, StartStep, OptionStep, ClaimStep, DecideStep, DecidedStep, BarrierStep, ForwardEnds,
     AckedStep, FinishStep, ConfirmStep, AnswerSteps DEF Executor
<1>2. ASSUME Environment PROVE IInv'
  BY <1>2, SubmitNewStep, SubmitResumeStep, AttachStep, RegisterStep, RequestStep,
     DisconnectSteps DEF Environment
<1>3. CASE UNCHANGED vars
  <2>1. UNCHANGED <<asked, outbox, tries, queue, exec, pending, claim, status, reg, agent, chat>>
    BY <1>3 DEF vars, table, docs, world
  <2>2. Types' /\ Shown' /\ ExecShape'
    BY <2>1 DEF IInv, Types, Shown, ExecShape, At, P, Cmd, Rec, Ask
  <2>3. SentIsFinal'
    BY <2>1 DEF IInv, SentIsFinal
  <2>4. \A c \in Commands : Deciding(c)' <=> Deciding(c)
    BY <2>1 DEF Deciding, Cmd
  <2>5. At("cas")' = At("cas") /\ Cmd' = Cmd
    BY <2>1 DEF At, Cmd
  <2> QED
    BY <2>1, <2>2, <2>3, <2>4, <2>5, Unmoved DEF IInv
<1> QED
  BY <1>1, <1>2, <1>3 DEF Next

LEMMA AlwaysIInv == Spec => []IInv
BY InitIInv, NextIInv, PTL DEF Spec

\* However many commands decide on a request of the agent, and however often they are
\* executed, at most one answer is on the way to it or there: the claim of relay_permission.rs,
\* the compare-and-set of state/permission.rs and the outbox together.
THEOREM OneAnswerTheorem == Spec => []OneAnswerToAgent
<1>1. IInv => OneAnswerToAgent
  <2> SUFFICES ASSUME IInv, NEW s \in Attempts, NEW t \in Attempts,
                      agent[s] # "away", agent[t] # "away", P(s[1]) = P(t[1])
               PROVE  s = t
    BY DEF OneAnswerToAgent, P
  <2>1. \A u \in Attempts : agent[u] # "away" => u[1] \in Commands /\ Entitled(u[1])
    <3>1. ASSUME NEW u \in Attempts, agent[u] # "away"
          PROVE  u[1] \in Commands /\ Sent(u[1])
      <4>1. u[1] \in Commands /\ u[2] \in 1..MaxTries /\ u = <<u[1], u[2]>>
        BY Typed DEF IInv
      <4> QED
        BY <3>1, <4>1 DEF Sent
    <3> QED
      BY <3>1 DEF Entitled
  <2>2. s[1] = t[1]
    BY <2>1 DEF IInv, OneEntitled
  <2> QED
    BY <2>2 DEF IInv, OneSent
<1> QED
  BY <1>1, AlwaysIInv, PTL

\* What the agent is told is what the document shows, then and for good: no decision,
\* disconnect, exit or close rewrites the status of an answered request.
THEOREM SentAsDecidedTheorem == Spec => []SentAsDecided
<1>1. IInv => SentAsDecided
  BY DEF IInv
<1> QED
  BY <1>1, AlwaysIInv, PTL

\* The agent hears one answer to its request, and it is the one that every client sees, from
\* then on.
THEOREM AgentHearsTheorem == Spec => []AgentHearsDecision
<1>1. OneAnswerToAgent /\ SentAsDecided => AgentHearsDecision
  BY DEF AgentHearsDecision
<1> QED
  BY <1>1, OneAnswerTheorem, SentAsDecidedTheorem, PTL

-----------------------------------------------------------------------------
(* What the clients are told.  The attempts of a command are executed in   *)
(* the order they were enqueued in, so the last one has its answer only    *)
(* when none is left to touch the record.                                  *)

\* The types that Types leaves out, and the limits of the broker's tables.
Tables ==
    /\ observers \in [Commands -> SUBSET Clients]
    /\ \A c \in Commands :
          IsFiniteSet(observers[c]) /\ Cardinality(observers[c]) <= PerCommand
    /\ fallbacks \subseteq Commands
    /\ IsFiniteSet(fallbacks) /\ Cardinality(fallbacks) <= MaxFallbacks
    /\ overflow \in BOOLEAN /\ faults \in 0..MaxFaults
    /\ chat \in {"alive", "ended", "gone", "closed"}
    /\ link \in {"up", "down"} /\ drops \in 0..MaxDrops
    /\ disc \in {"idle", "expire", "clear"}
    /\ verdict \in [Attempts -> Answers \cup {None}]

\* An attempt the agent may know of, or whose answer is out, is not queued any more.
Begun(t) == verdict[t] # None \/ agent[t] # "away"
InOrder ==
    /\ \A i \in DOMAIN queue : queue[i].turn[2] <= tries[queue[i].turn[1]]
    /\ \A i, j \in DOMAIN queue :
          i < j /\ queue[i].turn[1] = queue[j].turn[1] => queue[i].turn[2] < queue[j].turn[2]
    /\ ~At("idle") =>
          /\ exec.turn[2] <= tries[Cmd] /\ verdict[exec.turn] = None
          /\ \A i \in DOMAIN queue :
                queue[i].turn[1] = Cmd => exec.turn[2] < queue[i].turn[2]
    /\ \A t \in Attempts : Begun(t) =>
          /\ t[2] <= tries[t[1]]
          /\ \A i \in DOMAIN queue : queue[i].turn[1] = t[1] => t[2] < queue[i].turn[2]
          /\ ~At("idle") /\ Cmd = t[1] => t[2] <= exec.turn[2]

\* What an answer says of the agent, the published ones and the one under way.
True(t, answer) ==
    /\ answer \in {"retryable", "failed", "duplicate"} => agent[t] \in {"away", "refused"}
    /\ answer = "committed" => agent[t] = "taken"
Truthful ==
    /\ \A t \in Attempts : True(t, verdict[t])
    /\ exec.pc \in {"option", "claim", "cas", "barrier", "forward"} => agent[exec.turn] = "away"
    /\ exec.pc \in {"finish", "confirm"} => agent[exec.turn] = "taken"
    /\ At("publish") => exec.answer \in Answers /\ True(exec.turn, exec.answer)

\* A record between two executions, and how far the execution under way has it.
Working(c, pcs) == exec.pc \in pcs /\ Cmd = c
Tidy(c) ==
    /\ outbox[c].status \in {"absent", "accepted", "intent_durable", "dispatched"} \cup Final
    /\ outbox[c].status = "dispatched" => Working(c, {"confirm"})
    /\ outbox[c].status = "accepted" => ~outbox[c].barrier /\ outbox[c].recovery = None
    /\ outbox[c].status = "intent_durable" /\ outbox[c].barrier =>
          Working(c, {"forward", "finish"})
    /\ outbox[c].status = "intent_durable" /\ outbox[c].recovery = None =>
          chat = "closed" \/ Working(c, {"claim", "cas", "barrier", "forward", "finish"})
Settled == \A c \in Commands : Tidy(c)

\* A request that a command cannot claim any more.
Barred(p, c) == p \notin pending \/ claim[p] \notin {None, c}
\* A command that never gets another retryable answer while it holds the material.
Shut(c) ==
    \/ outbox[c].status \in Final
    \/ status[P(c)] \notin {"none", "pending", asked[c].decision}
    \/ outbox[c].recovery = None /\ Barred(P(c), c)
\* An execution that finds no record leaves a fallback; so does one of a record that is over.
Forsaken ==
    chat = "alive" =>
        /\ \A c \in fallbacks : Shut(c) /\ status[P(c)] # "none"
        /\ At("publish") /\ exec.answer = "unknown" => Shut(Cmd)
        /\ At("option") /\ ~Present(Rec) => Shut(Cmd)
        /\ \A i \in DOMAIN queue :
              LET c == queue[i].turn[1] IN ~Present(outbox[c]) => Shut(c)

\* A command that is submitted again is executed again.
Again(c) ==
    ~Present(outbox[c]) \/ /\ outbox[c].status = "intent_durable" /\ ~outbox[c].barrier
                           /\ outbox[c].recovery # None /\ c \notin fallbacks
Retried ==
    chat = "alive" =>
        /\ At("publish") /\ exec.answer = "retryable" /\ exec.turn[2] = tries[Cmd] => Again(Cmd)
        /\ \A c \in Commands :
              tries[c] > 0 /\ verdict[<<c, tries[c]>>] = "retryable" => Again(c)

AInv == Tables /\ InOrder /\ Truthful /\ Settled /\ Forsaken /\ Retried

-----------------------------------------------------------------------------
(* What the steps leave of barriers, and what an execution does next.      *)
LEMMA Barriers ==
    ASSUME NEW r \in Record
    PROVE  /\ MarkIntentDurable(r).barrier = r.barrier
           /\ \A ev \in Evidence : SetRecovery(r, ev).barrier = r.barrier
           /\ \A err : LowerBarrier(r, err).barrier = FALSE
BY DEF MarkIntentDurable, SetRecovery, LowerBarrier, Move, Record

\* A record that is tidy can only be removed by a retryable error, and one that is over or
\* missing refuses it.
LEMMA RetryableFails ==
    ASSUME NEW r \in Record, r.status \in {"absent", "accepted", "intent_durable"} \cup Final,
           r.status \in {"accepted", "intent_durable"} => ~r.barrier
    PROVE  LET err == FromErrorCode("AGENT_UNAVAILABLE")
           IN  /\ CanMarkFailed(r, err) <=> r.status \in {"accepted", "intent_durable"}
               /\ CanMarkFailed(r, err) => MarkFailed(r, err) = Absent
<1> DEFINE err == FromErrorCode("AGENT_UNAVAILABLE")
<1>1. err.retryable = TRUE
  BY DEF FromErrorCode, DefaultRetryable
<1>2. CanMarkFailed(r, err) <=> r.status \in {"accepted", "intent_durable"}
  <2> HIDE DEF err
  <2> QED
    BY <1>1 DEF CanMarkFailed, Live, LiveStatuses, Final
<1>3. r.status \in {"accepted", "intent_durable"} => MarkFailed(r, err) = Absent
  <2> HIDE DEF err
  <2> QED
    BY <1>1 DEF MarkFailed
<1> QED
  BY <1>2, <1>3

LEMMA Finishes ==
    ASSUME exec \in ExecType, NEW answer, Finish(answer)
    PROVE  /\ exec'.pc = "publish" /\ exec'.answer = answer
           /\ exec'.turn = exec.turn /\ exec'.held = exec.held
BY DEF Finish, ExecType

LEMMA Goes ==
    ASSUME exec \in ExecType, NEW pc, NEW held, Goto(pc, held)
    PROVE  /\ exec'.pc = pc /\ exec'.held = held
           /\ exec'.turn = exec.turn /\ exec'.answer = exec.answer
BY DEF Goto, ExecType

\* A record is stored for the command under way only.
LEMMA Stores ==
    ASSUME IInv, ~At("idle"), NEW ok, NEW s, Store(ok, s) \/ (s = Rec /\ UNCHANGED outbox)
    PROVE  /\ outbox'[Cmd] = s
           /\ \A c \in Commands : c # Cmd => outbox'[c] = outbox[c]
           /\ Store(ok, s) => ok
<1>1. Cmd \in Commands /\ outbox \in [Commands -> Record] /\ outbox[Cmd] = Rec
  BY Here DEF Types
<1> QED
  BY <1>1 DEF Store

-----------------------------------------------------------------------------
(* The steps between an execution's start and its answer.                  *)
Middle ==
    \/ CheckOption \/ Claim \/ Decide \/ DecidedBefore \/ DecideOnClosed \/ Barrier
    \/ LegacyUnbound \/ ForwardAcked \/ ForwardNotDelivered \/ ForwardUnknown
    \/ FinishOfficial \/ ConfirmLegacy

\* The requests and the records that a step may touch, and how.
Ages ==
    \A p \in Permissions : status[p] # "none" =>
        /\ status'[p] # "none"
        /\ status[p] # "pending" => status'[p] = status[p]
        /\ \A c \in Commands : Barred(p, c) => Barred(p, c)'

\* What a step in the middle of an execution does to the record of its command, and the
\* place it takes the execution to.
Progress ==
    /\ exec'.turn = exec.turn
    /\ exec'.pc \in {"claim", "cas", "barrier", "forward"} => agent'[exec.turn] = "away"
    /\ exec'.pc \in {"finish", "confirm"} => agent'[exec.turn] = "taken"
    /\ exec'.pc \in {"claim", "cas", "barrier", "forward", "finish", "confirm", "publish"}
    /\ exec'.pc = "publish" => exec'.answer \in Answers /\ True(exec.turn, exec.answer)'
    /\ Tidy(Cmd)'
    /\ Rec.status \in Final => outbox'[Cmd].status \in Final
    /\ Rec.recovery = None /\ Barred(Ask.perm, Cmd) => outbox'[Cmd].recovery = None
    /\ chat = "alive" =>
          /\ ~Present(outbox'[Cmd]) => ~Present(Rec) \/ Shut(Cmd)'
          /\ exec'.pc = "publish" /\ exec'.answer = "unknown" => Shut(Cmd)'
          /\ exec'.pc = "publish" /\ exec'.answer = "retryable" => Again(Cmd)'

LEMMA Midst ==
    ASSUME IInv, AInv, ~At("idle")
    PROVE  /\ exec \in ExecType /\ exec.turn \in Attempts /\ Cmd \in Commands
           /\ Rec \in Record /\ outbox[Cmd] = Rec /\ Ask.perm \in Permissions
           /\ P(Cmd) = Ask.perm /\ asked[Cmd].decision = Ask.decision
           /\ Rec.status \in {"absent", "accepted", "intent_durable", "dispatched"} \cup Final
           /\ Rec.status = "dispatched" => exec.pc = "confirm"
           /\ Rec.status = "accepted" => ~Rec.barrier /\ Rec.recovery = None
           /\ Rec.status = "intent_durable" /\ Rec.barrier => exec.pc \in {"forward", "finish"}
           /\ Rec.status = "intent_durable" /\ Rec.recovery = None =>
                 chat = "closed" \/ exec.pc \in {"claim", "cas", "barrier", "forward", "finish"}
<1>1. Types /\ Cmd \in Commands /\ Tidy(Cmd)
  BY Here DEF AInv, Settled
<1> QED
  BY <1>1, Here DEF Tidy, Working, Ask, Types, ExecType

\* Whoever holds the material of a request that is not decided against it is no fallback's
\* command.
LEMMA NotForsaken ==
    ASSUME IInv, AInv, chat = "alive", exec.pc \in {"cas", "forward"}, exec.held # None,
           status[Ask.perm] \in {"pending", Ask.decision}
    PROVE  Cmd \notin fallbacks
<1>1. ~At("idle") /\ Rec.status = "intent_durable" /\ Rec.recovery # None
  BY DEF At, IInv, ExecShape
<1>2. ~Shut(Cmd)
  BY <1>1, Midst DEF Shut, Final
<1> QED
  BY <1>2 DEF AInv, Forsaken

\* What follows for the record of an execution that goes on or ends.
LEMMA Tidies ==
    ASSUME IInv, AInv, ~At("idle"), Cmd' = Cmd, NEW s, outbox'[Cmd] = s, chat' = chat,
           s.status \in {"absent", "accepted", "intent_durable", "dispatched"} \cup Final,
           s.status = "dispatched" => exec'.pc = "confirm",
           s.status = "accepted" => ~s.barrier /\ s.recovery = None,
           s.status = "intent_durable" /\ s.barrier => exec'.pc \in {"forward", "finish"},
           s.status = "intent_durable" /\ s.recovery = None =>
               chat = "closed" \/ exec'.pc \in {"claim", "cas", "barrier", "forward", "finish"}
    PROVE  Tidy(Cmd)'
BY DEF Tidy, Working

LEMMA AgentAway ==
    ASSUME IInv, AInv, exec.pc \in {"option", "claim", "cas", "barrier", "forward"}
    PROVE  agent[exec.turn] = "away"
BY DEF AInv, Truthful

LEMMA OptionProgress ==
    ASSUME IInv, AInv, CheckOption
    PROVE  Progress
<1> DEFINE err == FromErrorCode("AGENT_UNAVAILABLE")
<1>0. exec.pc = "option" /\ ~At("idle") /\ UNCHANGED <<asked, chat, agent, status, pending, claim>>
  BY DEF CheckOption, At, world, docs, table
<1>1. agent[exec.turn] = "away"
  BY <1>0, AgentAway
<1>2. /\ exec \in ExecType /\ exec.turn \in Attempts /\ Cmd \in Commands
      /\ Rec \in Record /\ outbox[Cmd] = Rec /\ P(Cmd) = Ask.perm
      /\ Rec.status \in {"absent", "accepted", "intent_durable"} \cup Final
      /\ Rec.status # "dispatched"
      /\ Rec.status = "accepted" => ~Rec.barrier /\ Rec.recovery = None
      /\ Rec.status = "intent_durable" => ~Rec.barrier
      /\ Rec.status = "intent_durable" /\ Rec.recovery = None => chat = "closed"
  BY <1>0, Midst
<1>3. Rec.status = "absent" /\ chat = "alive" => Shut(Cmd)
  BY <1>0 DEF AInv, Forsaken, At, Present
<1>4. CASE Finish("failed") /\ UNCHANGED outbox
  <2>1. exec'.pc = "publish" /\ exec'.answer = "failed" /\ exec'.turn = exec.turn
    BY <1>2, <1>4, Finishes
  <2>2. Cmd' = Cmd /\ outbox'[Cmd] = Rec
    BY <1>2, <1>4, <2>1 DEF Cmd
  <2>3. Tidy(Cmd)'
    BY <1>0, <1>2, <2>1, <2>2, Tidies
  <2> QED
    BY <1>0, <1>1, <1>2, <2>1, <2>2, <2>3 DEF Progress, True, Answers
<1>5. CASE Rec.recovery # None /\ Goto("claim", Rec.recovery) /\ UNCHANGED outbox
  <2>1. exec'.pc = "claim" /\ exec'.turn = exec.turn
    BY <1>2, <1>5, Goes
  <2>2. Cmd' = Cmd /\ outbox'[Cmd] = Rec
    BY <1>2, <1>5, <2>1 DEF Cmd
  <2>3. Tidy(Cmd)'
    BY <1>0, <1>2, <2>1, <2>2, Tidies
  <2> QED
    BY <1>0, <1>1, <1>2, <2>1, <2>2, <2>3 DEF Progress
<1>6. CASE /\ CanMarkIntentDurable(Rec) /\ Store(TRUE, MarkIntentDurable(Rec))
           /\ Goto("claim", None)
  <2> DEFINE s == MarkIntentDurable(Rec)
  <2>1. exec'.pc = "claim" /\ exec'.turn = exec.turn
    BY <1>2, <1>6, Goes
  <2>2. Cmd' = Cmd /\ outbox'[Cmd] = s
    BY <1>0, <1>6, <2>1, Stores DEF Cmd
  <2>3. Rec.status = "accepted"
    BY <1>2, <1>6 DEF CanMarkIntentDurable, CanMove, AllowedTransition
  <2>4. s.status = "intent_durable" /\ s.recovery = Rec.recovery /\ ~s.barrier
    BY <1>2, <2>3, ForwardSteps, Barriers
  <2> HIDE DEF s
  <2>5. Tidy(Cmd)'
    BY <1>0, <1>2, <2>1, <2>2, <2>4, Tidies
  <2> QED
    BY <1>0, <1>1, <1>2, <2>1, <2>2, <2>3, <2>4, <2>5 DEF Progress, Final, Present
<1>7. CASE ~CanMarkIntentDurable(Rec) /\ Rec.recovery = None /\ Degraded
  <2>1. Rec.status # "accepted"
    BY <1>7 DEF CanMarkIntentDurable, CanMove, AllowedTransition
  <2>2. /\ CanMarkFailed(Rec, err) <=> Rec.status = "intent_durable"
        /\ CanMarkFailed(Rec, err) => MarkFailed(Rec, err) = Absent
    BY <1>2, <2>1, RetryableFails
  <2>3. CASE CanMarkFailed(Rec, err)
    <3>1. Store(TRUE, Absent) /\ Finish("retryable")
      BY <1>7, <2>2, <2>3 DEF Degraded
    <3>2. exec'.pc = "publish" /\ exec'.answer = "retryable" /\ exec'.turn = exec.turn
      BY <1>2, <3>1, Finishes
    <3>3. Cmd' = Cmd /\ outbox'[Cmd] = Absent
      BY <1>0, <3>1, <3>2, Stores DEF Cmd
    <3>4. chat = "closed" /\ Rec.status \notin Final
      BY <1>2, <1>7, <2>2, <2>3 DEF Final
    <3>5. Absent.status = "absent" /\ Absent.recovery = None
      BY DEF Absent
    <3>6. Tidy(Cmd)'
      BY <1>0, <3>2, <3>3, <3>5, Tidies
    <3> QED
      BY <1>0, <1>1, <3>2, <3>3, <3>4, <3>5, <3>6 DEF Progress, True, Answers
  <2>4. CASE ~CanMarkFailed(Rec, err)
    <3>1. UNCHANGED outbox /\ Finish("unknown")
      BY <1>7, <2>4 DEF Degraded
    <3>2. exec'.pc = "publish" /\ exec'.answer = "unknown" /\ exec'.turn = exec.turn
      BY <1>2, <3>1, Finishes
    <3>3. Cmd' = Cmd /\ outbox'[Cmd] = Rec
      BY <1>2, <3>1, <3>2 DEF Cmd
    <3>4. Rec.status \in {"absent"} \cup Final
      BY <1>2, <2>1, <2>2, <2>4
    <3>5. chat = "alive" => Shut(Cmd)
      BY <1>2, <1>3, <3>4 DEF Shut
    <3>6. Shut(Cmd) => Shut(Cmd)'
      BY <1>0, <3>1, <3>3 DEF Shut, Barred, P
    <3>7. Tidy(Cmd)'
      BY <1>0, <1>2, <3>2, <3>3, Tidies
    <3> QED
      BY <1>0, <1>1, <1>2, <3>2, <3>3, <3>4, <3>5, <3>6, <3>7 DEF Progress, True, Answers, Present
  <2> QED
    BY <2>3, <2>4
<1> QED
  BY <1>4, <1>5, <1>6, <1>7 DEF CheckOption

LEMMA ClaimProgress ==
    ASSUME IInv, AInv, Claim
    PROVE  Progress
<1> DEFINE err == FromErrorCode("AGENT_UNAVAILABLE")
           mine == Claimable(Ask.perm, Cmd)
           held == IF mine THEN Ask.perm ELSE exec.held
<1>0. exec.pc = "claim" /\ ~At("idle") /\ UNCHANGED <<asked, chat, agent, status, pending>>
  BY DEF Claim, At, world, docs
<1>1. agent[exec.turn] = "away"
  BY <1>0, AgentAway
<1>2. /\ exec \in ExecType /\ Rec \in Record /\ outbox[Cmd] = Rec /\ Cmd \in Commands
      /\ Rec.status \in {"absent", "accepted", "intent_durable"} \cup Final
      /\ Rec.status # "dispatched"
      /\ Rec.status = "accepted" => ~Rec.barrier /\ Rec.recovery = None
      /\ Rec.status = "intent_durable" => ~Rec.barrier
  BY <1>0, Midst
<1>3. /\ exec.held = None => Rec.status = "intent_durable"
      /\ exec.held # None => exec.held = Ask.perm /\ Rec.recovery = exec.held
  BY <1>0 DEF IInv, ExecShape, At
<1>4. /\ Rec.recovery # None => Rec.status # "absent" /\ Rec.recovery = Ask.perm
      /\ Ask.perm \in Permissions /\ Permissions = Evidence
  BY <1>0, Here, PermissionAssumption DEF PermissionAssumption
<1>5. held \in {None, Ask.perm} /\ (held = None => exec.held = None)
  <2>1. None \notin Permissions
    BY <1>2, Typed DEF IInv
  <2> QED
    BY <1>3, <1>4, <2>1
<1>6. Rec.recovery = None /\ Barred(Ask.perm, Cmd) => held = None
  BY <1>3 DEF Claimable, Barred
<1>7. \/ held = None /\ Goto("cas", None) /\ UNCHANGED outbox
      \/ held # None /\ Store(CanSetRecovery(Rec, held), SetRecovery(Rec, held)) /\ Goto("cas", held)
      \/ held # None /\ ~CanSetRecovery(Rec, held) /\ Degraded
  BY DEF Claim
<1> HIDE DEF mine, held
<1>8. CASE held = None /\ Goto("cas", None) /\ UNCHANGED outbox
  <2>1. exec'.pc = "cas" /\ exec'.turn = exec.turn
    BY <1>2, <1>8, Goes
  <2>2. Cmd' = Cmd /\ outbox'[Cmd] = Rec
    BY <1>2, <1>8, <2>1 DEF Cmd
  <2>3. Tidy(Cmd)'
    BY <1>0, <1>2, <2>1, <2>2, Tidies
  <2> QED
    BY <1>0, <1>1, <1>2, <2>1, <2>2, <2>3 DEF Progress
<1>9. CASE /\ held # None /\ Goto("cas", held)
           /\ Store(CanSetRecovery(Rec, held), SetRecovery(Rec, held))
  <2> DEFINE s == SetRecovery(Rec, held)
  <2>1. exec'.pc = "cas" /\ exec'.turn = exec.turn
    BY <1>2, <1>9, Goes
  <2>2. Cmd' = Cmd /\ outbox'[Cmd] = s /\ CanSetRecovery(Rec, held)
    BY <1>0, <1>9, <2>1, Stores DEF Cmd
  <2>3. s.status = Rec.status /\ s.recovery = held /\ s.barrier = Rec.barrier
    <3>1. held \in Evidence
      BY <1>4, <1>5, <1>9
    <3>2. s.status = Rec.status /\ s.recovery = held
      BY <1>2, <3>1, ForwardSteps
    <3>3. s.barrier = Rec.barrier
      BY <1>2, <3>1, Barriers
    <3> QED
      BY <3>2, <3>3
  <2>4. Rec.status = "intent_durable" /\ Rec.status \notin Final
    BY <2>2 DEF CanSetRecovery, Final
  <2> HIDE DEF s
  <2>5. Tidy(Cmd)'
    BY <1>0, <1>2, <1>9, <2>1, <2>2, <2>3, <2>4, Tidies
  <2> QED
    BY <1>0, <1>1, <1>6, <1>9, <2>1, <2>2, <2>3, <2>4, <2>5 DEF Progress, Present
<1>10. CASE held # None /\ ~CanSetRecovery(Rec, held) /\ Degraded
  <2>1. Rec.status # "intent_durable"
    BY <1>4, <1>5, <1>10 DEF CanSetRecovery
  <2>2. Rec.status \in Final
    BY <1>2, <1>3, <1>4, <2>1
  <2>3. ~CanMarkFailed(Rec, err)
    BY <1>2, <2>2, RetryableFails DEF Final
  <2>4. UNCHANGED outbox /\ Finish("unknown")
    BY <1>10, <2>3 DEF Degraded
  <2>5. exec'.pc = "publish" /\ exec'.answer = "unknown" /\ exec'.turn = exec.turn
    BY <1>2, <2>4, Finishes
  <2>6. Cmd' = Cmd /\ outbox'[Cmd] = Rec
    BY <1>2, <2>4, <2>5 DEF Cmd
  <2>7. Tidy(Cmd)'
    BY <1>0, <1>2, <2>1, <2>5, <2>6, Tidies
  <2>8. Shut(Cmd)'
    BY <2>2, <2>6 DEF Shut
  <2> QED
    BY <1>0, <1>1, <1>2, <2>2, <2>5, <2>6, <2>7, <2>8 DEF Progress, True, Answers, Present, Final
<1> QED
  BY <1>7, <1>8, <1>9, <1>10

\* An end that leaves the record final.
LEMMA FinalProgress ==
    ASSUME IInv, AInv, ~At("idle"), UNCHANGED <<asked, chat>>,
           NEW s, outbox'[Cmd] = s, s.status \in Final,
           Rec.recovery = None => s.recovery = None,
           NEW answer \in Answers \ {"retryable"}, Finish(answer),
           answer \in {"failed", "duplicate"} => agent'[exec.turn] \in {"away", "refused"},
           answer = "committed" => agent'[exec.turn] = "taken"
    PROVE  Progress
<1>1. exec'.pc = "publish" /\ exec'.answer = answer /\ exec'.turn = exec.turn
  BY Midst, Finishes
<1>2. Cmd' = Cmd
  BY <1>1 DEF Cmd
<1>3. Tidy(Cmd)'
  BY <1>1, <1>2, Tidies DEF Final
<1>4. Shut(Cmd)' /\ s.status # "absent"
  BY <1>2 DEF Shut, Final
<1>5. exec'.answer \in Answers /\ True(exec.turn, exec.answer)'
  BY <1>1 DEF True
<1> QED
  BY <1>1, <1>2, <1>3, <1>4, <1>5 DEF Progress, Present

LEMMA UnknownProgress ==
    ASSUME IInv, AInv, ~At("idle"), UNCHANGED <<asked, chat>>, Unknown
    PROVE  Progress
<1> DEFINE s == MarkDeliveryUnknown(Rec)
<1>1. Rec \in Record
  BY Midst
<1>2. s.status \in Final /\ s.recovery = Rec.recovery
  BY <1>1, EndSteps DEF Final
<1>3. outbox'[Cmd] = s /\ Finish("unknown")
  BY Stores DEF Unknown
<1>4. "unknown" \in Answers \ {"retryable"}
  BY DEF Answers
<1> HIDE DEF s
<1> QED
  BY <1>2, <1>3, <1>4, FinalProgress

LEMMA FailedProgress ==
    ASSUME IInv, AInv, ~At("idle"), UNCHANGED <<asked, chat>>,
           NEW code \in Codes, TerminalFailed(code), agent'[exec.turn] \in {"away", "refused"}
    PROVE  Progress
<1> DEFINE err == [code |-> code, retryable |-> FALSE]
           s == MarkFailed(Rec, err)
<1>1. Rec \in Record /\ err \in Errors /\ CanMarkFailed(Rec, err)
  BY Midst DEF Errors, TerminalFailed, Store
<1>2. s.status = "failed" /\ s.recovery \in {None, Rec.recovery}
  BY <1>1, FailSteps
<1>3. outbox'[Cmd] = s /\ Finish("failed")
  BY Stores DEF TerminalFailed
<1>4. "failed" \in Answers \ {"retryable"} /\ s.status \in Final
  BY <1>2 DEF Answers, Final
<1> HIDE DEF s
<1> QED
  BY <1>2, <1>3, <1>4, FinalProgress

LEMMA DecideProgress ==
    ASSUME IInv, AInv, Decide
    PROVE  Progress
<1>0. /\ exec.pc = "cas" /\ ~At("idle") /\ UNCHANGED <<asked, chat, agent>>
      /\ status[Ask.perm] = "pending"
  BY DEF Decide, At, world, Resolves
<1>1. agent[exec.turn] = "away"
  BY <1>0, AgentAway
<1>2. /\ exec \in ExecType /\ Rec \in Record /\ outbox[Cmd] = Rec /\ Cmd \in Commands
      /\ Rec.status = "intent_durable" /\ ~Rec.barrier
      /\ exec.held # None => Rec.recovery # None
  BY <1>0, Midst DEF IInv, ExecShape, At
<1>3. CASE Goto("barrier", exec.held) /\ UNCHANGED outbox
  <2>1. exec'.pc = "barrier" /\ exec'.turn = exec.turn
    BY <1>2, <1>3, Goes
  <2>2. Cmd' = Cmd /\ outbox'[Cmd] = Rec
    BY <1>2, <1>3, <2>1 DEF Cmd
  <2>3. Tidy(Cmd)'
    BY <1>0, <1>2, <2>1, <2>2, Tidies
  <2> QED
    BY <1>0, <1>1, <1>2, <2>1, <2>2, <2>3 DEF Progress
<1>4. CASE exec.held # None /\ Finish("retryable") /\ UNCHANGED outbox
  <2>1. exec'.pc = "publish" /\ exec'.answer = "retryable" /\ exec'.turn = exec.turn
    BY <1>2, <1>4, Finishes
  <2>2. Cmd' = Cmd /\ outbox'[Cmd] = Rec
    BY <1>2, <1>4, <2>1 DEF Cmd
  <2>3. Tidy(Cmd)'
    BY <1>0, <1>2, <1>4, <2>1, <2>2, Tidies
  <2>4. chat = "alive" => Cmd \notin fallbacks
    BY <1>0, <1>4, NotForsaken
  <2>5. chat = "alive" => Again(Cmd)'
    <3>1. UNCHANGED fallbacks
      BY DEF Decide, broker
    <3> QED
      BY <1>2, <1>4, <2>2, <2>4, <3>1 DEF Again
  <2> QED
    BY <1>0, <1>1, <1>2, <2>1, <2>2, <2>3, <2>5 DEF Progress, True, Answers, Present
<1>5. CASE Unknown
  BY <1>0, <1>5, UnknownProgress
<1> QED
  BY <1>3, <1>4, <1>5 DEF Decide

LEMMA DecidedProgress ==
    ASSUME IInv, AInv, DecidedBefore
    PROVE  Progress
<1>0. /\ exec.pc = "cas" /\ ~At("idle") /\ UNCHANGED <<asked, chat, agent, status, pending, claim>>
      /\ status[Ask.perm] # "pending"
  BY DEF DecidedBefore, At, world, docs, table, Resolves
<1>1. agent[exec.turn] = "away"
  BY <1>0, AgentAway
<1>2. /\ exec \in ExecType /\ Rec \in Record /\ outbox[Cmd] = Rec /\ Cmd \in Commands
      /\ P(Cmd) = Ask.perm /\ asked[Cmd].decision = Ask.decision
      /\ Rec.status = "intent_durable" /\ ~Rec.barrier
      /\ exec.held = None => Barred(Ask.perm, Cmd)
      /\ status[Ask.perm] # "none"
  BY <1>0, Midst, Here DEF IInv, ExecShape, At, Barred
<1>3. CASE Goto("barrier", exec.held) /\ UNCHANGED outbox
  <2>1. exec'.pc = "barrier" /\ exec'.turn = exec.turn
    BY <1>2, <1>3, Goes
  <2>2. Cmd' = Cmd /\ outbox'[Cmd] = Rec
    BY <1>2, <1>3, <2>1 DEF Cmd
  <2>3. Tidy(Cmd)'
    BY <1>0, <1>2, <2>1, <2>2, Tidies
  <2> QED
    BY <1>0, <1>1, <1>2, <2>1, <2>2, <2>3 DEF Progress
<1>4. CASE /\ ~(status[Ask.perm] = Ask.decision /\ exec.held # None)
           /\ Store(CanClearForRetry(Rec), Absent) /\ Finish("duplicate")
  <2>1. exec'.pc = "publish" /\ exec'.answer = "duplicate" /\ exec'.turn = exec.turn
    BY <1>2, <1>4, Finishes
  <2>2. Cmd' = Cmd /\ outbox'[Cmd] = Absent
    BY <1>0, <1>4, <2>1, Stores DEF Cmd
  <2>3. Absent.status = "absent" /\ Absent.recovery = None
    BY DEF Absent
  <2>4. Tidy(Cmd)'
    BY <1>0, <2>1, <2>2, <2>3, Tidies
  <2>5. Shut(Cmd)'
    <3>1. P(Cmd)' = Ask.perm /\ asked'[Cmd'].decision = Ask.decision
      BY <1>0, <1>2, <2>2 DEF P
    <3>2. CASE status[Ask.perm] # Ask.decision
      BY <1>0, <1>2, <2>2, <3>1, <3>2 DEF Shut
    <3>3. CASE exec.held = None
      BY <1>0, <1>2, <2>2, <2>3, <3>1, <3>3 DEF Shut, Barred
    <3> QED
      BY <1>4, <3>2, <3>3
  <2> QED
    BY <1>0, <1>1, <1>2, <2>1, <2>2, <2>3, <2>4, <2>5 DEF Progress, True, Answers, Final
<1> QED
  BY <1>3, <1>4 DEF DecidedBefore, ClearForRetry

LEMMA ClosedProgress ==
    ASSUME IInv, AInv, DecideOnClosed
    PROVE  Progress
<1>0. /\ exec.pc = "cas" /\ ~At("idle") /\ UNCHANGED <<asked, outbox, chat, agent>>
      /\ chat = "closed" /\ Finish("failed")
  BY DEF DecideOnClosed, At, world
<1>1. agent[exec.turn] = "away"
  BY <1>0, AgentAway
<1>2. /\ exec \in ExecType /\ outbox[Cmd] = Rec
      /\ Rec.status = "intent_durable" /\ ~Rec.barrier
  BY <1>0, Midst DEF IInv, ExecShape, At
<1>3. exec'.pc = "publish" /\ exec'.answer = "failed" /\ exec'.turn = exec.turn
  BY <1>0, <1>2, Finishes
<1>4. Cmd' = Cmd /\ outbox'[Cmd] = Rec
  BY <1>0, <1>2, <1>3 DEF Cmd
<1>5. Tidy(Cmd)'
  BY <1>0, <1>2, <1>3, <1>4, Tidies
<1> QED
  BY <1>0, <1>1, <1>2, <1>3, <1>4, <1>5 DEF Progress, True, Answers

LEMMA BarrierProgress ==
    ASSUME IInv, AInv, Barrier
    PROVE  Progress
<1> DEFINE s == RaiseBarrier(Rec)
<1>0. exec.pc = "barrier" /\ ~At("idle") /\ UNCHANGED <<asked, chat, agent>>
  BY DEF Barrier, At, world
<1>1. agent[exec.turn] = "away"
  BY <1>0, AgentAway
<1>2. exec \in ExecType /\ Rec \in Record /\ Rec.status = "intent_durable"
  BY <1>0, Midst DEF IInv, ExecShape
<1>3. exec'.pc = "forward" /\ exec'.turn = exec.turn
  BY <1>2, Goes DEF Barrier
<1>4. Cmd' = Cmd /\ outbox'[Cmd] = s
  BY <1>0, <1>3, Stores DEF Barrier, Cmd
<1>5. s.status = Rec.status /\ s.recovery = Rec.recovery
  BY <1>2, ForwardSteps
<1> HIDE DEF s
<1>6. Tidy(Cmd)'
  BY <1>0, <1>2, <1>3, <1>4, <1>5, Tidies
<1> QED
  BY <1>0, <1>1, <1>2, <1>3, <1>4, <1>5, <1>6 DEF Progress, Present

LEMMA AckedProgress ==
    ASSUME IInv, AInv, ForwardAcked
    PROVE  Progress
<1>0. exec.pc = "forward" /\ ~At("idle") /\ UNCHANGED <<asked, chat>>
  BY DEF ForwardAcked, At
<1>1. /\ exec \in ExecType /\ Rec \in Record /\ outbox[Cmd] = Rec /\ exec.turn \in Attempts
      /\ Rec.status = "intent_durable" /\ (exec.held # None => Rec.recovery # None)
  BY <1>0, Midst DEF IInv, ExecShape
<1>2. agent'[exec.turn] = "taken"
  BY <1>1 DEF ForwardAcked, IInv, Types
<1>3. CASE exec.held # None /\ Goto("finish", exec.held) /\ UNCHANGED outbox
  <2>1. exec'.pc = "finish" /\ exec'.turn = exec.turn
    BY <1>1, <1>3, Goes
  <2>2. Cmd' = Cmd /\ outbox'[Cmd] = Rec
    BY <1>1, <1>3, <2>1 DEF Cmd
  <2>3. Tidy(Cmd)'
    BY <1>0, <1>1, <2>1, <2>2, Tidies
  <2> QED
    BY <1>0, <1>1, <1>2, <2>1, <2>2, <2>3 DEF Progress
<1>4. CASE /\ Store(CanMarkDispatched(Rec), MarkDispatched(Rec))
           /\ Goto("confirm", None)
  <2> DEFINE s == MarkDispatched(Rec)
  <2>1. exec'.pc = "confirm" /\ exec'.turn = exec.turn
    BY <1>1, <1>4, Goes
  <2>2. Cmd' = Cmd /\ outbox'[Cmd] = s
    BY <1>0, <1>4, <2>1, Stores DEF Cmd
  <2>3. s.status = "dispatched" /\ s.recovery = Rec.recovery
    BY <1>1, ForwardSteps
  <2>4. Rec.status \notin Final
    BY <1>1 DEF Final
  <2> HIDE DEF s
  <2>5. Tidy(Cmd)'
    BY <1>0, <2>1, <2>2, <2>3, Tidies
  <2> QED
    BY <1>0, <1>2, <2>1, <2>2, <2>3, <2>4, <2>5 DEF Progress, Present
<1> QED
  BY <1>3, <1>4 DEF ForwardAcked

LEMMA NotDeliveredProgress ==
    ASSUME IInv, AInv, ForwardNotDelivered
    PROVE  Progress
<1>0. exec.pc = "forward" /\ ~At("idle") /\ UNCHANGED <<asked, chat, agent, fallbacks>>
  BY DEF ForwardNotDelivered, At, world, broker
<1>1. /\ exec \in ExecType /\ Rec \in Record /\ Rec.status = "intent_durable"
      /\ exec.held # None => Rec.recovery # None
      /\ status[Ask.perm] = Ask.decision
  BY <1>0, Midst DEF IInv, ExecShape, Sending
<1>2. agent[exec.turn] = "away"
  BY <1>0, AgentAway
<1>3. PICK code \in Codes :
          IF exec.held = None THEN TerminalFailed(code)
          ELSE /\ Store(CanMarkRecoveryNotDelivered(Rec), LowerBarrier(Rec, FromErrorCode(code)))
               /\ Finish("retryable")
  BY DEF ForwardNotDelivered, Codes
<1>4. CASE exec.held = None
  BY <1>0, <1>2, <1>3, <1>4, FailedProgress
<1>5. CASE exec.held # None
  <2> DEFINE s == LowerBarrier(Rec, FromErrorCode(code))
  <2>1. exec'.pc = "publish" /\ exec'.answer = "retryable" /\ exec'.turn = exec.turn
    BY <1>1, <1>3, <1>5, Finishes
  <2>2. Cmd' = Cmd /\ outbox'[Cmd] = s
    BY <1>0, <1>3, <1>5, <2>1, Stores DEF Cmd
  <2>3. s.status = Rec.status /\ s.recovery = Rec.recovery
    BY <1>1, EndSteps
  <2>4. s.barrier = FALSE
    BY <1>1, Barriers
  <2> HIDE DEF s
  <2>5. Tidy(Cmd)'
    BY <1>0, <1>1, <1>5, <2>1, <2>2, <2>3, <2>4, Tidies
  <2>6. chat = "alive" => Cmd \notin fallbacks
    BY <1>0, <1>1, <1>5, NotForsaken
  <2>7. chat = "alive" => Again(Cmd)'
    BY <1>0, <1>1, <1>5, <2>2, <2>3, <2>4, <2>6 DEF Again
  <2> QED
    BY <1>0, <1>1, <1>2, <2>1, <2>2, <2>3, <2>5, <2>7 DEF Progress, True, Answers, Present
<1> QED
  BY <1>4, <1>5

LEMMA FinishProgress ==
    ASSUME IInv, AInv, FinishOfficial
    PROVE  Progress
<1> DEFINE s == MarkCompleted(MarkProjectionCommitted(ClearRecovery(
                    MarkDeliveryConfirmed(MarkDispatched(Rec)))))
<1>0. exec.pc = "finish" /\ ~At("idle") /\ UNCHANGED <<asked, chat, agent>>
  BY DEF FinishOfficial, At, world
<1>1. s.status \in Final /\ s.recovery = None
  BY <1>0, Midst, EndSteps DEF Final
<1>2. outbox'[Cmd] = s /\ Finish("committed")
  BY <1>0, Stores DEF FinishOfficial
<1>3. agent'[exec.turn] = "taken" /\ "committed" \in Answers \ {"retryable"}
  BY <1>0 DEF AInv, Truthful, Answers
<1> HIDE DEF s
<1> QED
  BY <1>0, <1>1, <1>2, <1>3, FinalProgress

LEMMA ConfirmProgress ==
    ASSUME IInv, AInv, ConfirmLegacy
    PROVE  Progress
<1>0. exec.pc = "confirm" /\ ~At("idle") /\ UNCHANGED <<asked, chat>>
  BY DEF ConfirmLegacy, At
<1>1. Rec \in Record /\ exec.turn \in Attempts /\ agent[exec.turn] = "taken"
  BY <1>0, Midst DEF AInv, Truthful
<1>2. CASE Unknown
  BY <1>0, <1>2, UnknownProgress
<1>3. CASE TerminalFailed("AGENT_UNAVAILABLE") /\ agent' = [agent EXCEPT ![exec.turn] = "refused"]
  <2>1. agent'[exec.turn] = "refused" /\ "AGENT_UNAVAILABLE" \in Codes
    BY <1>1, <1>3 DEF IInv, Types, Codes
  <2> QED
    BY <1>0, <1>3, <2>1, FailedProgress
<1>4. ASSUME Store(CanMarkDeliveryConfirmed(Rec),
                   MarkCompleted(MarkProjectionCommitted(MarkDeliveryConfirmed(Rec)))),
             Finish("committed"), UNCHANGED agent
      PROVE  Progress
  <2> DEFINE s == MarkCompleted(MarkProjectionCommitted(MarkDeliveryConfirmed(Rec)))
  <2>1. s.status \in Final /\ s.recovery = Rec.recovery
    BY <1>1, EndSteps DEF Final
  <2>2. outbox'[Cmd] = s
    BY <1>0, <1>4, Stores
  <2>3. "committed" \in Answers \ {"retryable"}
    BY DEF Answers
  <2> HIDE DEF s
  <2> QED
    BY <1>0, <1>1, <1>4, <2>1, <2>2, <2>3, FinalProgress
<1> QED
  BY <1>2, <1>3, <1>4 DEF ConfirmLegacy

LEMMA MiddleProgress == ASSUME IInv, AInv, Middle PROVE Progress
<1>1. CASE LegacyUnbound \/ ForwardUnknown
  <2>1. ~At("idle") /\ UNCHANGED <<asked, chat>> /\ Unknown
    BY <1>1 DEF LegacyUnbound, ForwardUnknown, At, world
  <2> QED
    BY <2>1, UnknownProgress
<1> QED
  BY <1>1, OptionProgress, ClaimProgress, DecideProgress, DecidedProgress, ClosedProgress,
     BarrierProgress, AckedProgress, NotDeliveredProgress, FinishProgress, ConfirmProgress
     DEF Middle

LEMMA MiddleFrame ==
    ASSUME IInv, AInv, Middle
    PROVE  /\ ~At("idle") /\ exec.pc # "publish"
           /\ UNCHANGED <<asked, tries, queue, observers, fallbacks, overflow, reg, chat, link,
                          drops, disc, verdict>>
           /\ \A t \in Attempts : t # exec.turn => agent'[t] = agent[t]
           /\ \A c \in Commands : c # Cmd => outbox'[c] = outbox[c]
           /\ faults' \in 0..MaxFaults
           /\ Ages
<1> USE DEF Middle, world, docs, table, broker
<1>1. ~At("idle") /\ exec.pc # "publish"
  BY DEF CheckOption, Claim, Decide, DecidedBefore, DecideOnClosed, Barrier, LegacyUnbound,
         ForwardAcked, ForwardNotDelivered, ForwardUnknown, FinishOfficial, ConfirmLegacy, At
<1>2. UNCHANGED <<asked, tries, queue, observers, fallbacks, overflow, reg, chat, link, drops,
                  disc, verdict>>
  BY DEF CheckOption, Claim, Decide, DecidedBefore, DecideOnClosed, Barrier, LegacyUnbound,
         ForwardAcked, ForwardNotDelivered, ForwardUnknown, FinishOfficial, ConfirmLegacy
<1>3. UNCHANGED agent \/ \E w : agent' = [agent EXCEPT ![exec.turn] = w]
  BY DEF CheckOption, Claim, Decide, DecidedBefore, DecideOnClosed, Barrier, LegacyUnbound,
         ForwardAcked, ForwardNotDelivered, ForwardUnknown, FinishOfficial, ConfirmLegacy
<1>4. UNCHANGED outbox \/ \E s : outbox' = [outbox EXCEPT ![Cmd] = s]
  BY DEF CheckOption, Claim, Decide, DecidedBefore, DecideOnClosed, Barrier, LegacyUnbound,
         ForwardAcked, ForwardNotDelivered, ForwardUnknown, FinishOfficial, ConfirmLegacy,
         Store, Degraded, TerminalFailed, Unknown
<1>5. faults' = faults \/ (faults < MaxFaults /\ faults' = faults + 1)
  BY DEF CheckOption, Claim, Decide, DecidedBefore, DecideOnClosed, Barrier, LegacyUnbound,
         ForwardAcked, ForwardNotDelivered, ForwardUnknown, FinishOfficial, ConfirmLegacy
<1>6. UNCHANGED status \/ (status[Ask.perm] = "pending"
                           /\ status' = [status EXCEPT ![Ask.perm] = Ask.decision])
  BY DEF CheckOption, Claim, Decide, DecidedBefore, DecideOnClosed, Barrier, LegacyUnbound,
         ForwardAcked, ForwardNotDelivered, ForwardUnknown, FinishOfficial, ConfirmLegacy,
         Resolves
<1>7. UNCHANGED claim \/ (Claimable(Ask.perm, Cmd) /\ claim' = [claim EXCEPT ![Ask.perm] = Cmd])
  BY DEF CheckOption, Claim, Decide, DecidedBefore, DecideOnClosed, Barrier, LegacyUnbound,
         ForwardAcked, ForwardNotDelivered, ForwardUnknown, FinishOfficial, ConfirmLegacy
<1>8. pending' \subseteq pending
  BY DEF CheckOption, Claim, Decide, DecidedBefore, DecideOnClosed, Barrier, LegacyUnbound,
         ForwardAcked, ForwardNotDelivered, ForwardUnknown, FinishOfficial, ConfirmLegacy
<1>9. /\ agent \in [Attempts -> Reaches] /\ outbox \in [Commands -> Record]
      /\ status \in [Permissions -> Decisions \cup {"none", "pending", "expired"}]
      /\ claim \in [Permissions -> Commands \cup {None}]
      /\ Ask.decision \in Decisions
  BY <1>1, Here DEF Types
<1>10. \A t \in Attempts : t # exec.turn => agent'[t] = agent[t]
  BY <1>3, <1>9
<1>11. \A c \in Commands : c # Cmd => outbox'[c] = outbox[c]
  BY <1>4, <1>9
<1>12. faults' \in 0..MaxFaults
  <2>1. faults \in 0..MaxFaults /\ MaxFaults \in Nat
    BY PermissionAssumption DEF AInv, Tables, PermissionAssumption
  <2> QED
    BY <1>5, <2>1
<1>13. \A p \in Permissions : status[p] # "none" =>
          status'[p] # "none" /\ (status[p] # "pending" => status'[p] = status[p])
  BY <1>6, <1>9 DEF Decisions
<1>14. \A p \in Permissions, c \in Commands : Barred(p, c) => Barred(p, c)'
  BY <1>7, <1>8, <1>9 DEF Barred, Claimable
<1> QED
  BY <1>1, <1>2, <1>10, <1>11, <1>12, <1>13, <1>14 DEF Ages

\* What shuts a command out stays, as long as its record is only given up or over.
LEMMA ShutStays ==
    ASSUME Types, NEW c \in Commands, Shut(c), UNCHANGED asked, Ages, status[P(c)] # "none",
           outbox[c].status \in Final => outbox'[c].status \in Final,
           outbox[c].recovery = None /\ Barred(P(c), c) => outbox'[c].recovery = None
    PROVE  Shut(c)'
<1>1. P(c)' = P(c) /\ P(c) \in Permissions /\ asked'[c].decision = asked[c].decision
  BY Typed DEF P
<1>2. \A p \in Permissions : p = P(c) => (Barred(p, c) => Barred(p, c)')
  BY <1>1 DEF Ages
<1>3. Barred(P(c), c) => Barred(P(c), c)'
  BY <1>1, <1>2 DEF Barred
<1>4. CASE outbox[c].status \in Final
  BY <1>4 DEF Shut
<1>5. CASE status[P(c)] \notin {"none", "pending", asked[c].decision}
  BY <1>1, <1>5 DEF Shut, Ages
<1>6. CASE outbox[c].recovery = None /\ Barred(P(c), c)
  BY <1>3, <1>6 DEF Shut, Barred
<1> QED
  BY <1>4, <1>5, <1>6 DEF Shut

\* A step in the middle of an execution leaves the others' attempts and records alone.
LEMMA MiddleStep ==
    ASSUME IInv, AInv, Middle
    PROVE  AInv'
<1>1. /\ ~At("idle") /\ exec.pc # "publish"
      /\ UNCHANGED <<asked, tries, queue, observers, fallbacks, overflow, reg, chat, link,
                     drops, disc, verdict>>
      /\ \A t \in Attempts : t # exec.turn => agent'[t] = agent[t]
      /\ \A c \in Commands : c # Cmd => outbox'[c] = outbox[c]
      /\ faults' \in 0..MaxFaults
      /\ Ages
  BY MiddleFrame
<1>2. Progress
  BY MiddleProgress
<1>3. /\ Types /\ exec.turn \in Attempts /\ Cmd \in Commands /\ Cmd' = Cmd
      /\ Cmd = exec.turn[1] /\ P(Cmd) = Ask.perm /\ outbox[Cmd] = Rec
      /\ exec'.pc \notin {"idle", "option"} /\ exec'.turn = exec.turn
  BY <1>1, <1>2, Here DEF Progress, Cmd
<1>4. Tables'
  BY <1>1 DEF AInv, Tables
<1>5. InOrder'
  <2>1. ASSUME NEW t \in Attempts, Begun(t)'
        PROVE  /\ t[2] <= tries[t[1]]
               /\ \A i \in DOMAIN queue : queue[i].turn[1] = t[1] => t[2] < queue[i].turn[2]
               /\ Cmd = t[1] => t[2] <= exec.turn[2]
    <3>1. CASE t = exec.turn
      <4>1. exec.turn[2] \in 1..MaxTries
        BY <1>3, Typed
      <4> QED
        BY <1>1, <1>3, <3>1, <4>1 DEF AInv, InOrder
    <3>2. CASE t # exec.turn
      <4>1. Begun(t)
        BY <1>1, <2>1, <3>2 DEF Begun
      <4> QED
        BY <1>1, <4>1 DEF AInv, InOrder
    <3> QED
      BY <3>1, <3>2
  <2>2. /\ \A i \in DOMAIN queue : queue[i].turn[2] <= tries[queue[i].turn[1]]
        /\ \A i, j \in DOMAIN queue :
              i < j /\ queue[i].turn[1] = queue[j].turn[1] => queue[i].turn[2] < queue[j].turn[2]
        /\ exec.turn[2] <= tries[Cmd] /\ verdict[exec.turn] = None
        /\ \A i \in DOMAIN queue : queue[i].turn[1] = Cmd => exec.turn[2] < queue[i].turn[2]
    BY <1>1 DEF AInv, InOrder
  <2> QED
    BY <1>1, <1>3, <2>1, <2>2 DEF InOrder
<1>6. Truthful'
  <2>1. ASSUME NEW t \in Attempts PROVE True(t, verdict[t])'
    <3>1. CASE t = exec.turn
      <4>1. verdict[t] = None /\ None \notin Answers
        BY <1>1, <3>1, PermissionAssumption DEF AInv, InOrder, PermissionAssumption
      <4> QED
        BY <1>1, <4>1 DEF True, Answers
    <3>2. CASE t # exec.turn
      BY <1>1, <3>2 DEF AInv, Truthful, True
    <3> QED
      BY <3>1, <3>2
  <2> QED
    BY <1>2, <1>3, <2>1 DEF Progress, Truthful, At
<1>7. Settled'
  <2>1. ASSUME NEW c \in Commands PROVE Tidy(c)'
    <3>1. CASE c = Cmd
      BY <1>2, <1>3, <3>1 DEF Progress, Tidy, Working
    <3>2. CASE c # Cmd
      <4>1. Tidy(c)
        BY DEF AInv, Settled
      <4> QED
        BY <1>1, <1>3, <3>2, <4>1 DEF Tidy, Working
    <3> QED
      BY <3>1, <3>2
  <2> QED
    BY <2>1 DEF Settled
<1>8. Forsaken'
  <2> SUFFICES ASSUME chat = "alive" PROVE Forsaken'
    BY <1>1 DEF Forsaken
  <2>1. ASSUME NEW c \in Commands, Shut(c), status[P(c)] # "none" PROVE Shut(c)'
    <3>1. /\ outbox[c].status \in Final => outbox'[c].status \in Final
          /\ outbox[c].recovery = None /\ Barred(P(c), c) => outbox'[c].recovery = None
      <4>1. CASE c = Cmd
        BY <1>2, <1>3, <4>1 DEF Progress
      <4>2. CASE c # Cmd
        BY <1>1, <4>2
      <4> QED
        BY <4>1, <4>2
    <3> QED
      BY <1>1, <1>3, <2>1, <3>1, ShutStays
  <2>2. \A c \in Commands : P(c)' = P(c) /\ P(c) \in Permissions
    BY <1>1, <1>3, Typed DEF P
  <2>3. \A c \in fallbacks : c \in Commands /\ Shut(c)' /\ status'[P(c)] # "none"
    <3>1. \A c \in fallbacks : c \in Commands /\ Shut(c) /\ status[P(c)] # "none"
      BY DEF AInv, Tables, Forsaken
    <3> QED
      BY <1>1, <2>1, <2>2, <3>1 DEF Ages
  <2>4. exec'.pc = "publish" /\ exec'.answer = "unknown" => Shut(Cmd)'
    BY <1>2 DEF Progress
  <2>5. ASSUME NEW i \in DOMAIN queue, NEW c \in Commands, c = queue[i].turn[1],
               ~Present(outbox'[c])
        PROVE  Shut(c)'
    <3>1. status[P(c)] # "none" /\ (~Present(outbox[c]) => Shut(c))
      BY <2>5 DEF IInv, Shown, AInv, Forsaken
    <3>2. CASE ~Present(outbox[c])
      BY <2>1, <3>1, <3>2
    <3>3. CASE Present(outbox[c])
      <4>1. c = Cmd
        BY <1>1, <2>5, <3>3
      <4> QED
        BY <1>2, <1>3, <2>5, <3>3, <4>1 DEF Progress
    <3> QED
      BY <3>2, <3>3
  <2>6. \A i \in DOMAIN queue : queue[i].turn[1] \in Commands
    BY <1>3, Queued
  <2> QED
    BY <1>1, <1>3, <2>2, <2>3, <2>4, <2>5, <2>6 DEF Forsaken, At
<1>9. Retried'
  <2> SUFFICES ASSUME chat = "alive" PROVE Retried'
    BY <1>1 DEF Retried
  <2>1. ASSUME NEW c \in Commands, tries[c] > 0, verdict[<<c, tries[c]>>] = "retryable"
        PROVE  Again(c)'
    <3>1. Again(c)
      BY <2>1 DEF AInv, Retried
    <3>2. c # Cmd
      <4> SUFFICES ASSUME c = Cmd PROVE FALSE
        OBVIOUS
      <4>1. tries[c] \in 1..MaxTries /\ <<c, tries[c]>> \in Attempts
        BY <1>3, <2>1 DEF Types, Attempts
      <4>2. "retryable" # None
        BY PermissionAssumption DEF PermissionAssumption, Answers
      <4>3. Begun(<<c, tries[c]>>)
        BY <2>1, <4>2 DEF Begun
      <4>4. tries[c] <= exec.turn[2] /\ exec.turn[2] <= tries[c]
        <5>1. <<c, tries[c]>>[2] <= exec.turn[2]
          BY <1>1, <4>1, <4>3 DEF AInv, InOrder
        <5>2. exec.turn[2] <= tries[Cmd]
          BY <1>1 DEF AInv, InOrder
        <5> QED
          BY <5>1, <5>2
      <4>5. exec.turn[2] \in 1..MaxTries /\ exec.turn = <<exec.turn[1], exec.turn[2]>>
        BY <1>3, Typed
      <4>6. tries[c] = exec.turn[2]
        BY <4>1, <4>4, <4>5
      <4>7. <<c, tries[c]>> = exec.turn
        BY <1>3, <4>5, <4>6
      <4> QED
        BY <1>1, <2>1, <4>2, <4>7 DEF AInv, InOrder
    <3> QED
      BY <1>1, <3>1, <3>2 DEF Again
  <2>2. exec'.pc = "publish" /\ exec'.answer = "retryable" => Again(Cmd)'
    BY <1>2 DEF Progress
  <2> QED
    BY <1>1, <1>3, <2>1, <2>2 DEF Retried, At
<1> QED
  BY <1>4, <1>5, <1>6, <1>7, <1>8, <1>9 DEF AInv

-----------------------------------------------------------------------------
(* The steps around an execution.                                          *)
LEMMA StartAnswers ==
    ASSUME IInv, AInv, StartNext
    PROVE  AInv'
<1>0. /\ Types /\ exec.pc = "idle" /\ queue # <<>> /\ queue' = Tail(queue)
      /\ UNCHANGED <<asked, outbox, tries, broker, table, docs, reg, world, verdict>>
  BY DEF IInv, StartNext, Idle
<1>1. /\ 1 \in DOMAIN queue /\ Head(queue) = queue[1]
      /\ \A i \in DOMAIN queue' : i + 1 \in DOMAIN queue /\ queue'[i] = queue[i + 1]
  <2>1. queue \in Seq(Entry)
    BY <1>0 DEF Types, Entry
  <2> QED
    BY <1>0, <2>1
<1>2. /\ exec'.pc = "option" /\ exec'.turn = queue[1].turn /\ Cmd' = queue[1].turn[1]
      /\ queue[1].turn \in Attempts /\ queue[1].turn[1] \in Commands
      /\ queue[1].turn[2] \in 1..MaxTries
  <2>1. exec'.pc = "option" /\ exec'.turn = queue[1].turn
    BY <1>1 DEF StartNext, Idle
  <2>2. queue[1].turn \in Attempts
    BY <1>0, <1>1, Queued
  <2> QED
    BY <1>0, <2>1, <2>2, Typed DEF Cmd
<1>3. Tables'
  BY <1>0 DEF AInv, Tables, broker, docs, world
<1>4. ~Begun(queue[1].turn)
  <2> SUFFICES ASSUME Begun(queue[1].turn) PROVE FALSE
    OBVIOUS
  <2>1. queue[1].turn[2] < queue[1].turn[2]
    BY <1>1, <1>2 DEF AInv, InOrder
  <2> QED
    BY <1>2, <2>1
<1>5. InOrder'
  <2>1. \A t \in Attempts : Begun(t)' => Begun(t)
    BY <1>0 DEF Begun, world
  <2>2. \A i \in DOMAIN queue' : queue'[i].turn[2] <= tries[queue'[i].turn[1]]
    BY <1>1 DEF AInv, InOrder
  <2>3. \A i, j \in DOMAIN queue' :
            i < j /\ queue'[i].turn[1] = queue'[j].turn[1] => queue'[i].turn[2] < queue'[j].turn[2]
    <3>1. ASSUME NEW i \in DOMAIN queue', NEW j \in DOMAIN queue', i < j
          PROVE  i + 1 < j + 1
      <4>1. DOMAIN queue' \subseteq Nat
        <5>1. queue \in Seq(Entry)
          BY <1>0 DEF Types, Entry
        <5> QED
          BY <1>0, <5>1
      <4> QED
        BY <3>1, <4>1
    <3> QED
      BY <1>1, <3>1 DEF AInv, InOrder
  <2>4. /\ exec'.turn[2] <= tries[Cmd'] /\ verdict[exec'.turn] = None
        /\ \A i \in DOMAIN queue' : queue'[i].turn[1] = Cmd' => exec'.turn[2] < queue'[i].turn[2]
    <3>1. exec'.turn[2] <= tries[Cmd'] /\ verdict[exec'.turn] = None
      BY <1>1, <1>2, <1>4 DEF AInv, InOrder, Begun
    <3>2. \A i \in DOMAIN queue' : 1 < i + 1
      <4>1. queue \in Seq(Entry)
        BY <1>0 DEF Types, Entry
      <4>2. DOMAIN queue' \subseteq Nat \ {0}
        BY <1>0, <4>1
      <4> QED
        BY <4>2
    <3> QED
      BY <1>1, <1>2, <3>1, <3>2 DEF AInv, InOrder
  <2>5. \A t \in Attempts : Begun(t)' =>
            /\ t[2] <= tries[t[1]]
            /\ \A i \in DOMAIN queue' : queue'[i].turn[1] = t[1] => t[2] < queue'[i].turn[2]
            /\ Cmd' = t[1] => t[2] <= exec'.turn[2]
    <3>1. ASSUME NEW t \in Attempts, Begun(t)
          PROVE  /\ t[2] <= tries[t[1]]
                 /\ \A i \in DOMAIN queue : queue[i].turn[1] = t[1] => t[2] < queue[i].turn[2]
      BY <3>1 DEF AInv, InOrder
    <3>2. \A t \in Attempts : t[2] \in 1..MaxTries
      BY <1>0, Typed
    <3> QED
      BY <1>1, <1>2, <2>1, <3>1, <3>2
  <2> QED
    BY <1>0, <2>2, <2>3, <2>4, <2>5 DEF InOrder
<1>6. Truthful'
  <2>1. agent[exec'.turn] = "away"
    BY <1>2, <1>4 DEF Begun
  <2> QED
    BY <1>0, <1>2, <2>1 DEF AInv, Truthful, True, At, world
<1>7. Settled'
  BY <1>0, <1>2 DEF AInv, Settled, Tidy, Working, world
<1>8. Forsaken'
  <2>1. UNCHANGED <<asked, outbox, fallbacks, status, pending, claim, chat>>
    BY <1>0 DEF broker, table, docs, world
  <2>2. \A c \in Commands : Shut(c) => Shut(c)'
    BY <2>1 DEF Shut, Barred, P
  <2>3. \A i \in DOMAIN queue : queue[i].turn[1] \in Commands
    BY <1>0, Queued
  <2>4. fallbacks \subseteq Commands
    BY DEF AInv, Tables
  <2> SUFFICES ASSUME chat = "alive" PROVE Forsaken'
    BY <2>1 DEF Forsaken
  <2>5. \A c \in fallbacks : Shut(c)' /\ status'[P(c)'] # "none"
    BY <2>1, <2>2, <2>4 DEF AInv, Forsaken, P
  <2>6. ~Present(Rec)' => Shut(Cmd)'
    <3>1. ~Present(outbox[queue[1].turn[1]]) => Shut(queue[1].turn[1])
      BY <1>1 DEF AInv, Forsaken
    <3>2. \A c \in Commands : c = queue[1].turn[1] => (~Present(outbox'[c]) => Shut(c)')
      BY <2>1, <2>2, <3>1
    <3>3. \A c \in Commands : c = Cmd' => (Shut(c)' => Shut(Cmd)')
      BY DEF Shut, P, Barred
    <3> QED
      BY <1>2, <3>2, <3>3 DEF Rec
  <2>7. \A i \in DOMAIN queue', c \in Commands :
            c = queue'[i].turn[1] => (~Present(outbox'[c]) => Shut(c)')
    BY <1>1, <2>1, <2>2 DEF AInv, Forsaken
  <2>8. \A i \in DOMAIN queue' : queue'[i].turn[1] \in Commands
    BY <1>1, <2>3
  <2>9. ASSUME NEW i \in DOMAIN queue', ~Present(outbox'[queue'[i].turn[1]])
        PROVE  Shut(queue[i].turn[1])'
    <3>1. PICK c \in Commands : c = queue'[i].turn[1]
      BY <2>8
    <3>2. Shut(c)'
      BY <2>7, <2>9, <3>1
    <3> QED
      BY <3>1, <3>2 DEF Shut, P, Barred
  <2> QED
    BY <1>2, <2>1, <2>5, <2>6, <2>9 DEF Forsaken, At
<1>9. Retried'
  BY <1>0, <1>2 DEF AInv, Retried, Again, At, world, broker
<1> QED
  BY <1>3, <1>5, <1>6, <1>7, <1>8, <1>9 DEF AInv

LEMMA PublishAnswers ==
    ASSUME IInv, AInv, Publish \/ SendDuplicate
    PROVE  AInv'
<1>0. /\ exec.pc = "publish" /\ ~At("idle")
      /\ verdict' = [verdict EXCEPT ![exec.turn] = exec.answer] /\ exec'.pc = "idle"
      /\ UNCHANGED <<asked, outbox, tries, queue, table, docs, reg, world>>
  BY DEF Publish, SendDuplicate, At, Idle
<1>1. /\ Types /\ Cmd \in Commands /\ exec.turn \in Attempts /\ Cmd = exec.turn[1]
      /\ exec.turn[2] \in 1..MaxTries /\ exec.turn = <<Cmd, exec.turn[2]>>
      /\ P(Cmd) = Ask.perm /\ status[Ask.perm] # "none"
  BY <1>0, Here, Typed
<1>2. /\ exec.answer \in Answers /\ True(exec.turn, exec.answer)
      /\ verdict \in [Attempts -> Answers \cup {None}] /\ None \notin Answers
  BY <1>0, PermissionAssumption DEF AInv, Truthful, At, Tables, PermissionAssumption
<1>3. /\ verdict' \in [Attempts -> Answers \cup {None}]
      /\ \A t \in Attempts : verdict'[t] = IF t = exec.turn THEN exec.answer ELSE verdict[t]
  BY <1>0, <1>1, <1>2
<1>4. \/ fallbacks' = fallbacks
      \/ /\ exec.answer = "unknown" /\ fallbacks' = fallbacks \cup {Cmd}
         /\ ~(Cardinality(fallbacks) >= MaxFallbacks /\ Cmd \notin fallbacks)
  BY DEF Publish, SendDuplicate, broker
<1>5. Tables'
  <2>1. /\ observers \in [Commands -> SUBSET Clients]
        /\ \A c \in Commands :
              IsFiniteSet(observers[c]) /\ Cardinality(observers[c]) <= PerCommand
        /\ fallbacks \subseteq Commands /\ IsFiniteSet(fallbacks)
        /\ Cardinality(fallbacks) <= MaxFallbacks
        /\ PerCommand \in Nat /\ MaxFallbacks \in Nat
    BY PermissionAssumption DEF AInv, Tables, PermissionAssumption
  <2>2. observers' = observers \/ observers' = [observers EXCEPT ![Cmd] = {}]
    BY DEF Publish, SendDuplicate, broker
  <2>3. IsFiniteSet({}) /\ Cardinality({}) = 0
    BY FS_EmptySet
  <2>4. /\ observers' \in [Commands -> SUBSET Clients]
        /\ \A c \in Commands : observers'[c] = observers[c] \/ observers'[c] = {}
    BY <1>1, <2>1, <2>2
  <2>5. \A c \in Commands : IsFiniteSet(observers'[c]) /\ Cardinality(observers'[c]) <= PerCommand
    <3>1. 0 <= PerCommand
      BY <2>1
    <3> QED
      BY <2>1, <2>3, <2>4, <3>1
  <2>6. /\ fallbacks' \subseteq Commands /\ IsFiniteSet(fallbacks')
        /\ Cardinality(fallbacks') <= MaxFallbacks
    <3>1. CASE Cmd \in fallbacks \/ fallbacks' = fallbacks
      <4>1. fallbacks' = fallbacks
        BY <1>4, <3>1
      <4> QED
        BY <2>1, <4>1
    <3>2. CASE Cmd \notin fallbacks /\ fallbacks' = fallbacks \cup {Cmd}
      <4>1. /\ IsFiniteSet(fallbacks \cup {Cmd})
            /\ Cardinality(fallbacks \cup {Cmd}) = Cardinality(fallbacks) + 1
        BY <2>1, <3>2, FS_AddElement
      <4>2. Cardinality(fallbacks) \in Nat
        BY <2>1, FS_CardinalityType
      <4>3. fallbacks' # fallbacks
        BY <3>2
      <4>4. ~(Cardinality(fallbacks) >= MaxFallbacks)
        BY <1>4, <3>2, <4>3
      <4> QED
        BY <1>1, <2>1, <3>2, <4>1, <4>2, <4>4
    <3> QED
      BY <1>4, <3>1, <3>2
  <2>7. overflow' \in BOOLEAN
    BY DEF Publish, SendDuplicate, broker, AInv, Tables
  <2> QED
    BY <1>0, <1>3, <2>4, <2>5, <2>6, <2>7 DEF AInv, Tables, docs, world
<1>6. InOrder'
  <2>1. ASSUME NEW t \in Attempts, Begun(t)'
        PROVE  /\ t[2] <= tries[t[1]]
               /\ \A i \in DOMAIN queue : queue[i].turn[1] = t[1] => t[2] < queue[i].turn[2]
    <3>1. CASE t = exec.turn
      BY <1>0, <1>1, <3>1 DEF AInv, InOrder
    <3>2. CASE t # exec.turn
      <4>1. Begun(t)
        BY <1>0, <1>3, <2>1, <3>2 DEF Begun, world
      <4> QED
        BY <4>1 DEF AInv, InOrder
    <3> QED
      BY <3>1, <3>2
  <2>2. /\ \A i \in DOMAIN queue : queue[i].turn[2] <= tries[queue[i].turn[1]]
        /\ \A i, j \in DOMAIN queue :
              i < j /\ queue[i].turn[1] = queue[j].turn[1] => queue[i].turn[2] < queue[j].turn[2]
    BY DEF AInv, InOrder
  <2> QED
    BY <1>0, <2>1, <2>2 DEF InOrder, At
<1>7. Truthful'
  BY <1>0, <1>2, <1>3 DEF AInv, Truthful, True, At, world
<1>8. Settled'
  BY <1>0 DEF AInv, Settled, Tidy, Working, world
<1>9. Forsaken'
  <2>1. UNCHANGED <<asked, outbox, status, pending, claim, chat, queue>>
    BY <1>0 DEF table, docs, world
  <2>2. \A c \in Commands : Shut(c) => Shut(c)'
    BY <2>1 DEF Shut, Barred, P
  <2> SUFFICES ASSUME chat = "alive" PROVE Forsaken'
    BY <2>1 DEF Forsaken
  <2>3. \A c \in fallbacks' : c \in Commands /\ Shut(c) /\ status[P(c)] # "none"
    <3>1. \A c \in fallbacks : c \in Commands /\ Shut(c) /\ status[P(c)] # "none"
      BY DEF AInv, Tables, Forsaken
    <3>2. exec.answer = "unknown" => Shut(Cmd)
      BY <1>0 DEF AInv, Forsaken, At
    <3> QED
      BY <1>1, <1>4, <3>1, <3>2
  <2>4. \A i \in DOMAIN queue, c \in Commands :
            c = queue[i].turn[1] => (~Present(outbox[c]) => Shut(c)')
    BY <2>2 DEF AInv, Forsaken
  <2>5. \A i \in DOMAIN queue : queue[i].turn[1] \in Commands
    BY <1>1, Queued
  <2> QED
    BY <1>0, <2>1, <2>2, <2>3, <2>4, <2>5 DEF Forsaken, At, P
<1>10. Retried'
  <2> SUFFICES ASSUME chat = "alive" PROVE Retried'
    BY <1>0 DEF Retried, world
  <2>1. ASSUME NEW c \in Commands, tries[c] > 0, verdict'[<<c, tries[c]>>] = "retryable"
        PROVE  Again(c)'
    <3>1. tries[c] \in 1..MaxTries /\ <<c, tries[c]>> \in Attempts
      BY <1>1, <2>1 DEF Types, Attempts
    <3>2. CASE <<c, tries[c]>> = exec.turn
      <4>1. c = Cmd /\ exec.turn[2] = tries[Cmd]
        <5>1. <<c, tries[c]>>[1] = exec.turn[1] /\ <<c, tries[c]>>[2] = exec.turn[2]
          BY <3>2
        <5> QED
          BY <1>1, <5>1
      <4>2. exec.answer = "retryable"
        BY <1>3, <2>1, <3>1, <3>2
      <4>3. Again(Cmd) /\ fallbacks' = fallbacks
        BY <1>0, <1>4, <4>1, <4>2 DEF AInv, Retried, At
      <4> QED
        BY <1>0, <4>1, <4>3 DEF Again
    <3>3. CASE <<c, tries[c]>> # exec.turn
      <4>1. verdict[<<c, tries[c]>>] = "retryable" /\ "retryable" # None
        BY <1>2, <1>3, <2>1, <3>1, <3>3 DEF Answers
      <4>2. Again(c)
        BY <2>1, <4>1 DEF AInv, Retried
      <4>3. c # Cmd
        <5> SUFFICES ASSUME c = Cmd PROVE FALSE
          OBVIOUS
        <5>1. Begun(<<c, tries[c]>>)
          BY <4>1 DEF Begun
        <5>2. <<c, tries[c]>>[2] <= exec.turn[2]
          BY <1>0, <1>1, <3>1, <5>1 DEF AInv, InOrder
        <5>3. exec.turn[2] <= tries[c]
          BY <1>0 DEF AInv, InOrder
        <5>4. exec.turn[2] = tries[c]
          BY <1>1, <3>1, <5>2, <5>3
        <5> QED
          BY <1>1, <3>3, <5>4
      <4> QED
        BY <1>0, <1>4, <4>2, <4>3 DEF Again
    <3> QED
      BY <3>2, <3>3
  <2> QED
    BY <1>0, <2>1 DEF Retried, At
<1> QED
  BY <1>5, <1>6, <1>7, <1>8, <1>9, <1>10 DEF AInv

LEMMA EnqueueAnswers ==
    ASSUME IInv, AInv, NEW c \in Commands, NEW k \in Clients, Enqueue(c, k),
           UNCHANGED <<exec, agent, verdict>>
    PROVE  /\ InOrder'
           /\ tries[c] \in Nat /\ <<c, tries[c] + 1>> \in Attempts
           /\ \A d \in Commands : tries'[d] = IF d = c THEN tries[c] + 1 ELSE tries[d]
           /\ \A i \in DOMAIN queue' : queue'[i].turn[1] = c
                                       \/ (i \in DOMAIN queue /\ queue'[i] = queue[i])
<1>0. /\ Types /\ queue \in Seq(Entry) /\ tries \in [Commands -> 0..MaxTries]
      /\ MaxTries \in Nat
  BY PermissionAssumption DEF IInv, Types, Entry, PermissionAssumption
<1>1. tries[c] \in Nat /\ tries[c] + 1 \in 1..MaxTries
  <2>1. asked[c].tries \in 0..MaxTries
    BY <1>0, PermissionAssumption DEF Types, PermissionAssumption
  <2> QED
    BY <1>0, <2>1 DEF Enqueue
<1>2. \A d \in Commands : tries'[d] = IF d = c THEN tries[c] + 1 ELSE tries[d]
  BY <1>0 DEF Enqueue
<1> DEFINE e == [turn |-> <<c, tries[c] + 1>>, client |-> k]
<1>3. e \in Entry /\ e.turn[1] = c /\ e.turn[2] = tries[c] + 1 /\ queue' = Append(queue, e)
  BY <1>1 DEF Entry, Attempts, Enqueue
<1> HIDE DEF e
<1>4. /\ \A i \in DOMAIN queue' : \/ queue'[i] = e /\ i = Len(queue) + 1
                                  \/ i \in DOMAIN queue /\ queue'[i] = queue[i]
      /\ DOMAIN queue = 1..Len(queue) /\ Len(queue) \in Nat
      /\ DOMAIN queue' = 1..(Len(queue) + 1)
  <2> HIDE DEF Entry
  <2> QED
    BY <1>0, <1>3
<1>5. \A i \in DOMAIN queue : queue[i].turn[1] \in Commands /\ queue[i].turn[2] \in 1..MaxTries
  BY <1>0, Queued, Typed
<1>6. ~At("idle") => Cmd \in Commands /\ exec.turn[2] \in 1..MaxTries /\ Cmd' = Cmd
  BY <1>0, Typed DEF Cmd
<1>7. \A t \in Attempts : t[1] \in Commands /\ t[2] \in 1..MaxTries
  BY <1>0, Typed
<1>8. \A d \in Commands : tries[d] \in Nat /\ tries[d] <= tries'[d]
  BY <1>0, <1>1, <1>2
<1>9. \A i \in DOMAIN queue' : queue'[i].turn[2] <= tries'[queue'[i].turn[1]]
  <2>1. ASSUME NEW i \in DOMAIN queue PROVE queue[i].turn[2] <= tries'[queue[i].turn[1]]
    <3>1. queue[i].turn[2] <= tries[queue[i].turn[1]]
      BY DEF AInv, InOrder
    <3> QED
      BY <1>5, <1>8, <3>1, <1>1, <1>2
  <2>2. e.turn[2] <= tries'[e.turn[1]]
    BY <1>1, <1>2, <1>3
  <2> QED
    BY <1>4, <2>1, <2>2
<1>10. \A i \in DOMAIN queue : queue[i].turn[1] = c => queue[i].turn[2] < e.turn[2]
  <2>1. \A i \in DOMAIN queue : queue[i].turn[1] = c => queue[i].turn[2] <= tries[c]
    BY DEF AInv, InOrder
  <2> QED
    BY <1>1, <1>3, <1>5, <2>1
<1>11. \A i, j \in DOMAIN queue' :
          i < j /\ queue'[i].turn[1] = queue'[j].turn[1] => queue'[i].turn[2] < queue'[j].turn[2]
  <2> SUFFICES ASSUME NEW i \in DOMAIN queue', NEW j \in DOMAIN queue', i < j,
                      queue'[i].turn[1] = queue'[j].turn[1]
               PROVE  queue'[i].turn[2] < queue'[j].turn[2]
    OBVIOUS
  <2>1. i \in DOMAIN queue /\ queue'[i] = queue[i]
    BY <1>4
  <2>2. CASE queue'[j] = e
    BY <1>3, <1>10, <2>1, <2>2
  <2>3. CASE j \in DOMAIN queue /\ queue'[j] = queue[j]
    BY <2>1, <2>3 DEF AInv, InOrder
  <2> QED
    BY <1>4, <2>2, <2>3
<1>12. ~At("idle") =>
          /\ exec.turn[2] <= tries'[Cmd] /\ verdict[exec.turn] = None
          /\ \A i \in DOMAIN queue' : queue'[i].turn[1] = Cmd => exec.turn[2] < queue'[i].turn[2]
  <2> SUFFICES ASSUME ~At("idle")
               PROVE  /\ exec.turn[2] <= tries'[Cmd] /\ verdict[exec.turn] = None
                      /\ \A i \in DOMAIN queue' :
                            queue'[i].turn[1] = Cmd => exec.turn[2] < queue'[i].turn[2]
    OBVIOUS
  <2>1. /\ exec.turn[2] <= tries[Cmd] /\ verdict[exec.turn] = None
        /\ \A i \in DOMAIN queue : queue[i].turn[1] = Cmd => exec.turn[2] < queue[i].turn[2]
    BY DEF AInv, InOrder
  <2>2. exec.turn[2] <= tries'[Cmd]
    BY <1>1, <1>2, <1>6, <1>8, <2>1
  <2>3. Cmd = c => exec.turn[2] < e.turn[2]
    BY <1>1, <1>3, <1>6, <2>1
  <2> QED
    BY <1>3, <1>4, <2>1, <2>2, <2>3
<1>13. \A t \in Attempts : Begun(t)' =>
          /\ t[2] <= tries'[t[1]]
          /\ \A i \in DOMAIN queue' : queue'[i].turn[1] = t[1] => t[2] < queue'[i].turn[2]
          /\ ~At("idle") /\ Cmd = t[1] => t[2] <= exec.turn[2]
  <2> SUFFICES ASSUME NEW t \in Attempts, Begun(t)
               PROVE  /\ t[2] <= tries'[t[1]]
                      /\ \A i \in DOMAIN queue' : queue'[i].turn[1] = t[1] => t[2] < queue'[i].turn[2]
                      /\ ~At("idle") /\ Cmd = t[1] => t[2] <= exec.turn[2]
    BY DEF Begun
  <2>1. /\ t[2] <= tries[t[1]]
        /\ \A i \in DOMAIN queue : queue[i].turn[1] = t[1] => t[2] < queue[i].turn[2]
        /\ ~At("idle") /\ Cmd = t[1] => t[2] <= exec.turn[2]
    BY DEF AInv, InOrder
  <2>2. t[2] <= tries'[t[1]]
    BY <1>1, <1>2, <1>7, <1>8, <2>1
  <2>3. t[1] = c => t[2] < e.turn[2]
    BY <1>1, <1>3, <1>7, <2>1
  <2> QED
    BY <1>3, <1>4, <2>1, <2>2, <2>3
<1>14. InOrder'
  BY <1>6, <1>9, <1>11, <1>12, <1>13 DEF InOrder, At
<1>15. \A i \in DOMAIN queue' : queue'[i].turn[1] = c
                                \/ (i \in DOMAIN queue /\ queue'[i] = queue[i])
  BY <1>3, <1>4
<1>16. <<c, tries[c] + 1>> \in Attempts
  BY <1>1 DEF Attempts
<1> QED
  BY <1>1, <1>2, <1>14, <1>15, <1>16

\* A submission makes the record live again, or leaves it as it is.
LEMMA SubmitAnswers ==
    ASSUME IInv, AInv, NEW c \in Commands, NEW k \in Clients,
           SubmitNew(c, k) \/ SubmitResume(c, k)
    PROVE  AInv'
<1> DEFINE s == MarkAccepted(Insert("resolve"))
<1>0. /\ Types /\ Enqueue(c, k)
      /\ UNCHANGED <<asked, exec, observers, fallbacks, overflow, pending, claim, status, faults, reg,
                     agent, chat, link, drops, disc, verdict>>
  BY DEF IInv, SubmitNew, SubmitResume, broker, table, docs, world
<1>1. /\ InOrder'
      /\ tries[c] \in Nat /\ <<c, tries[c] + 1>> \in Attempts
      /\ \A d \in Commands : tries'[d] = IF d = c THEN tries[c] + 1 ELSE tries[d]
      /\ \A i \in DOMAIN queue' : queue'[i].turn[1] = c
                                  \/ (i \in DOMAIN queue /\ queue'[i] = queue[i])
  BY <1>0, EnqueueAnswers
<1>2. s.status = "accepted" /\ ~s.barrier /\ s.recovery = None
  BY DEF MarkAccepted, Insert, Move, Absent
<1> HIDE DEF s
<1>3. \/ /\ ~Present(outbox[c]) /\ outbox' = [outbox EXCEPT ![c] = s]
      \/ Present(outbox[c]) /\ outbox' = outbox
  <2>1. CASE SubmitNew(c, k)
    BY <2>1 DEF SubmitNew, Disposition, s
  <2>2. CASE SubmitResume(c, k)
    BY <2>2 DEF SubmitResume, Disposition
  <2> QED
    BY <2>1, <2>2
<1>4. /\ \A d \in Commands : d # c => outbox'[d] = outbox[d]
      /\ Present(outbox'[c])
      /\ outbox'[c] = outbox[c] \/ (outbox'[c] = s /\ ~Present(outbox[c]))
  <2>1. outbox \in [Commands -> Record]
    BY <1>0 DEF Types
  <2> QED
    BY <1>2, <1>3, <2>1 DEF Present
<1>5. Tables'
  BY <1>0 DEF AInv, Tables
<1>6. Truthful'
  BY <1>0 DEF AInv, Truthful, True, At
<1>7. Settled'
  <2>1. ASSUME NEW d \in Commands PROVE Tidy(d)'
    <3>1. CASE outbox'[d] = s
      BY <1>2, <3>1 DEF Tidy
    <3>2. CASE outbox'[d] = outbox[d]
      BY <1>0, <3>2 DEF AInv, Settled, Tidy, Working, Cmd
    <3> QED
      BY <1>4, <3>1, <3>2
  <2> QED
    BY <2>1 DEF Settled
<1>8. Forsaken'
  <2>1. \A d \in Commands : P(d)' = P(d) /\ (Shut(d) => Shut(d)')
    <3>1. \A d \in Commands : outbox'[d] = outbox[d]
             \/ (outbox'[d].recovery = None /\ outbox[d].status \notin Final)
      BY <1>2, <1>4 DEF Present, Final
    <3> QED
      BY <1>0, <3>1 DEF Shut, Barred, P
  <2> SUFFICES ASSUME chat = "alive" PROVE Forsaken'
    BY <1>0 DEF Forsaken
  <2>2. \A d \in fallbacks : d \in Commands /\ Shut(d)' /\ status[P(d)] # "none"
    BY <2>1 DEF AInv, Tables, Forsaken
  <2>3. ~At("idle") => Cmd \in Commands /\ Cmd' = Cmd
    BY <1>0, Typed DEF Cmd
  <2>4. At("publish") /\ exec.answer = "unknown" => Shut(Cmd)'
    <3>1. At("publish") /\ exec.answer = "unknown" => ~At("idle") /\ Shut(Cmd)
      BY DEF AInv, Forsaken, At
    <3> QED
      BY <2>1, <2>3, <3>1 DEF Shut, Barred, P
  <2>5. At("option") /\ ~Present(Rec)' => Shut(Cmd)'
    <3>1. At("option") /\ ~Present(Rec) => ~At("idle") /\ Shut(Cmd)
      BY DEF AInv, Forsaken, At
    <3>2. At("option") /\ ~Present(Rec)' => ~Present(Rec)
      <4>1. At("option") => ~At("idle")
        BY DEF At
      <4> QED
        BY <1>4, <2>3, <4>1 DEF Rec, Present
    <3> QED
      BY <2>1, <2>3, <3>1, <3>2 DEF Shut, Barred, P
  <2>6. ASSUME NEW i \in DOMAIN queue', ~Present(outbox'[queue'[i].turn[1]])
        PROVE  Shut(queue[i].turn[1])'
    <3>1. i \in DOMAIN queue /\ queue'[i] = queue[i] /\ queue'[i].turn[1] # c
      BY <1>1, <1>4, <2>6
    <3>2. PICK d \in Commands : d = queue[i].turn[1]
      BY <1>0, <3>1, Queued
    <3>3. ~Present(outbox[d])
      BY <1>4, <2>6, <3>1, <3>2
    <3>4. Shut(d)'
      BY <2>1, <3>1, <3>2, <3>3 DEF AInv, Forsaken
    <3> QED
      BY <3>1, <3>2, <3>4 DEF Shut, Barred, P
  <2> QED
    BY <1>0, <2>1, <2>2, <2>4, <2>5, <2>6 DEF Forsaken, At
<1>9. Retried'
  <2> SUFFICES ASSUME chat = "alive" PROVE Retried'
    BY <1>0 DEF Retried
  <2>1. ASSUME NEW d \in Commands, tries'[d] > 0, verdict[<<d, tries'[d]>>] = "retryable"
        PROVE  Again(d)'
    <3>1. CASE d # c
      BY <1>0, <1>1, <1>4, <2>1, <3>1 DEF AInv, Retried, Again
    <3>2. CASE d = c
      <4>1. "retryable" # None
        BY PermissionAssumption DEF PermissionAssumption, Answers
      <4>2. Begun(<<c, tries[c] + 1>>)
        BY <1>1, <2>1, <3>2, <4>1 DEF Begun
      <4>3. <<c, tries[c] + 1>>[2] <= tries[c]
        BY <1>1, <4>2 DEF AInv, InOrder
      <4> QED
        BY <1>1, <4>3
    <3> QED
      BY <3>1, <3>2
  <2>2. At("publish") /\ exec.answer = "retryable" /\ exec.turn[2] = tries'[Cmd] => Again(Cmd)'
    <3> SUFFICES ASSUME At("publish"), exec.answer = "retryable", exec.turn[2] = tries'[Cmd]
                 PROVE  Again(Cmd)'
      OBVIOUS
    <3>1. Cmd \in Commands /\ Cmd' = Cmd /\ exec.turn[2] <= tries[Cmd]
      BY <1>0, Typed DEF AInv, InOrder, At, Cmd
    <3>2. Cmd # c
      BY <1>1, <3>1
    <3>3. Again(Cmd)
      BY <1>1, <3>1, <3>2 DEF AInv, Retried
    <3> QED
      BY <1>0, <1>4, <3>1, <3>2, <3>3 DEF Again
  <2> QED
    BY <1>0, <2>1, <2>2 DEF Retried, At, Cmd
<1> QED
  BY <1>1, <1>5, <1>6, <1>7, <1>8, <1>9 DEF AInv

-----------------------------------------------------------------------------
(* The steps around the executions.                                        *)
LEMMA BackgroundAnswers ==
    ASSUME IInv, AInv, Tables', Ages,
           UNCHANGED <<asked, outbox, tries, queue, exec, agent, verdict, fallbacks>>,
           chat' = "alive" => chat = "alive", chat = "closed" => chat' = "closed"
    PROVE  AInv'
<1>0. Types
  BY DEF IInv
<1>1. InOrder' /\ Truthful'
  BY DEF AInv, InOrder, Begun, Truthful, True, At, Cmd
<1>2. Settled'
  BY DEF AInv, Settled, Tidy, Working, Cmd
<1>3. ASSUME NEW c \in Commands, Shut(c), status[P(c)] # "none" PROVE Shut(c)'
  BY <1>0, <1>3, ShutStays
<1>4. Forsaken'
  <2> SUFFICES ASSUME chat = "alive" PROVE Forsaken'
    BY DEF Forsaken
  <2>1. \A c \in Commands : P(c)' = P(c) /\ P(c) \in Permissions
    BY <1>0, Typed DEF P
  <2>2. \A c \in fallbacks : c \in Commands /\ Shut(c)' /\ status'[P(c)] # "none"
    <3>1. \A c \in fallbacks : c \in Commands /\ Shut(c) /\ status[P(c)] # "none"
      BY DEF AInv, Tables, Forsaken
    <3> QED
      BY <1>3, <2>1, <3>1 DEF Ages
  <2>3. ~At("idle") => Cmd \in Commands /\ Cmd' = Cmd /\ status[P(Cmd)] # "none"
    BY <1>0, Typed DEF IInv, Shown, Cmd
  <2>4. ASSUME ~At("idle"), Shut(Cmd) PROVE Shut(Cmd)'
    <3>1. \A c \in Commands : c = Cmd => Shut(c)'
      BY <1>3, <2>3, <2>4
    <3> QED
      BY <2>3, <2>4, <3>1 DEF Shut, Barred, P
  <2>5. At("publish") /\ exec.answer = "unknown" => Shut(Cmd)'
    BY <2>4 DEF AInv, Forsaken, At
  <2>6. At("option") /\ ~Present(Rec) => Shut(Cmd)'
    BY <2>4 DEF AInv, Forsaken, At
  <2>7. ASSUME NEW i \in DOMAIN queue, ~Present(outbox[queue[i].turn[1]])
        PROVE  Shut(queue[i].turn[1])'
    <3>1. PICK c \in Commands : c = queue[i].turn[1]
      BY <1>0, Queued
    <3>2. Shut(c) /\ status[P(c)] # "none"
      BY <2>7, <3>1 DEF IInv, Shown, AInv, Forsaken
    <3>3. Shut(c)'
      BY <1>3, <3>2
    <3> QED
      BY <3>1, <3>3 DEF Shut, Barred, P
  <2>8. Rec' = Rec
    BY DEF Rec, Cmd
  <2> QED
    BY <2>1, <2>2, <2>5, <2>6, <2>7, <2>8 DEF Forsaken, At
<1>5. Retried'
  BY DEF AInv, Retried, Again, At, Cmd
<1> QED
  BY <1>1, <1>2, <1>4, <1>5 DEF AInv

LEMMA AttachAnswers ==
    ASSUME IInv, AInv, NEW c \in Commands, NEW k \in Clients, SubmitAttach(c, k)
    PROVE  AInv'
<1>1. /\ UNCHANGED <<asked, outbox, tries, queue, exec, fallbacks, overflow, pending, claim,
                     status, faults, agent, chat, link, drops, disc, verdict>>
      /\ observers' = [observers EXCEPT ![c] = @ \cup {k}]
      /\ k \in observers[c] \/ Cardinality(observers[c]) < PerCommand
  BY DEF SubmitAttach, HasRoom, table, docs, world
<1>2. /\ observers \in [Commands -> SUBSET Clients] /\ PerCommand \in Nat
      /\ \A d \in Commands :
            IsFiniteSet(observers[d]) /\ Cardinality(observers[d]) <= PerCommand
  BY PermissionAssumption DEF AInv, Tables, PermissionAssumption
<1>3. /\ observers' \in [Commands -> SUBSET Clients]
      /\ \A d \in Commands : observers'[d] = IF d = c THEN observers[c] \cup {k} ELSE observers[d]
  BY <1>1, <1>2
<1>4. IsFiniteSet(observers[c] \cup {k}) /\ Cardinality(observers[c] \cup {k}) <= PerCommand
  <2>1. CASE k \in observers[c]
    <3>1. observers[c] \cup {k} = observers[c]
      BY <2>1
    <3> QED
      BY <1>2, <3>1
  <2>2. CASE k \notin observers[c]
    <3>1. /\ IsFiniteSet(observers[c] \cup {k})
          /\ Cardinality(observers[c] \cup {k}) = Cardinality(observers[c]) + 1
      BY <1>2, <2>2, FS_AddElement
    <3>2. Cardinality(observers[c]) \in Nat
      BY <1>2, FS_CardinalityType
    <3> QED
      BY <1>1, <1>2, <2>2, <3>1, <3>2
  <2> QED
    BY <2>1, <2>2
<1>5. \A d \in Commands : IsFiniteSet(observers'[d]) /\ Cardinality(observers'[d]) <= PerCommand
  BY <1>2, <1>3, <1>4
<1>6. Tables'
  BY <1>1, <1>3, <1>5 DEF AInv, Tables
<1>7. Ages
  BY <1>1 DEF Ages, Barred
<1> QED
  BY <1>1, <1>6, <1>7, BackgroundAnswers

LEMMA RequestAnswers ==
    ASSUME IInv, AInv,
           ProjectRequest \/ \E p \in Permissions : RegisterRequest(p) \/ LegacyRequest(p)
    PROVE  AInv'
<1>0. /\ status \in [Permissions -> Decisions \cup {"none", "pending", "expired"}]
      /\ claim \in [Permissions -> Commands \cup {None}]
      /\ reg # None => reg \in Permissions /\ status[reg] = "none"
      /\ \A p \in Permissions : status[p] = "none" => claim[p] = None
  BY DEF IInv, Types, Shown
<1>1. UNCHANGED <<asked, outbox, tries, queue, exec, observers, fallbacks, overflow, faults,
                  agent, chat, link, drops, disc, verdict>>
  BY DEF ProjectRequest, RegisterRequest, LegacyRequest, broker, docs, world, table
<1>2. Tables'
  BY <1>1 DEF AInv, Tables
<1>3. \/ UNCHANGED status
      \/ \E p \in Permissions : status[p] = "none" /\ status' = [status EXCEPT ![p] = "pending"]
  BY <1>0 DEF ProjectRequest, RegisterRequest, LegacyRequest, docs
<1>4. \A p \in Permissions : status[p] # "none" => status'[p] = status[p]
  BY <1>0, <1>3
<1>5. /\ UNCHANGED claim
      /\ \A p \in pending' : p \in pending \/ status[p] = "none"
  <2>1. CASE ProjectRequest \/ \E p \in Permissions : LegacyRequest(p)
    BY <2>1 DEF ProjectRequest, LegacyRequest, table
  <2>2. ASSUME NEW p \in Permissions, RegisterRequest(p)
        PROVE  UNCHANGED claim /\ \A q \in pending' : q \in pending \/ status[q] = "none"
    BY <1>0, <2>2 DEF RegisterRequest
  <2> QED
    BY <2>1, <2>2
<1>6. Ages
  BY <1>4, <1>5 DEF Ages, Barred
<1> QED
  BY <1>1, <1>2, <1>6, BackgroundAnswers

LEMMA DisconnectAnswers ==
    ASSUME IInv, AInv, \/ Disconnect \/ Reconnect \/ DiscExpire \/ DiscClear
                       \/ ProcessExit \/ ExitClear \/ Close
    PROVE  AInv'
<1>1. UNCHANGED <<asked, outbox, tries, queue, exec, observers, fallbacks, overflow, faults,
                  claim, agent, verdict>>
  BY DEF Disconnect, Reconnect, DiscExpire, DiscClear, ProcessExit, ExitClear, Close, broker,
         table, docs
<1>2. /\ chat' = chat \/ (chat = "alive" /\ chat' \in {"ended", "closed"})
                      \/ (chat = "ended" /\ chat' = "gone")
      /\ link' \in {link, "up", "down"} /\ disc' \in {disc, "idle", "expire", "clear"}
      /\ drops' = drops \/ (drops < MaxDrops /\ drops' = drops + 1)
  BY DEF Disconnect, Reconnect, DiscExpire, DiscClear, ProcessExit, ExitClear, Close
<1>3. pending' \subseteq pending
  BY DEF Disconnect, Reconnect, DiscExpire, DiscClear, ProcessExit, ExitClear, Close, table
<1>4. \/ status' = status
      \/ status' = [p \in Permissions |-> IF status[p] = "pending" THEN "expired" ELSE status[p]]
  BY DEF Disconnect, Reconnect, DiscExpire, DiscClear, ProcessExit, ExitClear, Close, docs
<1>5. Tables'
  <2>1. drops \in 0..MaxDrops /\ MaxDrops \in Nat
    BY PermissionAssumption DEF AInv, Tables, PermissionAssumption
  <2>2. drops' \in 0..MaxDrops
    BY <1>2, <2>1
  <2>3. chat' \in {"alive", "ended", "gone", "closed"}
    BY <1>2 DEF AInv, Tables
  <2>4. link' \in {"up", "down"} /\ disc' \in {"idle", "expire", "clear"}
    BY <1>2 DEF AInv, Tables
  <2> QED
    BY <1>1, <2>2, <2>3, <2>4 DEF AInv, Tables
<1>6. Ages
  BY <1>1, <1>3, <1>4 DEF Ages, Barred
<1>7. (chat' = "alive" => chat = "alive") /\ (chat = "closed" => chat' = "closed")
  BY <1>2
<1> QED
  BY <1>1, <1>5, <1>6, <1>7, BackgroundAnswers

LEMMA InitAnswers == Init => AInv
<1> SUFFICES ASSUME Init PROVE AInv
  OBVIOUS
<1>1. /\ exec.pc = "idle" /\ queue = <<>> /\ fallbacks = {}
      /\ \A t \in Attempts : agent[t] = "away" /\ verdict[t] = None
      /\ \A c \in Commands : outbox[c] = Absent /\ tries[c] = 0
  BY DEF Init, Idle
<1>2. Tables
  <2>1. IsFiniteSet({}) /\ Cardinality({}) = 0
    BY FS_EmptySet
  <2>2. {PerCommand, MaxFallbacks, MaxFaults, MaxDrops} \subseteq Nat
    BY PermissionAssumption DEF PermissionAssumption
  <2>3. 0 <= PerCommand /\ 0 <= MaxFallbacks /\ 0 \in 0..MaxFaults /\ 0 \in 0..MaxDrops
    BY <2>2
  <2> QED
    BY <2>1, <2>3 DEF Init, Tables
<1>3. InOrder
  BY <1>1 DEF InOrder, Begun, At
<1>4. Truthful
  BY <1>1, PermissionAssumption DEF Truthful, True, At, Answers, PermissionAssumption
<1>5. Settled
  <2>1. Absent.status = "absent"
    BY DEF Absent
  <2> QED
    BY <1>1, <2>1 DEF Settled, Tidy
<1>6. Forsaken /\ Retried
  <2>1. DOMAIN queue = {}
    BY <1>1
  <2>2. ~At("publish") /\ ~At("option")
    BY <1>1 DEF At
  <2>3. Forsaken
    BY <1>1, <2>1, <2>2 DEF Forsaken
  <2>4. \A c \in Commands : ~(tries[c] > 0)
    BY <1>1
  <2> QED
    BY <2>2, <2>3, <2>4 DEF Retried
<1> QED
  BY <1>2, <1>3, <1>4, <1>5, <1>6 DEF AInv

LEMMA NextAnswers == IInv /\ AInv /\ [Next]_vars => AInv'
<1> SUFFICES ASSUME IInv, AInv, [Next]_vars PROVE AInv'
  OBVIOUS
<1>1. ASSUME Executor PROVE AInv'
  BY <1>1, MiddleStep, StartAnswers, PublishAnswers DEF Executor, Middle
<1>2. ASSUME Environment PROVE AInv'
  BY <1>2, SubmitAnswers, AttachAnswers, RequestAnswers, DisconnectAnswers DEF Environment
<1>3. CASE UNCHANGED vars
  <2>1. UNCHANGED <<asked, outbox, tries, queue, exec, observers, fallbacks, overflow, pending,
                    claim, status, faults, agent, chat, link, drops, disc, verdict>>
    BY <1>3 DEF vars, broker, table, docs, world
  <2>2. Tables' /\ Ages
    BY <2>1 DEF AInv, Tables, Ages, Barred
  <2> QED
    BY <2>1, <2>2, BackgroundAnswers
<1> QED
  BY <1>1, <1>2, <1>3 DEF Next

\* What a client is told of its decision is true for good: a failed, retryable or duplicate
\* answer is never overtaken by a delivery, a committed one always had one; and what is
\* announced as retryable is executed when it comes again (finish_official, finish_legacy,
\* publish_terminal and the fallbacks of command_outcome_broker.rs).
THEOREM AnswersTheorem == Spec => []AnswersInv
<1>1. IInv /\ AInv => AnswersInv
  <2> SUFFICES ASSUME IInv, AInv PROVE AnswersInv
    OBVIOUS
  <2>1. TypeOK
    BY DEF IInv, AInv, Types, Tables, Reaches, TypeOK
  <2>2. \A t \in Attempts : True(t, verdict[t])
    BY DEF AInv, Truthful
  <2>3. ASSUME NEW c \in Commands, tries[c] > 0, verdict[<<c, tries[c]>>] = "retryable",
               chat = "alive", ~overflow
        PROVE  Disposition(c) \in {"new", "resume"}
    <3>1. Again(c)
      BY <2>3 DEF AInv, Retried
    <3>2. CASE ~Present(outbox[c])
      BY <3>2 DEF Disposition
    <3>3. CASE Present(outbox[c])
      <4>1. /\ outbox[c].status = "intent_durable" /\ ~outbox[c].barrier
            /\ outbox[c].recovery # None /\ c \notin fallbacks
        BY <3>1, <3>3 DEF Again
      <4> QED
        BY <2>3, <3>3, <4>1 DEF Disposition
    <3> QED
      BY <3>2, <3>3
  <2> QED
    BY <2>1, <2>2, <2>3 DEF AnswersInv, AnswersAreTrue, True
<1> QED
  BY <1>1, InitIInv, NextIInv, InitAnswers, NextAnswers, PTL DEF Spec

-----------------------------------------------------------------------------
(* The refinement of CommandPromise.                                       *)

\* The barrier stands from the moment it is raised until the execution has its answer.
RaisedInv == exec.pc \in {"forward", "finish"} => Rec.barrier

LEMMA ExecutorIsRaised ==
    ASSUME IInv, AInv, RaisedInv, Executor
    PROVE  RaisedInv'
<1>1. ASSUME \/ CheckOption \/ Claim \/ Decide \/ DecidedBefore \/ DecideOnClosed
             \/ LegacyUnbound \/ ForwardNotDelivered \/ ForwardUnknown \/ FinishOfficial
             \/ ConfirmLegacy \/ StartNext \/ Publish \/ SendDuplicate
      PROVE  exec'.pc \notin {"forward", "finish"}
  <2>0. exec \in ExecType
    BY DEF IInv, Types, ExecType
  <2>1. ASSUME StartNext \/ Publish \/ SendDuplicate
        PROVE  exec'.pc \in {"option", "idle"}
    <3>1. PICK t, k : \/ exec' = [Idle EXCEPT !.turn = t, !.client = k, !.pc = "option"]
                      \/ exec' = Idle
      BY <2>1 DEF StartNext, Publish, SendDuplicate
    <3>2. [Idle EXCEPT !.turn = t, !.client = k, !.pc = "option"].pc = "option"
          /\ Idle.pc = "idle"
      BY DEF Idle
    <3> QED
      BY <3>1, <3>2
  <2>2. ASSUME CheckOption \/ Claim \/ Decide \/ DecidedBefore \/ DecideOnClosed
        PROVE  (\E a : Finish(a)) \/ \E h : Goto("claim", h) \/ Goto("cas", h) \/ Goto("barrier", h)
    <3>1. ASSUME CheckOption \/ Claim
          PROVE  (\E a : Finish(a)) \/ \E h : Goto("claim", h) \/ Goto("cas", h)
      BY <3>1 DEF CheckOption, Claim, Degraded
    <3>2. ASSUME Decide \/ DecidedBefore \/ DecideOnClosed
          PROVE  (\E a : Finish(a)) \/ \E h : Goto("barrier", h)
      BY <3>2 DEF Decide, DecidedBefore, DecideOnClosed, Unknown
    <3> QED
      BY <2>2, <3>1, <3>2
  <2>3. ASSUME \/ LegacyUnbound \/ ForwardNotDelivered \/ ForwardUnknown \/ FinishOfficial
               \/ ConfirmLegacy
        PROVE  \E a : Finish(a)
    BY <2>3 DEF LegacyUnbound, ForwardNotDelivered, ForwardUnknown, FinishOfficial,
                ConfirmLegacy, Unknown, TerminalFailed
  <2>4. ASSUME NEW a, Finish(a)
        PROVE  exec'.pc = "publish"
    BY <2>0, <2>4, Finishes
  <2>5. ASSUME NEW pc, NEW h, Goto(pc, h)
        PROVE  exec'.pc = pc
    BY <2>0, <2>5, Goes
  <2> QED
    BY <1>1, <2>1, <2>2, <2>3, <2>4, <2>5
<1>2. ASSUME Barrier
      PROVE  RaisedInv'
  <2>1. ~At("idle") /\ Goto("forward", exec.held)
        /\ Store(CanMarkNoRedeliveryBarrier(Rec), RaiseBarrier(Rec))
    BY <1>2 DEF Barrier, At
  <2>2. Cmd \in Commands /\ Rec \in Record /\ exec \in ExecType
    BY <2>1, Midst
  <2>3. exec'.turn = exec.turn
    BY <2>1, <2>2, Goes
  <2>4. outbox'[Cmd] = RaiseBarrier(Rec)
    BY <2>1, Stores
  <2>5. RaiseBarrier(Rec).barrier = TRUE
    BY <2>2 DEF RaiseBarrier, Record
  <2> QED
    BY <2>3, <2>4, <2>5 DEF RaisedInv, Rec, Cmd
<1>3. ASSUME ForwardAcked
      PROVE  RaisedInv'
  <2>1. exec.pc = "forward" /\ exec \in ExecType
    BY <1>3 DEF ForwardAcked, At, IInv, Types, ExecType
  <2>2. CASE exec.held # None
    <3>1. Goto("finish", exec.held) /\ UNCHANGED outbox
      BY <1>3, <2>2 DEF ForwardAcked
    <3>2. exec'.turn = exec.turn
      BY <2>1, <3>1, Goes
    <3> QED
      BY <2>1, <3>1, <3>2 DEF RaisedInv, Rec, Cmd
  <2>3. CASE exec.held = None
    <3>1. Goto("confirm", None)
      BY <1>3, <2>3 DEF ForwardAcked
    <3>2. exec'.pc = "confirm"
      BY <2>1, <3>1, Goes
    <3> QED
      BY <3>2 DEF RaisedInv
  <2> QED
    BY <2>2, <2>3
<1> QED
  BY <1>1, <1>2, <1>3 DEF Executor, RaisedInv

LEMMA NextIsRaised ==
    ASSUME IInv, AInv, RaisedInv, [Next]_vars
    PROVE  RaisedInv'
<1>1. CASE Executor
  BY <1>1, ExecutorIsRaised
<1>2. ASSUME \/ UNCHANGED vars \/ ProjectRequest \/ Disconnect \/ Reconnect \/ DiscExpire
             \/ DiscClear \/ ProcessExit \/ ExitClear \/ Close
             \/ \E p \in Permissions : RegisterRequest(p) \/ LegacyRequest(p)
             \/ \E c \in Commands, k \in Clients : SubmitResume(c, k) \/ SubmitAttach(c, k)
      PROVE  RaisedInv'
  <2>1. UNCHANGED <<exec, outbox>>
    BY <1>2 DEF vars, ProjectRequest, Disconnect, Reconnect, DiscExpire, DiscClear,
                ProcessExit, ExitClear, Close, RegisterRequest, LegacyRequest, SubmitResume,
                SubmitAttach
  <2> QED
    BY <2>1 DEF RaisedInv, Rec, Cmd
<1>3. ASSUME NEW c \in Commands, NEW k \in Clients, SubmitNew(c, k)
      PROVE  RaisedInv'
  <2>1. /\ outbox \in [Commands -> Record] /\ ~Present(outbox[c]) /\ UNCHANGED exec
        /\ outbox' = [outbox EXCEPT ![c] = MarkAccepted(Insert("resolve"))]
    BY <1>3 DEF SubmitNew, Disposition, IInv, Types
  <2>2. ASSUME exec.pc \in {"forward", "finish"}
        PROVE  Rec' = Rec
    <3>1. Rec.status = "intent_durable" /\ Cmd \in Commands
      BY <2>2, Here DEF IInv, ExecShape, At
    <3>2. Cmd # c /\ Cmd' = Cmd
      BY <2>1, <3>1 DEF Rec, Cmd, Present
    <3> QED
      BY <2>1, <3>1, <3>2 DEF Rec
  <2> QED
    BY <2>1, <2>2 DEF RaisedInv
<1> QED
  BY <1>1, <1>2, <1>3 DEF Next, Environment

\* Before an execution is accepted, and before its answer is forwarded, the agent has
\* heard nothing of the command.
LEMMA NotHeard ==
    ASSUME IInv, AInv, RaisedInv
    PROVE  /\ \A c \in Commands : Disposition(c) \in {"new", "resume"} =>
                  \A t \in Attempts : t[1] = c => agent[t] = "away"
           /\ At("forward") => \A t \in Attempts : t[1] = Cmd => agent[t] = "away"
<1>1. ASSUME NEW t \in Attempts, agent[t] # "away"
      PROVE  \/ outbox[t[1]].status \in Final
             \/ /\ exec.pc \in {"finish", "confirm"} /\ Rec = outbox[t[1]]
                /\ Rec.status = (IF At("finish") THEN "intent_durable" ELSE "dispatched")
  BY <1>1 DEF IInv, SentIsFinal, ExecShape, At, Rec, Cmd
<1>2. ASSUME NEW c \in Commands, Disposition(c) \in {"new", "resume"},
             NEW t \in Attempts, t[1] = c, agent[t] # "away"
      PROVE  FALSE
  <2>1. \/ outbox[c].status = "absent"
        \/ outbox[c].status = "intent_durable" /\ ~outbox[c].barrier
    BY <1>2 DEF Disposition, Present
  <2>2. At("finish") /\ Rec = outbox[c] /\ ~outbox[c].barrier
    BY <1>1, <1>2, <2>1 DEF Final
  <2> QED
    BY <2>2 DEF RaisedInv, At
<1>3. ASSUME At("forward"), NEW t \in Attempts, t[1] = Cmd, agent[t] # "away"
      PROVE  FALSE
  <2>1. Rec.status = "intent_durable" /\ Rec = outbox[t[1]]
    BY <1>3 DEF IInv, ExecShape, At, Rec
  <2> QED
    BY <1>1, <1>3, <2>1 DEF At, Final
<1> QED
  BY <1>2, <1>3

LEMMA RefinesAccept ==
    ASSUME IInv, AInv, RaisedInv, NEW c \in Commands, NEW k \in Clients,
           SubmitNew(c, k) \/ SubmitResume(c, k)
    PROVE  Abstract!Accept(c)
<1>1. Disposition(c) \in {"new", "resume"} /\ Enqueue(c, k) /\ UNCHANGED <<agent, verdict>>
  BY DEF SubmitNew, SubmitResume, world
<1>2. \A t \in Attempts : t[1] = c => agent[t] = "away"
  BY <1>1, NotHeard
<1>3. Abstract!Unheard(c)
  BY <1>2 DEF Abstract!Unheard, Abstract!Attempts, Attempts, FrameOf
<1>4. tries[c] < MaxTries
  <2>1. asked[c].tries \in 0..MaxTries /\ tries[c] \in 0..MaxTries
    BY PermissionAssumption DEF PermissionAssumption, IInv, Types
  <2> QED
    BY <1>1, <2>1, PermissionAssumption DEF Enqueue, PermissionAssumption
<1> QED
  BY <1>1, <1>3, <1>4 DEF Abstract!Accept, Enqueue, FrameOf

\* The execution under way is accepted and not answered.
LEMMA UnderWay ==
    ASSUME IInv, AInv, ~At("idle")
    PROVE  exec.turn \in Abstract!Attempts /\ Abstract!Open(exec.turn)
BY Here DEF AInv, InOrder, Abstract!Open, Abstract!Attempts, Attempts

\* What a step does to the place of one frame.
LEMMA FrameMoves ==
    ASSUME IInv, NEW t \in Attempts, NEW where \in Reaches, agent' = [agent EXCEPT ![t] = where]
    PROVE  LET f == IF where \in {"away", "refused"} THEN where ELSE "sent"
           IN  [s \in Attempts |-> FrameOf(s)]' = [[s \in Attempts |-> FrameOf(s)] EXCEPT ![t] = f]
<1> DEFINE f == IF where \in {"away", "refused"} THEN where ELSE "sent"
<1>1. \A s \in Attempts : FrameOf(s)' = IF s = t THEN f ELSE FrameOf(s)
  BY DEF IInv, Types, FrameOf
<1> HIDE DEF f
<1>2. [s \in Attempts |-> FrameOf(s)]' = [[s \in Attempts |-> FrameOf(s)] EXCEPT ![t] = f]
  BY <1>1
<1> QED
  BY <1>2 DEF f

\* The agent hears of the execution under way, and perhaps will only later.
LEMMA RefinesSend ==
    ASSUME IInv, AInv, RaisedInv, ForwardAcked \/ ForwardUnknown
    PROVE  Abstract!Next \/ UNCHANGED Abstract!vars
<1>1. At("forward") /\ ~At("idle") /\ UNCHANGED <<tries, verdict>>
  BY DEF ForwardAcked, ForwardUnknown, At
<1>2. /\ exec.turn \in Abstract!Attempts /\ Abstract!Open(exec.turn)
      /\ exec.turn \in Attempts /\ exec.turn[1] = Cmd
  BY <1>1, UnderWay, Here
<1>3. PICK where \in {"away", "wire", "taken"} : agent' = [agent EXCEPT ![exec.turn] = where]
  BY DEF ForwardAcked, ForwardUnknown
<1>4. Abstract!Unheard(exec.turn[1]) /\ agent[exec.turn] = "away"
  <2>1. \A t \in Attempts : t[1] = Cmd => agent[t] = "away"
    BY <1>1, NotHeard
  <2> QED
    BY <1>2, <2>1 DEF Abstract!Unheard, Abstract!Attempts, Attempts, FrameOf
<1>5. CASE where = "away"
  <2>1. UNCHANGED agent
    BY <1>2, <1>3, <1>4, <1>5 DEF IInv, Types
  <2> QED
    BY <1>1, <2>1 DEF Abstract!vars, FrameOf
<1>6. CASE where \in {"wire", "taken"}
  <2>1. [s \in Attempts |-> FrameOf(s)]'
            = [[s \in Attempts |-> FrameOf(s)] EXCEPT ![exec.turn] = "sent"]
    BY <1>2, <1>3, <1>6, FrameMoves DEF Reaches
  <2>2. Abstract!Send(exec.turn)
    BY <1>1, <1>2, <1>4, <2>1 DEF Abstract!Send
  <2> QED
    BY <1>2, <2>2 DEF Abstract!Next
<1> QED
  BY <1>3, <1>5, <1>6

LEMMA RefinesRefuse ==
    ASSUME IInv, AInv, ConfirmLegacy
    PROVE  Abstract!Next \/ UNCHANGED Abstract!vars
<1>1. At("confirm") /\ ~At("idle") /\ UNCHANGED <<tries, verdict>>
  BY DEF ConfirmLegacy, At
<1>2. /\ exec.turn \in Abstract!Attempts /\ Abstract!Open(exec.turn)
      /\ exec.turn \in Attempts /\ agent[exec.turn] = "taken"
  BY <1>1, UnderWay, Here DEF AInv, Truthful, At
<1>3. CASE UNCHANGED agent
  BY <1>1, <1>3 DEF Abstract!vars, FrameOf
<1>4. CASE agent' = [agent EXCEPT ![exec.turn] = "refused"]
  <2>1. [s \in Attempts |-> FrameOf(s)]'
            = [[s \in Attempts |-> FrameOf(s)] EXCEPT ![exec.turn] = "refused"]
    BY <1>2, <1>4, FrameMoves DEF Reaches
  <2>2. Abstract!Refuse(exec.turn)
    BY <1>1, <1>2, <2>1 DEF Abstract!Refuse, FrameOf
  <2> QED
    BY <1>2, <2>2 DEF Abstract!Next
<1> QED
  BY <1>3, <1>4 DEF ConfirmLegacy

LEMMA RefinesAnswer ==
    ASSUME IInv, AInv, Publish \/ SendDuplicate
    PROVE  Abstract!Next
<1>1. /\ At("publish") /\ ~At("idle") /\ UNCHANGED <<tries, agent>>
      /\ verdict' = [verdict EXCEPT ![exec.turn] = exec.answer]
  BY DEF Publish, SendDuplicate, At, world
<1>2. exec.turn \in Abstract!Attempts /\ Abstract!Open(exec.turn) /\ exec.turn \in Attempts
  BY <1>1, UnderWay, Here
<1>3. exec.answer \in Answers /\ Abstract!True(exec.turn, exec.answer)
  BY <1>1, <1>2 DEF AInv, Truthful, True, Abstract!True, FrameOf
<1>4. Abstract!Answer(exec.turn)
  BY <1>1, <1>2, <1>3 DEF Abstract!Answer, Answers, FrameOf
<1> QED
  BY <1>2, <1>4 DEF Abstract!Next

\* Decisions on permissions keep the promise of CommandPromise: of all executions of a
\* command one at most reaches the agent, each is answered once and truly, and none is
\* accepted after the agent has heard of the command.
THEOREM DecisionsKeepPromise == Spec => KeepsPromise
<1>1. Init => Abstract!Init
  BY DEF Init, Abstract!Init, Abstract!Attempts, Attempts, FrameOf
<1>2. Init => RaisedInv
  BY DEF Init, RaisedInv, Idle
<1>3. ASSUME IInv, AInv, RaisedInv, [Next]_vars
      PROVE  [Abstract!Next]_(Abstract!vars)
  <2> DEFINE Goal == Abstract!Next \/ UNCHANGED Abstract!vars
  <2>1. ASSUME UNCHANGED <<tries, agent, verdict>>
        PROVE  Goal
    BY <2>1 DEF Abstract!vars, FrameOf
  <2>2. ASSUME NEW c \in Commands, NEW k \in Clients, SubmitNew(c, k) \/ SubmitResume(c, k)
        PROVE  Goal
    BY <1>3, <2>2, RefinesAccept DEF Abstract!Next
  <2>3. ASSUME ForwardAcked \/ ForwardUnknown \/ ConfirmLegacy \/ Publish \/ SendDuplicate
        PROVE  Goal
    BY <1>3, <2>3, RefinesSend, RefinesRefuse, RefinesAnswer
  <2>4. ASSUME \/ StartNext \/ CheckOption \/ Claim \/ Decide \/ DecidedBefore
               \/ DecideOnClosed \/ Barrier \/ LegacyUnbound \/ ForwardNotDelivered
               \/ FinishOfficial \/ UNCHANGED vars
        PROVE  UNCHANGED <<tries, agent, verdict>>
    BY <2>4 DEF StartNext, CheckOption, Claim, Decide, DecidedBefore, DecideOnClosed, Barrier,
                LegacyUnbound, ForwardNotDelivered, FinishOfficial, vars, world
  <2>5. ASSUME \/ \E c \in Commands, k \in Clients : SubmitAttach(c, k)
               \/ \E p \in Permissions : RegisterRequest(p) \/ LegacyRequest(p)
               \/ ProjectRequest \/ Disconnect \/ Reconnect \/ DiscExpire \/ DiscClear
               \/ ProcessExit \/ ExitClear \/ Close
        PROVE  UNCHANGED <<tries, agent, verdict>>
    BY <2>5 DEF SubmitAttach, RegisterRequest, LegacyRequest, ProjectRequest, Disconnect,
                Reconnect, DiscExpire, DiscClear, ProcessExit, ExitClear, Close, world
  <2> HIDE DEF Goal
  <2>6. Goal
    BY <1>3, <2>1, <2>2, <2>3, <2>4, <2>5 DEF Next, Executor, Environment
  <2> QED
    BY <2>6 DEF Goal
<1> QED
  BY <1>1, <1>2, <1>3, InitIInv, NextIInv, InitAnswers, NextAnswers, NextIsRaised, PTL
     DEF Spec, KeepsPromise, Abstract!Spec
=============================================================================
