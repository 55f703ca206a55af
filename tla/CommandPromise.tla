---------------------------- MODULE CommandPromise ----------------------------
(***************************************************************************)
(* What the server promises a client about a command that the agent has to *)
(* hear of: however often it is submitted and executed, one execution at   *)
(* most reaches the agent or may still reach it, every execution gets one  *)
(* answer and does nothing after it, the answer is true, and a command is  *)
(* not executed again once the agent has, or may have, heard of it.        *)
(*                                                                         *)
(* PromptTurn, PermissionResolution and InteractiveAnswers implement it.   *)
(***************************************************************************)
EXTENDS Naturals

CONSTANTS Commands, MaxTries, NoAnswer

Attempts == Commands \X (1..MaxTries)

VARIABLES tries,  \* the executions of each command so far
          frame,  \* of each execution: away, sent (or on its way), refused by the agent
          answer  \* the answer to each execution

vars == <<tries, frame, answer>>

Init ==
    /\ tries = [c \in Commands |-> 0]
    /\ frame = [t \in Attempts |-> "away"]
    /\ answer = [t \in Attempts |-> NoAnswer]

\* The agent has not heard of the command and will not, but by an execution to come.
Unheard(c) == \A t \in Attempts : t[1] = c => frame[t] = "away"

\* Accepted and not answered.
Open(t) == t[2] <= tries[t[1]] /\ answer[t] = NoAnswer

Accept(c) ==
    /\ tries[c] < MaxTries /\ Unheard(c)
    /\ tries' = [tries EXCEPT ![c] = @ + 1]
    /\ UNCHANGED <<frame, answer>>

\* An execution whose forward fails may be answered at once.
Send(t) ==
    /\ Open(t) /\ Unheard(t[1])
    /\ frame' = [frame EXCEPT ![t] = "sent"]
    /\ answer' \in {answer, [answer EXCEPT ![t] = "unknown"]}
    /\ UNCHANGED tries

Refuse(t) ==
    /\ Open(t) /\ frame[t] = "sent"
    /\ frame' = [frame EXCEPT ![t] = "refused"]
    /\ UNCHANGED <<tries, answer>>

True(t, a) ==
    /\ a = "committed" => frame[t] = "sent"
    /\ a \in {"retryable", "failed"} => frame[t] # "sent"

Answer(t) ==
    /\ Open(t)
    /\ \E a \in {"committed", "duplicate", "retryable", "failed", "unknown"} :
          True(t, a) /\ answer' = [answer EXCEPT ![t] = a]
    /\ UNCHANGED <<tries, frame>>

Next ==
    \/ \E c \in Commands : Accept(c)
    \/ \E t \in Attempts : Send(t) \/ Refuse(t) \/ Answer(t)

Spec == Init /\ [][Next]_vars
=============================================================================
