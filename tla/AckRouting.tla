------------------------------ MODULE AckRouting ------------------------------
(***************************************************************************)
(* How the server matches acknowledgements of one instance to the commands *)
(* it sent (control/instance_commands.rs) while the connection is lost and *)
(* replaced (control/instance_registry.rs, the loop of                     *)
(* channel/gateway_instance_loop.rs).                                      *)
(*                                                                         *)
(* A call is one send_command; its key is the command_id it is registered  *)
(* under.  What the other modules take for granted of a forward, that Ok   *)
(* means taken and that offline or rejected means not taken, is what is    *)
(* checked and proved here.                                                *)
(***************************************************************************)
EXTENDS Naturals

CONSTANTS Calls, Keys,
          KeyOf,      \* the key of each call
          Serial,     \* keys of a caller that waits for one call before the next
          MaxConns,   \* bound: connections of the instance
          NoCall      \* a key that is not in use

Connections == 1..MaxConns

ASSUME AckAssumption ==
    /\ KeyOf \in [Calls -> Keys] /\ Serial \subseteq Keys
    /\ MaxConns \in Nat
    /\ NoCall \notin Calls

VARIABLES
    current,  \* InstanceEntry.conn, 0 for none
    state,    \* InstanceEntry.state
    loop,     \* the loop of each connection, and whether the instance is still there
    slot,     \* InstanceEntry.pending_acks
    conn,     \* the connection each call was sent on, 0 before
    frame,    \* where its frame got to
    ack,      \* the acknowledgement of the frame: on its way, or read
    reply,    \* the oneshot of the call
    result    \* what send_command returned

ackVars == <<current, state, loop, slot, conn, frame, ack, reply, result>>

AckTypeOK ==
    /\ current \in 0..MaxConns /\ state \in {"Online", "Offline"}
    /\ loop \in [Connections -> {"none", "up", "cut", "over"}]
    /\ slot \in [Keys -> Calls \cup {NoCall}]
    /\ conn \in [Calls -> 0..MaxConns]
    /\ frame \in [Calls -> {"away", "wire", "taken", "refused"}]
    /\ ack \in [Calls -> {"none", "wire", "read"}]
    /\ reply \in [Calls -> {"none", "ok", "rejected"}]
    /\ result \in [Calls -> {"none", "waiting", "ok", "rejected", "offline", "gone", "timeout"}]

AckInit ==
    /\ current = 0 /\ state = "Offline"
    /\ loop = [k \in Connections |-> "none"]
    /\ slot = [k \in Keys |-> NoCall]
    /\ conn = [c \in Calls |-> 0]
    /\ frame = [c \in Calls |-> "away"] /\ ack = [c \in Calls |-> "none"]
    /\ reply = [c \in Calls |-> "none"] /\ result = [c \in Calls |-> "none"]

-----------------------------------------------------------------------------
(* send_command.                                                           *)

\* A serial key is used again only after proof that nothing was delivered; keys that
\* are the request ids of agents are used by whoever answers a request.
\* Mutant: a lost connection counts as proof.
RetryAfterGone(c) ==
    KeyOf[c] \in Serial =>
        \A d \in Calls \ {c} :
            KeyOf[d] = KeyOf[c] => result[d] \in {"none", "offline", "rejected", "gone"}
MayUse(c) ==
    KeyOf[c] \in Serial =>
        \A d \in Calls \ {c} :
            KeyOf[d] = KeyOf[c] => result[d] \in {"none", "offline", "rejected"}

\* A registration under a key in use replaces the other one, whose sender is dropped.
SendCommand(c) ==
    /\ result[c] = "none" /\ MayUse(c)
    /\ state = "Online" /\ current # 0
    /\ result' = [result EXCEPT ![c] = "waiting"]
    /\ slot' = [slot EXCEPT ![KeyOf[c]] = c]
    /\ conn' = [conn EXCEPT ![c] = current]
    /\ frame' = [frame EXCEPT ![c] = "wire"]
    /\ UNCHANGED <<current, state, loop, ack, reply>>

SendOffline(c) ==
    /\ result[c] = "none" /\ MayUse(c)
    /\ state = "Offline" \/ current = 0
    /\ result' = [result EXCEPT ![c] = "offline"]
    /\ UNCHANGED <<current, state, loop, slot, conn, frame, ack, reply>>

TakeReply(c) ==
    /\ result[c] = "waiting" /\ reply[c] # "none"
    /\ result' = [result EXCEPT ![c] = reply[c]]
    /\ UNCHANGED <<current, state, loop, slot, conn, frame, ack, reply>>

\* drop_pending_ack removes whatever is registered under the key by now.
Abandon(c, error) ==
    /\ result[c] = "waiting"
    /\ result' = [result EXCEPT ![c] = error]
    /\ slot' = [slot EXCEPT ![KeyOf[c]] = NoCall]
    /\ UNCHANGED <<current, state, loop, conn, frame, ack, reply>>

\* The oneshot's sender was dropped, or the channel of the connection is closed.
ConnectionGone(c) ==
    /\ Abandon(c, "gone")
    /\ reply[c] = "none"
    /\ slot[KeyOf[c]] # c \/ loop[conn[c]] = "over"

\* The timer may fire just before the reply, and the registration go just after it.
Timeout(c) == Abandon(c, "timeout")

-----------------------------------------------------------------------------
(* The instance, and the acknowledgements that come back (on_ack).         *)

\* What was on its way may arrive after the server gave the connection up.
Take(c) ==
    /\ frame[c] = "wire"
    /\ \E outcome \in {"taken", "refused"} : frame' = [frame EXCEPT ![c] = outcome]
    /\ ack' = [ack EXCEPT ![c] = "wire"]
    /\ UNCHANGED <<current, state, loop, slot, conn, reply, result>>

\* on_ack looks at the key alone, not at the connection.
OnAck(c) ==
    /\ ack[c] = "wire" /\ loop[conn[c]] \in {"up", "cut"}
    /\ LET answer == IF frame[c] = "taken" THEN "ok" ELSE "rejected"
       IN  reply' = [d \in Calls |-> IF d = slot[KeyOf[c]] THEN answer ELSE reply[d]]
    /\ slot' = [slot EXCEPT ![KeyOf[c]] = NoCall]
    /\ ack' = [ack EXCEPT ![c] = "read"]
    /\ UNCHANGED <<current, state, loop, conn, frame, result>>

-----------------------------------------------------------------------------
(* The life of a connection.                                               *)

\* register_connection: a fresh entry, so every pending registration is dropped. The
\* instance opens a connection only when its last one is gone.
Hello(k) ==
    /\ loop[k] = "none" /\ \A j \in Connections : loop[j] # "up"
    /\ loop' = [loop EXCEPT ![k] = "up"]
    /\ current' = k /\ state' = "Online"
    /\ slot' = [key \in Keys |-> NoCall]
    /\ UNCHANGED <<conn, frame, ack, reply, result>>

\* The connection breaks; the server may still read what has already arrived.
Cut(k) ==
    /\ loop[k] = "up"
    /\ loop' = [loop EXCEPT ![k] = "cut"]
    /\ UNCHANGED <<current, state, slot, conn, frame, ack, reply, result>>

\* Mutant: the end of any connection takes the instance offline.
EndAnyLoop(k) ==
    /\ loop[k] = "cut"
    /\ loop' = [loop EXCEPT ![k] = "over"]
    /\ current' = 0 /\ state' = "Offline"
    /\ UNCHANGED <<slot, conn, frame, ack, reply, result>>
\* The loop ends with on_disconnect, which leaves a newer connection alone, and the
\* pending registrations where they are.
EndLoop(k) ==
    /\ loop[k] = "cut"
    /\ loop' = [loop EXCEPT ![k] = "over"]
    /\ IF current = k THEN current' = 0 /\ state' = "Offline"
       ELSE UNCHANGED <<current, state>>
    /\ UNCHANGED <<slot, conn, frame, ack, reply, result>>

\* sweep_offline keeps the connection, a heartbeat over it takes the verdict back.
SweepOffline ==
    /\ state = "Online" /\ state' = "Offline"
    /\ UNCHANGED <<current, loop, slot, conn, frame, ack, reply, result>>

Heartbeat ==
    /\ current # 0 /\ state = "Offline" /\ state' = "Online"
    /\ UNCHANGED <<current, loop, slot, conn, frame, ack, reply, result>>

-----------------------------------------------------------------------------
CallStep(c) ==
    \/ SendCommand(c) \/ SendOffline(c) \/ TakeReply(c) \/ ConnectionGone(c) \/ Timeout(c)
    \/ Take(c) \/ OnAck(c)

AckNext ==
    \/ \E c \in Calls : CallStep(c)
    \/ \E k \in Connections : Hello(k) \/ Cut(k) \/ EndLoop(k)
    \/ SweepOffline \/ Heartbeat

AckSpec == AckInit /\ [][AckNext]_ackVars

-----------------------------------------------------------------------------
(* Safety.                                                                 *)

\* A caller that is told Ok had its own frame taken, not somebody else's, whatever was
\* acknowledged late, over an old connection or after a timeout.
OkMeansTaken == \A c \in Calls : result[c] = "ok" => frame[c] = "taken"

\* Offline and rejected are proofs that the frame was not and will not be taken: what
\* permission and cancel commands lower their barrier on.
NotDeliveredIsProof ==
    \A c \in Calls : result[c] \in {"offline", "rejected"} => frame[c] \in {"away", "refused"}

\* What a forward returned is what happened to its own frame, whichever acknowledgements
\* come late, and whichever registrations a timeout, a sweep or a new hello dropped.
DeliveryIsKnown == OkMeansTaken /\ NotDeliveredIsProof

\* The late end of a connection that was replaced does not cut off its successor.
LiveConnectionIsCurrent == \A k \in Connections : loop[k] = "up" => current = k

-----------------------------------------------------------------------------
(* Why: what the first two rest on when every key is serial.               *)

\* The calls whose frame may still be taken, or was.
Busy(c) == result[c] \in {"waiting", "ok", "gone", "timeout"}

\* One call of a key at a time has a frame whose fate is open.
OneBusyCall == \A c, d \in Calls : KeyOf[c] = KeyOf[d] /\ Busy(c) /\ Busy(d) => c = d

SlotIsWaiting ==
    \A k \in Keys :
        slot[k] # NoCall =>
            /\ KeyOf[slot[k]] = k
            /\ result[slot[k]] = "waiting" /\ reply[slot[k]] = "none"

\* The frame is sent by its call, answered once it was looked at, and only a read
\* acknowledgement, which is its own, fills the oneshot.
OwnAnswer ==
    \A c \in Calls :
        /\ result[c] \in {"none", "offline"} => frame[c] = "away"
        /\ (frame[c] \in {"taken", "refused"}) <=> (ack[c] # "none")
        /\ reply[c] # "none" => ack[c] = "read"
        /\ reply[c] = "ok" => frame[c] = "taken"
        /\ reply[c] = "rejected" => frame[c] = "refused"
        /\ result[c] \in {"ok", "rejected"} => reply[c] = result[c]

AckInv == AckTypeOK /\ OneBusyCall /\ SlotIsWaiting /\ OwnAnswer
=============================================================================
