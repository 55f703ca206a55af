--------------------------- MODULE TurnProjection ---------------------------
(***************************************************************************)
(* What the documents of one chat say about its turns: the active turn of  *)
(* the Session Doc, the delivery state of each prompt's user entry and     *)
(* whether the assistant's entries of a turn have reached a terminal       *)
(* status in the Chat Doc.  The chat's single writer applies one command   *)
(* at a time (server/src/state/doc_manager*.rs), so a command is a pure    *)
(* operator from document to document.                                     *)
(*                                                                         *)
(* accepting and running are one status here, accepting: no guard tells    *)
(* them apart.  awaitingPermission is one of its own, as an answer to the  *)
(* request may end a turn in it.  Text, tools, versions and time stamps    *)
(* are left out.                                                           *)
(***************************************************************************)
CONSTANTS Turns,        \* turn ids, fresh for every accepted prompt
          NoTurn        \* the absence of one

TerminalTurn == {"completed", "failed", "cancelled", "interrupted"}
\* What the agent may say of a turn's end, and what nothing ever replaces.
FinalTurn == TerminalTurn \ {"interrupted"}
LoadingTurn == {"accepting", "awaitingPermission", "cancelling"}
TurnStatus == LoadingTurn \cup TerminalTurn

Doc == [turn : Turns \cup {NoTurn}, status : TurnStatus \cup {"idle"},
        entry : [Turns -> {"none", "pending", "completed", "failed_not_delivered",
                           "delivery_unknown"}],
        assistant : [Turns -> {"none", "streaming", "terminal"}]]

EmptyDoc == [turn |-> NoTurn, status |-> "idle",
             entry |-> [t \in Turns |-> "none"],
             assistant |-> [t \in Turns |-> "none"]]

\* session.loading: what keeps the input box of every client disabled.
Loading(d) == d.status \in LoadingTurn
\* The terminal guard: t is the active turn and is not terminal yet.
Owns(d, t) == d.turn = t /\ Loading(d)

\* RegisterPendingPromptEntry, for a turn id that is new.
Register(d, t) == [d EXCEPT !.turn = t, !.status = "accepting", !.entry[t] = "pending"]

Settle(d, t, status) ==
    [d EXCEPT !.status = status,
              !.assistant[t] = IF @ = "streaming" THEN "terminal" ELSE @]

\* MarkTurnInterrupted, MarkTurnCancelling and SetTurnTerminal change nothing
\* when the guard refuses.
MarkInterrupted(d, t) == IF Owns(d, t) THEN Settle(d, t, "interrupted") ELSE d
MarkCancelling(d, t) == IF Owns(d, t) THEN [d EXCEPT !.status = "cancelling"] ELSE d
SetTerminal(d, t, status) == IF Owns(d, t) THEN Settle(d, t, status) ELSE d
\* What its callers take for success: applied, or DuplicateIdempotent.
TerminalAccepted(d, t, status) == Owns(d, t) \/ (d.turn = t /\ d.status = status)

\* SetPromptEntryDelivery, one operator per delivery state.  A completed entry
\* is never downgraded, and a terminal assistant also forbids delivery_unknown.
EntryCompleted(d, t) == [d EXCEPT !.entry[t] = "completed"]
EntryUnknown(d, t) ==
    IF d.entry[t] = "completed" \/ d.assistant[t] = "terminal" THEN d
    ELSE [d EXCEPT !.entry[t] = "delivery_unknown"]
\* Mutant: the entry is marked, the turn is left to load for ever.
EntryNotDeliveredOnly(d, t) == [d EXCEPT !.entry[t] = "failed_not_delivered"]
EntryNotDelivered(d, t) ==
    [d EXCEPT !.entry[t] = IF @ = "completed" THEN @ ELSE "failed_not_delivered",
              !.status = IF Owns(d, t) THEN "failed" ELSE @]

\* SetChatTerminal clears the active turn and touches no entry.
EndChat(d) == [d EXCEPT !.turn = NoTurn, !.status = "idle"]

\* A content delta carries no turn id: it goes to the active turn, unless that
\* one is cancelling or terminal.
AcceptsDelta(d) == d.status \in {"accepting", "awaitingPermission"}
Delta(d) == [d EXCEPT !.assistant[d.turn] = "streaming"]

\* Mutant: a terminal event of the agent replaces any end.
CalibratesAlways(d, t) == d.turn = t
\* judge_body of a TurnTerminal: it ends the active turn, and it also replaces
\* interrupted, which the server had to guess.  A turn that is completed, failed or
\* cancelled is calibrated already.
Calibrates(d, t) == d.turn = t /\ (Loading(d) \/ d.status = "interrupted")

\* set_active_turn_status_if: the status alone, and only from the one expected.
StatusIf(d, expect, new) == IF d.status = expect THEN [d EXCEPT !.status = new] ELSE d

\* projected_turn_is_terminal
ShownTerminal(d, t) ==
    \/ d.turn = t /\ d.status \in TerminalTurn
    \/ d.assistant[t] = "terminal"
=============================================================================
