----------------------------- MODULE MCAckRouting -----------------------------
EXTENDS AckRouting, TLC

CONSTANTS cancel1, cancel2, prompt, chatA, chatB, CancelKey, PromptKey

\* Two executions of one cancel share their command id, the prompt has its own; the
\* agents of two chats both number their requests from zero.
MCKeyOf == cancel1 :> CancelKey @@ cancel2 :> CancelKey @@ prompt :> PromptKey
CollidingKeyOf == [c \in {chatA, chatB} |-> CancelKey]
=============================================================================
