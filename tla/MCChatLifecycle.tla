--------------------------- MODULE MCChatLifecycle ---------------------------
(* Small instance of ChatLifecycle. *)
EXTENDS ChatLifecycle
=============================================================================
