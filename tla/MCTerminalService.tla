------------------------- MODULE MCTerminalService -------------------------
(* One tab of one user. *)
EXTENDS TerminalService, TLC

CONSTANTS b1, p1

\* Two terminals and a lost connection; two terminals and a mishap; one with
\* more output, a lost connection and mishaps; three under a quota of two.
MCBudgets == {[opens |-> 2, chunks |-> 0, links |-> 2, mishaps |-> 0],
              [opens |-> 2, chunks |-> 1, links |-> 1, mishaps |-> 1],
              [opens |-> 1, chunks |-> 2, links |-> 2, mishaps |-> 2],
              [opens |-> 3, chunks |-> 0, links |-> 1, mishaps |-> 0]}

MCPrincipalOf == b1 :> p1

=============================================================================
