-------------------------- MODULE MCClientChannel --------------------------
(* Instances of ClientChannel for TLC. *)
EXTENDS ClientChannel

CONSTANTS c1, c2, d1, d2

\* A backlog that overflows while the client subscribes again; a backlog of
\* two documents; two clients that ask for the same prompt.
MCBudgets == {[conns |-> {c1}, docs |-> {d1}, updates |-> 3, events |-> 2],
              [conns |-> {c1}, docs |-> {d1, d2}, updates |-> 3, events |-> 1],
              [conns |-> {c1, c2}, docs |-> {d1}, updates |-> 0, events |-> 4]}

=============================================================================
