------------------------ MODULE MCPermissionResolution ------------------------
(* Instances of PermissionResolution for TLC.                                *)
EXTENDS PermissionResolution

CONSTANTS c1, c2, p1

\* Both decisions, a named option, none, and one that the request does not list.
AsksUpTo(n) ==
    {[perm |-> p1, decision |-> "allow", option |-> "none", tries |-> n],
     [perm |-> p1, decision |-> "deny", option |-> "listed", tries |-> n],
     [perm |-> p1, decision |-> "allow", option |-> "foreign", tries |-> n]}

MCAsks == UNION {AsksUpTo(n) : n \in 0..MaxTries}

\* One command, submitted over and over; two for one request, that agree or not.
MCScenarios ==
    {[c \in Commands |-> IF c = c1 THEN a ELSE [a EXCEPT !.tries = 0]] : a \in AsksUpTo(3)}
    \cup {[c \in Commands |-> IF c = c1 THEN a ELSE b] :
            a \in {x \in AsksUpTo(2) : x.option = "none"},
            b \in {x \in AsksUpTo(1) : x.option # "foreign"}}
=============================================================================
